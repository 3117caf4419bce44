----------------------------- MODULE SACGStore -----------------------------
(***************************************************************************)
(* The shared design state of the agentic flow: src/accagent/framework/    *)
(* sacg_store.py.  Every stage of the flow publishes its work through a    *)
(* TRANSITION: it declares the constraints it touches, binds the artifacts *)
(* it generated, attaches checker evidence and is then promoted or         *)
(* rejected.  The store also remembers unresolved obligations: open        *)
(* REQUESTS (retry or backtrack to a stage) and active contamination       *)
(* BARRIERS on artifacts of rejected transitions.                          *)
(*                                                                         *)
(* One action stands for one public method of SACGStore called by a stage  *)
(* process; the object is used by one process at a time, so a method is    *)
(* atomic.  Names, paths, log files, timestamps, summaries and observation *)
(* counters are left out; a "reason" stands for the reason text together   *)
(* with the requesting stage, a "context" for the verification scope, the  *)
(* debug layer and the failed gates that are part of a record's identity.  *)
(***************************************************************************)
EXTENDS Integers, Sequences, FiniteSets

CONSTANTS
    Transition,     \* identifiers of transitions
    Artifact,       \* identifiers of artifacts
    Constraint,     \* constraints of the design graph
    Checker,        \* checkers; an invariant of the graph is named by its checker
    Stage,          \* stages a request may be addressed to
    Reason,         \* reasons for a rejection or a request
    Context,        \* scope / layer / failed-gate contexts
    Unscoped,       \* the context of a call that names none
    ScopeLists,     \* sets of repair scopes a transition may declare
    ItemLists,      \* argument lists of requests (blocked artifacts, contracts)
    StoredLimit,    \* how many items of such a list the store keeps (16)
    MaxRequests,    \* bound: requests recorded in one behaviour
    NoTransition    \* "no transition"

ASSUME StoredLimitAssumption == StoredLimit \in Nat
ASSUME MaxRequestsAssumption == MaxRequests \in Nat
ASSUME ScopeListsAssumption ==
    ScopeLists \subseteq
        SUBSET {"forbidden", "approval_required", "unlisted", "auto_allowed"}
ASSUME ItemListsAssumption == ItemLists \subseteq Seq(Artifact)
ASSUME UnscopedAssumption == Unscoped \in Context
ASSUME NoTransitionAssumption == NoTransition \notin Transition

VARIABLES
    transitions,    \* state["transitions"]
    artifacts,      \* state["artifacts"]
    invariants,     \* state["invariants"], one per checker
    requests,       \* memory["retry_requests"] and memory["backtrack_requests"]
    barriers        \* memory["contamination_barriers"]

vars == <<transitions, artifacts, invariants, requests, barriers>>

-----------------------------------------------------------------------------
(* Types.                                                                  *)

ScopeClass == {"not_repair", "auto_allowed", "approval_required", "forbidden"}

EvidenceStatus == {"pass", "fail", "unknown"}

TransitionRecord ==
    [status    : {"undeclared", "declared", "promoted", "rejected"},
     class     : ScopeClass,
     ctx       : Context,
     required  : SUBSET Checker,
     approval  : {"none", "approved", "rejected"},
     generated : SUBSET Artifact,
     passed    : SUBSET Checker]

ArtifactRecord ==
    [trust     : {"unbound", "pending_transition", "validated", "rejected_producer"},
     fresh     : BOOLEAN,
     producer  : Transition \cup {NoTransition},
     validator : Transition \cup {NoTransition}]

InvariantRecord ==
    [constraints : SUBSET Constraint, status : EvidenceStatus]

RequestRecord ==
    [kind : {"retry", "backtrack"}, target : Stage, reason : Reason,
     ctx : Context, items : Seq(Artifact), status : {"open", "closed"}]

BarrierRecord ==
    [artifact : Artifact, by : Transition, reason : Reason, ctx : Context,
     status : {"active", "superseded"}]

TypeOK ==
    /\ transitions \in [Transition -> TransitionRecord]
    /\ artifacts \in [Artifact -> ArtifactRecord]
    /\ invariants \in [Checker -> InvariantRecord]
    /\ requests \in Seq(RequestRecord)
    /\ barriers \subseteq BarrierRecord

-----------------------------------------------------------------------------
(* Helpers of the store.                                                   *)

\* classify_repair_scope: the strongest class among the listed scopes; a scope
\* of no list ("unlisted") needs approval.
ClassifyRepairScope(scopes) ==
    CASE "forbidden" \in scopes             -> "forbidden"
      [] "forbidden" \notin scopes /\ scopes \cap {"approval_required", "unlisted"} # {}
                                            -> "approval_required"
      [] scopes = {"auto_allowed"}          -> "auto_allowed"
      [] scopes = {}                        -> "not_repair"

\* required_checkers: the checkers of the invariants on a touched constraint.
RequiredCheckers(touched) ==
    {c \in Checker : invariants[c].constraints \cap touched # {}}

\* What a request keeps of an argument list: its first StoredLimit items.
Truncate(items) ==
    IF Len(items) <= StoredLimit THEN items ELSE SubSeq(items, 1, StoredLimit)

Members(items) == {items[i] : i \in DOMAIN items}

\* _retry_request_key / _backtrack_request_key of a stored request.
RequestKey(r) ==
    [kind |-> r.kind, target |-> r.target, reason |-> r.reason, ctx |-> r.ctx,
     items |-> Members(r.items)]

BarrierKey(b) == [artifact |-> b.artifact, reason |-> b.reason, ctx |-> b.ctx]

\* Mutant: only retry requests are matched.
OpenRetryWithKey(key) ==
    {i \in DOMAIN requests :
        requests[i].status = "open" /\ requests[i].kind = "retry" /\ RequestKey(requests[i]) = key}

\* The open requests with a given key.
OpenWithKey(key) ==
    {i \in DOMAIN requests : requests[i].status = "open" /\ RequestKey(requests[i]) = key}

IsFirst(i, S) == i \in S /\ \A j \in S : i <= j

\* requests with the ones of indices S closed.
CloseRequests(S) ==
    [i \in DOMAIN requests |->
        IF i \in S THEN [requests[i] EXCEPT !.status = "closed"] ELSE requests[i]]

\* barriers with the members of S superseded.
Supersede(S) ==
    (barriers \ S) \cup {[b EXCEPT !.status = "superseded"] : b \in S}

ActiveBarriers == {b \in barriers : b.status = "active"}

\* Mutant: a rejection does not look for the barrier it already raised.
NoActiveBarrierKeys == {}

ActiveBarrierKeys == {BarrierKey(b) : b \in ActiveBarriers}

\* Mutant: only retry requests are collapsed.
DuplicateRetries ==
    {i \in DOMAIN requests : \E j \in 1 .. i - 1 :
        /\ requests[i].kind = "retry"
        /\ requests[i].status = "open"
        /\ requests[j].status = "open"
        /\ RequestKey(requests[j]) = RequestKey(requests[i])}

\* Mutant: every member of a group of duplicates is closed, the first included.
DuplicateRequestsAndFirst ==
    {i \in DOMAIN requests : \E j \in DOMAIN requests :
        /\ j # i
        /\ requests[i].status = "open"
        /\ requests[j].status = "open"
        /\ RequestKey(requests[j]) = RequestKey(requests[i])}

\* collapse: the open requests that repeat an earlier open one.
DuplicateRequests ==
    {i \in DOMAIN requests : \E j \in 1 .. i - 1 :
        /\ requests[i].status = "open"
        /\ requests[j].status = "open"
        /\ RequestKey(requests[j]) = RequestKey(requests[i])}

-----------------------------------------------------------------------------
Undeclared ==
    [status |-> "undeclared", class |-> "not_repair", ctx |-> Unscoped,
     required |-> {}, approval |-> "none", generated |-> {}, passed |-> {}]

Unbound ==
    [trust |-> "unbound", fresh |-> TRUE, producer |-> NoTransition,
     validator |-> NoTransition]

\* ensure_state_defaults: empty collections.  A checker without an invariant is
\* one whose invariant has no constraint.
Init ==
    /\ transitions = [t \in Transition |-> Undeclared]
    /\ artifacts = [a \in Artifact |-> Unbound]
    /\ invariants = [c \in Checker |-> [constraints |-> {}, status |-> "unknown"]]
    /\ requests = <<>>
    /\ barriers = {}

\* sacg_utils.add_invariant: an upsert, so an existing invariant forgets its
\* status and latest evidence.
AddInvariant(c, cs) ==
    /\ invariants' = [invariants EXCEPT ![c] = [constraints |-> cs, status |-> "unknown"]]
    /\ UNCHANGED <<transitions, artifacts, requests, barriers>>

DeclareTransition(t, touched, scopes, c) ==
    /\ transitions[t].status = "undeclared"
    /\ touched # {}
    /\ transitions' = [transitions EXCEPT ![t] =
           [Undeclared EXCEPT !.status = "declared",
                              !.class = ClassifyRepairScope(scopes),
                              !.ctx = c,
                              !.required = RequiredCheckers(touched)]]
    /\ UNCHANGED <<artifacts, invariants, requests, barriers>>

\* Stages 6 and 7 add checkers to a transition they have just declared.
RequireChecker(t, c) ==
    /\ transitions[t].status = "declared"
    /\ transitions' = [transitions EXCEPT ![t].required = @ \cup {c}]
    /\ UNCHANGED <<artifacts, invariants, requests, barriers>>

BindArtifact(a, t) ==
    /\ transitions[t].status # "undeclared"
    /\ artifacts' = [artifacts EXCEPT ![a] =
           [trust |-> "pending_transition", fresh |-> TRUE, producer |-> t,
            validator |-> NoTransition]]
    /\ transitions' = [transitions EXCEPT ![t].generated = @ \cup {a}]
    /\ UNCHANGED <<invariants, requests, barriers>>

\* The invariant must exist; t is NoTransition when the evidence is attached to
\* no transition.  Of the evidence of a transition promote reads the passing
\* checkers, so these are what the model keeps: a later failure of the same
\* checker does not take them back.
AttachEvidence(c, s, t) ==
    /\ invariants[c].constraints # {}
    /\ invariants' = [invariants EXCEPT ![c].status = s]
    /\ \/ t = NoTransition /\ UNCHANGED transitions
       \/ /\ t \in Transition
          /\ transitions[t].status # "undeclared"
          /\ transitions' = [transitions EXCEPT
                 ![t].passed = IF s = "pass" THEN @ \cup {c} ELSE @]
    /\ UNCHANGED <<artifacts, requests, barriers>>

\* Mutant: a rejecting decision leaves the status of the transition.
ApproveOnly(t, decision) ==
    /\ transitions[t].status # "undeclared"
    /\ transitions' = [transitions EXCEPT ![t].approval = decision]
    /\ UNCHANGED <<artifacts, invariants, requests, barriers>>

Approve(t, decision) ==
    /\ transitions[t].status # "undeclared"
    /\ transitions' = [transitions EXCEPT
           ![t].approval = decision,
           ![t].status = IF decision = "rejected" THEN "rejected" ELSE @]
    /\ UNCHANGED <<artifacts, invariants, requests, barriers>>

\* Mutant: a pass of the checker on earlier work of the flow is accepted.
PromotableOnEarlierEvidence(t) ==
    /\ transitions[t].status \notin {"undeclared", "rejected"}
    /\ transitions[t].class # "forbidden"
    /\ transitions[t].class = "approval_required" => transitions[t].approval = "approved"
    /\ \A c \in transitions[t].required : invariants[c].status = "pass"

\* The checks of promote, before it changes anything.
Promotable(t) ==
    /\ transitions[t].status \notin {"undeclared", "rejected"}
    /\ transitions[t].class # "forbidden"
    /\ transitions[t].class = "approval_required" => transitions[t].approval = "approved"
    /\ transitions[t].required \subseteq transitions[t].passed

\* Mutant: the barriers stay.
PromoteOverBarriers(t) ==
    /\ Promotable(t)
    /\ transitions' = [transitions EXCEPT ![t].status = "promoted"]
    /\ artifacts' = [a \in Artifact |->
           IF a \in transitions[t].generated
           THEN [artifacts[a] EXCEPT !.trust = "validated", !.validator = t]
           ELSE artifacts[a]]
    /\ UNCHANGED <<invariants, requests, barriers>>

\* Every artifact the transition generated becomes validated and every live
\* barrier on it is superseded, whatever the barrier's context.
Promote(t) ==
    /\ Promotable(t)
    /\ transitions' = [transitions EXCEPT ![t].status = "promoted"]
    /\ artifacts' = [a \in Artifact |->
           IF a \in transitions[t].generated
           THEN [artifacts[a] EXCEPT !.trust = "validated", !.validator = t]
           ELSE artifacts[a]]
    /\ barriers' = Supersede({b \in ActiveBarriers : b.artifact \in transitions[t].generated})
    /\ UNCHANGED <<invariants, requests>>

\* Mutant: the transition is rejected, its artifacts are not.
RejectTransitionOnly(t, reason) ==
    /\ transitions[t].status # "undeclared"
    /\ transitions' = [transitions EXCEPT ![t].status = "rejected"]
    /\ UNCHANGED <<artifacts, invariants, requests, barriers>>

\* A barrier per generated artifact, unless one with the same key is active.
Reject(t, reason) ==
    /\ transitions[t].status # "undeclared"
    /\ transitions' = [transitions EXCEPT ![t].status = "rejected"]
    /\ artifacts' = [a \in Artifact |->
           IF a \in transitions[t].generated
           THEN [artifacts[a] EXCEPT !.fresh = FALSE, !.trust = "rejected_producer"]
           ELSE artifacts[a]]
    /\ LET raised == {[artifact |-> a, by |-> t, reason |-> reason,
                       ctx |-> transitions[t].ctx, status |-> "active"] :
                          a \in transitions[t].generated}
       IN  barriers' = barriers \cup {b \in raised : BarrierKey(b) \notin ActiveBarrierKeys}
    /\ UNCHANGED <<invariants, requests>>

\* record_retry_request and record_backtrack_request.  The key of the call is
\* computed from the whole argument list, the key of a stored request from what
\* was kept of it.  Where the call matches open requests the first one stays and
\* the others are closed into it; otherwise a new open request is appended.
RecordRequest(kind, target, reason, c, items) ==
    LET key     == [kind |-> kind, target |-> target, reason |-> reason, ctx |-> c,
                    items |-> Members(items)]
        matches == OpenWithKey(key)
        request == [kind |-> kind, target |-> target, reason |-> reason, ctx |-> c,
                    items |-> Truncate(items), status |-> "open"]
    IN  /\ \/ /\ matches # {}
              /\ requests' = CloseRequests({i \in matches : ~IsFirst(i, matches)})
           \/ /\ matches = {}
              /\ Len(requests) < MaxRequests
              /\ requests' = Append(requests, request)
        /\ UNCHANGED <<transitions, artifacts, invariants, barriers>>

\* record_stage_outcome with a passing status: every open request addressed to
\* the stage is closed, whatever its context.  Any other status only extends
\* the outcome log.
RecordStageOutcome(stage) ==
    /\ requests' = CloseRequests({i \in DOMAIN requests :
           requests[i].status = "open" /\ requests[i].target = stage})
    /\ UNCHANGED <<transitions, artifacts, invariants, barriers>>

\* reconcile_retry_and_barriers with explicit identifiers: the listed open
\* retry requests are closed and the listed active barriers superseded.
Reconcile(retries, lifted) ==
    /\ requests' = CloseRequests({i \in retries \cap DOMAIN requests :
           requests[i].status = "open" /\ requests[i].kind = "retry"})
    /\ barriers' = Supersede(lifted \cap ActiveBarriers)
    /\ UNCHANGED <<transitions, artifacts, invariants>>

\* The same call without identifiers: it selects by stage and artifact.
ReconcileByArtifact(target, as) ==
    /\ requests' = CloseRequests({i \in DOMAIN requests :
           /\ requests[i].status = "open"
           /\ requests[i].kind = "retry"
           /\ requests[i].target = target \/ Members(requests[i].items) \cap as # {}})
    /\ barriers' = Supersede({b \in ActiveBarriers : b.artifact \in as})
    /\ UNCHANGED <<transitions, artifacts, invariants>>

\* Mutant: of the barriers with one key none is left out of those to supersede.
DeduplicateActiveMemoryRecordsAway ==
    /\ requests' = CloseRequests(DuplicateRequests)
    /\ barriers' = Supersede({b \in ActiveBarriers : BarrierKey(b) \in ActiveBarrierKeys})
    /\ UNCHANGED <<transitions, artifacts, invariants>>

\* deduplicate_active_memory_records: of the open requests with one key the
\* first stays open; of the active barriers with one key, one stays active.
DeduplicateActiveMemoryRecords ==
    /\ requests' = CloseRequests(DuplicateRequests)
    /\ LET twins(b)  == {x \in ActiveBarriers : BarrierKey(x) = BarrierKey(b)}
           kept      == {CHOOSE x \in twins(b) : TRUE : b \in ActiveBarriers}
       IN  barriers' = Supersede(ActiveBarriers \ kept)
    /\ UNCHANGED <<transitions, artifacts, invariants>>

-----------------------------------------------------------------------------
TransitionStep ==
    \/ \E t \in Transition, cs \in SUBSET Constraint, scopes \in ScopeLists, c \in Context : DeclareTransition(t, cs, scopes, c)
    \/ \E t \in Transition, c \in Checker : RequireChecker(t, c)
    \/ \E t \in Transition, d \in {"approved", "rejected"} : Approve(t, d)
    \/ \E t \in Transition : Promote(t)
    \/ \E t \in Transition, r \in Reason : Reject(t, r)

ArtifactStep == \E a \in Artifact, t \in Transition : BindArtifact(a, t)

EvidenceStep ==
    \/ \E c \in Checker, cs \in SUBSET Constraint : AddInvariant(c, cs)
    \/ \E c \in Checker, s \in EvidenceStatus, t \in Transition \cup {NoTransition} :
          AttachEvidence(c, s, t)

RecordingStep ==
    \/ \E kind \in {"retry", "backtrack"}, target \in Stage, r \in Reason,
          c \in Context, items \in ItemLists : RecordRequest(kind, target, r, c, items)
    \/ DeduplicateActiveMemoryRecords

RequestStep == RecordingStep \/ \E stage \in Stage : RecordStageOutcome(stage)

ReconcileStep ==
    \/ \E rs \in SUBSET DOMAIN requests, bs \in SUBSET ActiveBarriers : Reconcile(rs, bs)
    \/ \E target \in Stage, as \in SUBSET Artifact : ReconcileByArtifact(target, as)

Next ==
    \/ TransitionStep
    \/ ArtifactStep
    \/ EvidenceStep
    \/ RequestStep
    \/ ReconcileStep

Spec == Init /\ [][Next]_vars

-----------------------------------------------------------------------------
(* Safety.                                                                 *)

\* A promoted transition contains no forbidden repair scope, has an approving
\* latest decision where its scopes need one, and every checker it requires has
\* passed on it (promote, approve, reject).
PromotionGate ==
    \A t \in Transition : transitions[t].status = "promoted" =>
        /\ transitions[t].class # "forbidden"
        /\ transitions[t].class = "approval_required" => transitions[t].approval = "approved"
        /\ transitions[t].required \subseteq transitions[t].passed

\* No artifact is validated while a contamination barrier on it is active,
\* whichever transitions bound, promoted or rejected it in between.
NoContaminatedValidation ==
    \A b \in ActiveBarriers : artifacts[b.artifact].trust # "validated"

\* A validated artifact can be traced to a transition that generated it, holds
\* no forbidden scope and has all its required evidence, even after the artifact
\* was bound again by a later transition.
ValidatedOnEvidence ==
    \A a \in Artifact : artifacts[a].trust = "validated" =>
        \E t \in Transition :
            /\ artifacts[a].validator = t
            /\ a \in transitions[t].generated
            /\ transitions[t].status \in {"promoted", "rejected"}
            /\ transitions[t].class # "forbidden"
            /\ transitions[t].required \subseteq transitions[t].passed

\* Recording requests is idempotent: there is one open request per obligation.
OneOpenRequestPerKey ==
    \A i, j \in DOMAIN requests :
        /\ requests[i].status = "open"
        /\ requests[j].status = "open"
        /\ RequestKey(requests[i]) = RequestKey(requests[j])
        => i = j

\* It is so for every obligation whose list is kept whole: a record shorter than
\* StoredLimit was not cut.
OneOpenRequestPerWholeKey ==
    \A i, j \in DOMAIN requests :
        /\ requests[i].status = "open"
        /\ requests[j].status = "open"
        /\ Len(requests[i].items) < StoredLimit
        /\ RequestKey(requests[i]) = RequestKey(requests[j])
        => i = j

\* Rejecting is idempotent: one barrier is active per artifact, reason and context.
OneActiveBarrierPerKey ==
    \A b, c \in ActiveBarriers : BarrierKey(b) = BarrierKey(c) => b = c

Barred(a) == \E b \in ActiveBarriers : b.artifact = a

\* No call but a reconciliation lifts the last barrier on an artifact, unless it
\* leaves the artifact validated: a deduplication, a new binding, another
\* rejection and a recorded request all leave the protection in place.  The call
\* is what is asked here, not its effect: a deduplication that lifted what some
\* reconciliation could have named is not excused.
BarrierLiftedOnlyByValidation ==
    [][\A a \in Artifact : Barred(a) /\ ~Barred(a)' =>
          \/ artifacts'[a].trust = "validated"
          \/ ~(TransitionStep \/ ArtifactStep \/ EvidenceStep \/ RequestStep)]_vars

\* The obligation of request i is open after the step, in i or in another request.
StillOwed(i) ==
    \E j \in DOMAIN requests' :
        requests'[j].status = "open" /\ RequestKey(requests'[j]) = RequestKey(requests[i])

\* Recording and deduplicating close a request only into another that stays open
\* for the same obligation, and a passing outcome closes those of its own stage
\* alone, retries and backtracks alike.  Whatever else closes a request is a
\* reconciliation; again it is the call that is asked, not its effect.
ObligationsNotLost ==
    [][\A i \in DOMAIN requests :
          requests[i].status = "open" /\ requests'[i].status = "closed" =>
             /\ TransitionStep \/ ArtifactStep \/ EvidenceStep \/ RecordingStep => StillOwed(i)
             /\ \A stage \in Stage : RecordStageOutcome(stage) => requests[i].target = stage]_vars

\* After a deduplication there is one open request per obligation, duplicates of
\* a truncated list included.
DeduplicationRestoresUniqueness ==
    [][DeduplicateActiveMemoryRecords => OneOpenRequestPerKey']_vars
=============================================================================
