--------------------------- MODULE VerificationRun ---------------------------
(***************************************************************************)
(* Publication of verification runs: update_sacg of src/accagent/framework *)
(* /stage_verification.py on top of the SACG store.  A run executes one    *)
(* verification scope (operator leaf, single layer, board), declares one   *)
(* transition, binds the verification result and its certificates,         *)
(* attaches evidence and then promotes or rejects.  A passing run may also *)
(* carry a reconciliation contract, which lists the rejected predecessors  *)
(* of the SAME scope it retires; a failing run leaves a retry request, and *)
(* a backtrack request when the gate plan itself is incomplete.  A scope   *)
(* here is a verification scope with its debug layer: the code wants both  *)
(* equal to retire a predecessor.                                          *)
(*                                                                         *)
(* The whole run is one process; its store is written once, by save, so a  *)
(* run that dies leaves the saved store of the run before it.              *)
(***************************************************************************)
EXTENDS SACGStore

CONSTANTS
    ResultArtifact,     \* artifact.stage6.verification_result, bound by every run
    VerificationStage,  \* stage6.verification
    PlanStage,          \* stage6.verification_artifacts
    RunReason,          \* reason of the rejections and requests of this stage
    BlockedByResult,    \* <<artifact.stage6.verification_result>>
    Blockers            \* missing contracts listed by an incomplete gate plan

ASSUME VerificationAssumption ==
    /\ ResultArtifact \in Artifact
    /\ {VerificationStage, PlanStage} \subseteq Stage
    /\ RunReason \in Reason
    /\ {BlockedByResult, Blockers} \subseteq ItemLists

VARIABLES
    pc,         \* progress of the run
    cur,        \* its transition
    run,        \* its scope, its verdict and whether its gate plan is complete
    contract,   \* retry_reconciliation_contract, computed before the store is opened
    last        \* history: the verdict of the latest finished run of each scope

runVars == <<pc, cur, run, contract, last>>

allVars == <<vars, runVars>>

NoContract == [ready |-> FALSE, retries |-> {}, lifted |-> {}]

NoRun == [scope |-> Unscoped, pass |-> FALSE, planned |-> FALSE]

RunTypeOK ==
    /\ TypeOK
    /\ pc \in {"idle", "declared", "bound", "decided", "retried", "requested"}
    /\ cur \in Transition \cup {NoTransition}
    /\ run \in [scope : Context, pass : BOOLEAN, planned : BOOLEAN]
    /\ contract \in [ready : BOOLEAN, retries : SUBSET (1 .. MaxRequests),
                     lifted : SUBSET BarrierRecord]
    /\ last \in [Context -> {"none", "pass", "fail"}]

RunInit ==
    /\ Init
    /\ pc = "idle"
    /\ cur = NoTransition
    /\ run = NoRun
    /\ contract = NoContract
    /\ last = [c \in Context |-> "none"]

-----------------------------------------------------------------------------
\* Mutant: the contract forgets the barriers.
RetriesOnlyContract(scope) ==
    [ready   |-> TRUE,
     retries |-> {i \in DOMAIN requests :
                     requests[i].status = "open" /\ requests[i].ctx = scope},
     lifted  |-> {}]

\* stage6_retry_reconciliation_contract: the open retries addressed to this stage
\* and the active barriers of rejected transitions, of this scope only.
ContractFor(scope) ==
    LET retries == {i \in DOMAIN requests :
                       /\ requests[i].status = "open"
                       /\ requests[i].kind = "retry"
                       /\ requests[i].ctx = scope
                       /\ requests[i].target = VerificationStage}
        lifted  == {b \in ActiveBarriers :
                       b.ctx = scope /\ transitions[b.by].status = "rejected"}
    IN  IF retries = {} /\ lifted = {}
        THEN NoContract
        ELSE [ready |-> TRUE, retries |-> retries, lifted |-> lifted]

\* The tools and the review have run; the transition is declared and its
\* required checkers are replaced by the checkers that ran.
BeginRun(t, scope, pass, planned) ==
    /\ pc = "idle"
    /\ transitions[t].status = "undeclared"
    /\ pass => planned
    /\ transitions' = [transitions EXCEPT ![t] =
           [Undeclared EXCEPT !.status = "declared", !.ctx = scope, !.required = Checker]]
    /\ invariants' = [c \in Checker |-> [constraints |-> Constraint,
                                         status |-> IF pass THEN "pass" ELSE "fail"]]
    /\ pc' = "declared"
    /\ cur' = t
    /\ run' = [scope |-> scope, pass |-> pass, planned |-> planned]
    /\ contract' = IF pass THEN ContractFor(scope) ELSE NoContract
    /\ UNCHANGED <<artifacts, requests, barriers, last>>

\* The result, the tool logs, the debug closure and the certificates are bound;
\* a passing run attaches a pass of every checker, a failing one of none.
BindResults(as) ==
    /\ pc = "declared"
    /\ artifacts' = [a \in Artifact |->
           IF a \in as THEN [trust |-> "pending_transition", fresh |-> TRUE,
                             producer |-> cur, validator |-> NoTransition]
                       ELSE artifacts[a]]
    /\ transitions' = [transitions EXCEPT
           ![cur].generated = as,
           ![cur].passed = IF run.pass THEN Checker ELSE {}]
    /\ pc' = "bound"
    /\ UNCHANGED <<invariants, requests, barriers, cur, run, contract, last>>

PromoteRun ==
    /\ pc = "bound"
    /\ run.pass
    /\ Promote(cur)
    /\ pc' = "decided"
    /\ UNCHANGED <<cur, run, contract, last>>

\* The certificate the contract is bound to is no longer current: the run is
\* turned into a failing one (sacg_promotion_gate_check).
RefuseContract ==
    /\ pc = "bound"
    /\ run.pass
    /\ contract.ready
    /\ run' = [run EXCEPT !.pass = FALSE]
    /\ UNCHANGED <<vars, pc, cur, contract, last>>

RejectRun ==
    /\ pc = "bound"
    /\ ~run.pass
    /\ Reject(cur, RunReason)
    /\ pc' = "decided"
    /\ UNCHANGED <<cur, run, contract, last>>

ReconcileRun ==
    /\ pc = "decided"
    /\ run.pass
    /\ IF contract.ready
       THEN Reconcile(contract.retries, contract.lifted)
       ELSE UNCHANGED vars
    /\ pc' = "requested"
    /\ UNCHANGED <<cur, run, contract, last>>

\* Mutant: the request does not say which scope failed.
RequestUnscopedRetry ==
    /\ pc = "decided"
    /\ ~run.pass
    /\ RecordRequest("retry", VerificationStage, RunReason, Unscoped, BlockedByResult)
    /\ pc' = "retried"
    /\ UNCHANGED <<cur, run, contract, last>>

RequestRetry ==
    /\ pc = "decided"
    /\ ~run.pass
    /\ RecordRequest("retry", VerificationStage, RunReason, run.scope, BlockedByResult)
    /\ pc' = "retried"
    /\ UNCHANGED <<cur, run, contract, last>>

RequestBacktrack ==
    /\ pc = "retried"
    /\ IF run.planned
       THEN UNCHANGED vars
       ELSE RecordRequest("backtrack", PlanStage, RunReason, run.scope, Blockers)
    /\ pc' = "requested"
    /\ UNCHANGED <<cur, run, contract, last>>

\* record_stage_outcome and save.
FinishRun ==
    /\ pc = "requested"
    /\ IF run.pass THEN RecordStageOutcome(VerificationStage) ELSE UNCHANGED vars
    /\ last' = [last EXCEPT ![run.scope] = IF run.pass THEN "pass" ELSE "fail"]
    /\ pc' = "idle"
    /\ cur' = NoTransition
    /\ run' = NoRun
    /\ contract' = NoContract

RunNext ==
    \/ \E t \in Transition, s \in Context \ {Unscoped}, p, q \in BOOLEAN : BeginRun(t, s, p, q)
    \/ \E as \in SUBSET Artifact : ResultArtifact \in as /\ BindResults(as)
    \/ PromoteRun
    \/ RefuseContract
    \/ RejectRun
    \/ ReconcileRun
    \/ RequestRetry
    \/ RequestBacktrack
    \/ FinishRun

RunSpec == RunInit /\ [][RunNext]_allVars

-----------------------------------------------------------------------------
\* Between runs nothing is left undecided: no artifact is pending, a validated
\* artifact was validated by the run that bound it, a distrusted one was bound by
\* a rejected run (bind_artifact, promote and reject of successive runs).
SettledBetweenRuns ==
    pc = "idle" => \A a \in Artifact :
        LET art == artifacts[a]
        IN  /\ art.trust # "pending_transition"
            /\ art.trust = "validated" => /\ art.validator = art.producer
                                          /\ transitions[art.producer].status = "promoted"
            /\ art.trust = "rejected_producer" => transitions[art.producer].status = "rejected"

\* When a failing run is about to be saved, its failure is on record under its own
\* scope: an open retry request and an active barrier on the result.
FailureIsRecorded ==
    pc = "requested" /\ ~run.pass =>
        /\ \E i \in DOMAIN requests :
              /\ requests[i].status = "open"
              /\ requests[i].kind = "retry"
              /\ requests[i].ctx = run.scope
        /\ \E b \in ActiveBarriers : b.artifact = ResultArtifact /\ b.ctx = run.scope

\* After a scope's latest run passed, no retry request and no barrier of that scope
\* is left to be repaired, the barriers on artifacts the run did not bind included.
PassRetiresItsScope ==
    pc = "idle" => \A c \in Context : last[c] = "pass" =>
        /\ \A i \in DOMAIN requests : requests[i].ctx = c /\ requests[i].kind = "retry"
                                          => requests[i].status = "closed"
        /\ \A b \in ActiveBarriers : b.ctx # c
=============================================================================
