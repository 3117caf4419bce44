-------------------------- MODULE SACGStore_proofs --------------------------
(* Proofs about the SACG store and about the verification runs that publish *)
(* through it, for any sets of transitions, artifacts, checkers, stages and *)
(* contexts and any number of steps.                                        *)
EXTENDS VerificationRun, SequenceTheorems, FiniteSetTheorems, WellFoundedInduction, TLAPS

\* Closing requests changes the status of some and nothing else.
LEMMA CloseRequestsType ==
    ASSUME requests \in Seq(RequestRecord), NEW S
    PROVE  /\ CloseRequests(S) \in Seq(RequestRecord)
           /\ Len(CloseRequests(S)) = Len(requests)
           /\ DOMAIN CloseRequests(S) = DOMAIN requests
           /\ \A i \in DOMAIN requests :
                 CloseRequests(S)[i] = IF i \in S
                                       THEN [requests[i] EXCEPT !.status = "closed"]
                                       ELSE requests[i]
<1> DEFINE new == CloseRequests(S)
<1>1. \A i \in 1..Len(requests) : requests[i] \in RequestRecord
  OBVIOUS
<1>2. \A r \in RequestRecord : [r EXCEPT !.status = "closed"] \in RequestRecord
  BY DEF RequestRecord
<1>3. DOMAIN requests = 1..Len(requests) /\ Len(requests) \in Nat
  OBVIOUS
<1>4. new = [i \in 1..Len(requests) |->
               IF i \in S THEN [requests[i] EXCEPT !.status = "closed"] ELSE requests[i]]
  BY <1>3 DEF CloseRequests
<1>5. new \in [1..Len(requests) -> RequestRecord]
  BY <1>1, <1>2, <1>4
<1>6. new \in Seq(RequestRecord) /\ Len(new) = Len(requests)
  BY <1>3, <1>5
<1>. QED
  BY <1>3, <1>4, <1>6

\* What is open after some were closed was open before and is not one of them.
LEMMA CloseRequestsOpen ==
    ASSUME requests \in Seq(RequestRecord), NEW S, requests' = CloseRequests(S)
    PROVE  \A k \in DOMAIN requests' : requests'[k].status = "open" =>
              k \in DOMAIN requests /\ k \notin S /\ requests'[k] = requests[k]
<1>1. \A r \in RequestRecord : [r EXCEPT !.status = "closed"].status = "closed"
  BY DEF RequestRecord
<1>2. \A k \in DOMAIN requests : requests[k] \in RequestRecord
  OBVIOUS
<1>3. /\ DOMAIN requests' = DOMAIN requests
      /\ \A k \in DOMAIN requests :
            requests'[k] = IF k \in S
                           THEN [requests[k] EXCEPT !.status = "closed"]
                           ELSE requests[k]
  BY CloseRequestsType
<1>. QED
  BY <1>1, <1>2, <1>3

\* What the store keeps of an argument list is a list of artifacts.
LEMMA TruncateType ==
    ASSUME NEW items \in Seq(Artifact)
    PROVE  Truncate(items) \in Seq(Artifact)
BY StoredLimitAssumption DEF Truncate

\* Superseding barriers keeps them barriers.
LEMMA SupersedeType ==
    ASSUME barriers \subseteq BarrierRecord, NEW S \in SUBSET barriers
    PROVE  Supersede(S) \subseteq BarrierRecord
BY DEF Supersede, BarrierRecord

-----------------------------------------------------------------------------
(* Type correctness.                                                        *)

LEMMA InitTypeOK == Init => TypeOK
BY UnscopedAssumption, NoTransitionAssumption
   DEF Init, TypeOK, Undeclared, Unbound, TransitionRecord, ArtifactRecord,
       InvariantRecord, ScopeClass, EvidenceStatus

\* Each of the methods below keeps the types, whoever calls it.
LEMMA PromoteTypes ==
    ASSUME TypeOK, NEW t \in Transition, Promote(t)
    PROVE  TypeOK'
<1>1. barriers' \subseteq BarrierRecord
  BY SupersedeType DEF Promote, ActiveBarriers, TypeOK
<1>2. artifacts' \in [Artifact -> ArtifactRecord]
  <2>1. \A x \in ArtifactRecord :
           [x EXCEPT !.trust = "validated", !.validator = t] \in ArtifactRecord
    BY DEF ArtifactRecord
  <2>. QED
    BY <2>1 DEF Promote, TypeOK
<1>3. transitions' \in [Transition -> TransitionRecord]
  <2>1. [transitions[t] EXCEPT !.status = "promoted"] \in TransitionRecord
    BY DEF TypeOK, TransitionRecord
  <2>. QED
    BY <2>1 DEF Promote, TypeOK
<1>. QED
  BY <1>1, <1>2, <1>3 DEF Promote, TypeOK

LEMMA RejectTypes ==
    ASSUME TypeOK, NEW t \in Transition, NEW r \in Reason, Reject(t, r)
    PROVE  TypeOK'
<1>1. barriers' \subseteq BarrierRecord
  <2>1. transitions[t].generated \subseteq Artifact /\ transitions[t].ctx \in Context
    BY DEF TypeOK, TransitionRecord
  <2> DEFINE raised == {[artifact |-> a, by |-> t, reason |-> r,
                         ctx |-> transitions[t].ctx, status |-> "active"] :
                            a \in transitions[t].generated}
  <2>2. raised \subseteq BarrierRecord
    BY <2>1 DEF BarrierRecord
  <2>3. barriers' \subseteq barriers \cup raised
    BY DEF Reject
  <2>. QED
    BY <2>2, <2>3 DEF TypeOK
<1>2. artifacts' \in [Artifact -> ArtifactRecord]
  <2>1. \A x \in ArtifactRecord :
           [x EXCEPT !.fresh = FALSE, !.trust = "rejected_producer"] \in ArtifactRecord
    BY DEF ArtifactRecord
  <2>. QED
    BY <2>1 DEF Reject, TypeOK
<1>3. transitions' \in [Transition -> TransitionRecord]
  <2>1. [transitions[t] EXCEPT !.status = "rejected"] \in TransitionRecord
    BY DEF TypeOK, TransitionRecord
  <2>. QED
    BY <2>1 DEF Reject, TypeOK
<1>. QED
  BY <1>1, <1>2, <1>3 DEF Reject, TypeOK

LEMMA RequestTypes ==
    ASSUME TypeOK, NEW kind \in {"retry", "backtrack"}, NEW target \in Stage,
           NEW r \in Reason, NEW c \in Context, NEW items \in ItemLists,
           RecordRequest(kind, target, r, c, items)
    PROVE  TypeOK'
<1>1. [kind |-> kind, target |-> target, reason |-> r, ctx |-> c,
       items |-> Truncate(items), status |-> "open"] \in RequestRecord
  BY ItemListsAssumption, TruncateType DEF RequestRecord
<1>2. requests' \in Seq(RequestRecord)
  BY <1>1, CloseRequestsType DEF RecordRequest, TypeOK
<1>. QED
  BY <1>2 DEF RecordRequest, TypeOK

LEMMA OutcomeTypes ==
    ASSUME TypeOK, NEW stage \in Stage, RecordStageOutcome(stage)
    PROVE  TypeOK'
BY CloseRequestsType DEF RecordStageOutcome, TypeOK

LEMMA ReconcileTypes ==
    ASSUME TypeOK, NEW rs, NEW bs, Reconcile(rs, bs)
    PROVE  TypeOK'
<1>1. barriers' \subseteq BarrierRecord
  BY SupersedeType DEF Reconcile, ActiveBarriers, TypeOK
<1>. QED
  BY <1>1, CloseRequestsType DEF Reconcile, TypeOK

LEMMA NextTypeOK == TypeOK /\ [Next]_vars => TypeOK'
<1> SUFFICES ASSUME TypeOK, [Next]_vars PROVE TypeOK'
  OBVIOUS
<1> USE DEF TypeOK
<1>1. ASSUME NEW t \in Transition, NEW cs \in SUBSET Constraint, NEW sc \in ScopeLists,
             NEW c \in Context, DeclareTransition(t, cs, sc, c)
      PROVE  TypeOK'
  <2>1. ClassifyRepairScope(sc) \in ScopeClass
    BY <1>1, ScopeListsAssumption DEF ClassifyRepairScope, ScopeClass
  <2>2. RequiredCheckers(cs) \in SUBSET Checker
    BY DEF RequiredCheckers
  <2>. QED
    BY <1>1, <2>1, <2>2 DEF DeclareTransition, Undeclared, TransitionRecord
<1>2. ASSUME NEW t \in Transition, NEW c \in Checker, RequireChecker(t, c)
      PROVE  TypeOK'
  <2> DEFINE rec == [transitions[t] EXCEPT !.required = transitions[t].required \cup {c}]
  <2>1. rec \in TransitionRecord
    BY DEF TransitionRecord
  <2>2. transitions' = [transitions EXCEPT ![t] = rec]
    BY <1>2 DEF RequireChecker
  <2> HIDE DEF rec
  <2>. QED
    BY <1>2, <2>1, <2>2 DEF RequireChecker
<1>3. ASSUME NEW t \in Transition, NEW d \in {"approved", "rejected"}, Approve(t, d)
      PROVE  TypeOK'
  <2> DEFINE new == IF d = "rejected" THEN "rejected" ELSE transitions[t].status
  <2>1. /\ new \in {"undeclared", "declared", "promoted", "rejected"}
        /\ d \in {"none", "approved", "rejected"}
    BY DEF TransitionRecord
  <2> DEFINE rec == [transitions[t] EXCEPT !.approval = d, !.status = new]
  <2>2. transitions' = [transitions EXCEPT ![t] = rec]
    BY <1>3 DEF Approve
  <2>3. transitions' \in [Transition -> TransitionRecord]
    <3>1. rec \in TransitionRecord
      <4> HIDE DEF new
      <4>. QED
        BY <2>1 DEF TransitionRecord
    <3>. QED
      BY <2>2, <3>1
  <2>. QED
    BY <1>3, <2>3 DEF Approve
<1>4. ASSUME NEW t \in Transition, Promote(t)
      PROVE  TypeOK'
  BY <1>4, PromoteTypes
<1>5. ASSUME NEW t \in Transition, NEW r \in Reason, Reject(t, r)
      PROVE  TypeOK'
  BY <1>5, RejectTypes
<1>6. ASSUME NEW a \in Artifact, NEW t \in Transition, BindArtifact(a, t)
      PROVE  TypeOK'
  <2>1. transitions' \in [Transition -> TransitionRecord]
    <3> DEFINE rec == [transitions[t] EXCEPT !.generated = transitions[t].generated \cup {a}]
    <3>1. rec \in TransitionRecord
      BY DEF TransitionRecord
    <3>2. transitions' = [transitions EXCEPT ![t] = rec]
      BY <1>6 DEF BindArtifact
    <3> HIDE DEF rec
    <3>. QED
      BY <3>1, <3>2
  <2>2. artifacts' \in [Artifact -> ArtifactRecord]
    BY <1>6 DEF BindArtifact, ArtifactRecord
  <2>. QED
    BY <1>6, <2>1, <2>2 DEF BindArtifact
<1>7. ASSUME NEW c \in Checker, NEW cs \in SUBSET Constraint, AddInvariant(c, cs)
      PROVE  TypeOK'
  BY <1>7 DEF AddInvariant, InvariantRecord, EvidenceStatus
<1>8. ASSUME NEW c \in Checker, NEW s \in EvidenceStatus,
             NEW t \in Transition \cup {NoTransition}, AttachEvidence(c, s, t)
      PROVE  TypeOK'
  <2>1. invariants' \in [Checker -> InvariantRecord]
    BY <1>8 DEF AttachEvidence, InvariantRecord
  <2>2. transitions' \in [Transition -> TransitionRecord]
    <3>1. CASE UNCHANGED transitions
      BY <3>1
    <3>2. CASE t \in Transition
      <4> DEFINE kept == IF s = "pass" THEN transitions[t].passed \cup {c}
                         ELSE transitions[t].passed
                 rec  == [transitions[t] EXCEPT !.passed = kept]
      <4>1. rec \in TransitionRecord
        BY <3>2 DEF TransitionRecord
      <4>2. CASE transitions' = [transitions EXCEPT ![t] = rec]
        <5> HIDE DEF rec
        <5>. QED
          BY <3>2, <4>1, <4>2
      <4>3. \/ UNCHANGED transitions
            \/ transitions' = [transitions EXCEPT ![t] = rec]
        BY <1>8, <3>2 DEF AttachEvidence
      <4>. QED
        BY <4>2, <4>3
    <3>. QED
      BY <1>8, <3>1, <3>2 DEF AttachEvidence
  <2>. QED
    BY <1>8, <2>1, <2>2 DEF AttachEvidence
<1>9. ASSUME NEW kind \in {"retry", "backtrack"}, NEW target \in Stage, NEW r \in Reason,
             NEW c \in Context, NEW items \in ItemLists,
             RecordRequest(kind, target, r, c, items)
      PROVE  TypeOK'
  BY <1>9, RequestTypes
<1>10. ASSUME NEW stage \in Stage, RecordStageOutcome(stage)
       PROVE  TypeOK'
  BY <1>10, OutcomeTypes
<1>11. ASSUME DeduplicateActiveMemoryRecords
       PROVE  TypeOK'
  <2>1. barriers' \subseteq BarrierRecord
    BY <1>11, SupersedeType DEF DeduplicateActiveMemoryRecords, ActiveBarriers
  <2>. QED
    BY <1>11, <2>1, CloseRequestsType DEF DeduplicateActiveMemoryRecords
<1>12. ASSUME NEW rs \in SUBSET DOMAIN requests, NEW bs \in SUBSET ActiveBarriers,
              Reconcile(rs, bs)
       PROVE  TypeOK'
  BY <1>12, ReconcileTypes
<1>13. ASSUME NEW target \in Stage, NEW as \in SUBSET Artifact,
              ReconcileByArtifact(target, as)
       PROVE  TypeOK'
  <2>1. barriers' \subseteq BarrierRecord
    BY <1>13, SupersedeType DEF ReconcileByArtifact, ActiveBarriers
  <2>. QED
    BY <1>13, <2>1, CloseRequestsType DEF ReconcileByArtifact
<1>14. CASE UNCHANGED vars
  BY <1>14 DEF vars
<1>. QED
  BY <1>1, <1>2, <1>3, <1>4, <1>5, <1>6, <1>7, <1>8, <1>9, <1>10, <1>11, <1>12, <1>13, <1>14
     DEF Next, TransitionStep, ArtifactStep, EvidenceStep, RequestStep, RecordingStep, ReconcileStep

\* The store's records keep their types, however long it is used.
THEOREM SpecTypeOK == Spec => []TypeOK
BY InitTypeOK, NextTypeOK, PTL DEF Spec

-----------------------------------------------------------------------------
(* What a step leaves alone.  Only the four steps that name a transition's  *)
(* fate, its evidence and its artifacts matter to the invariants below.     *)

\* Recording or closing requests touches nothing but requests.
LEMMA RequestKeepsRest ==
    ASSUME RequestStep, ~DeduplicateActiveMemoryRecords
    PROVE  UNCHANGED <<transitions, artifacts, barriers>>
<1>1. ASSUME NEW kind \in {"retry", "backtrack"}, NEW target \in Stage, NEW r \in Reason,
             NEW c \in Context, NEW items \in ItemLists,
             RecordRequest(kind, target, r, c, items)
      PROVE  UNCHANGED <<transitions, artifacts, barriers>>
  BY <1>1 DEF RecordRequest
<1>2. ASSUME NEW stage \in Stage, RecordStageOutcome(stage)
      PROVE  UNCHANGED <<transitions, artifacts, barriers>>
  BY <1>2 DEF RecordStageOutcome
<1>. QED
  BY <1>1, <1>2 DEF RequestStep, RecordingStep

LEMMA OtherSteps ==
    ASSUME Next
    PROVE  \/ \E t \in Transition, cs \in SUBSET Constraint, sc \in ScopeLists,
                c \in Context : DeclareTransition(t, cs, sc, c)
           \/ \E t \in Transition, c \in Checker : RequireChecker(t, c)
           \/ \E t \in Transition, d \in {"approved", "rejected"} : Approve(t, d)
           \/ \E t \in Transition : Promote(t)
           \/ \E t \in Transition, r \in Reason : Reject(t, r)
           \/ \E a \in Artifact, t \in Transition : BindArtifact(a, t)
           \/ \E c \in Checker, st \in EvidenceStatus, t \in Transition \cup {NoTransition} :
                 AttachEvidence(c, st, t)
           \/ UNCHANGED <<transitions, artifacts, barriers>>
           \/ /\ UNCHANGED <<transitions, artifacts>>
              /\ \E S \in SUBSET ActiveBarriers : barriers' = Supersede(S)
<1>1. ASSUME NEW rs \in SUBSET DOMAIN requests, NEW bs \in SUBSET ActiveBarriers,
             Reconcile(rs, bs)
      PROVE  \E S \in SUBSET ActiveBarriers : barriers' = Supersede(S)
  BY <1>1 DEF Reconcile
<1>2. ASSUME NEW target \in Stage, NEW as \in SUBSET Artifact,
             ReconcileByArtifact(target, as)
      PROVE  \E S \in SUBSET ActiveBarriers : barriers' = Supersede(S)
  <2>1. {b \in ActiveBarriers : b.artifact \in as} \in SUBSET ActiveBarriers
    OBVIOUS
  <2>. QED
    BY <1>2, <2>1 DEF ReconcileByArtifact
<1>3. ASSUME DeduplicateActiveMemoryRecords
      PROVE  \E S \in SUBSET ActiveBarriers : barriers' = Supersede(S)
  BY <1>3 DEF DeduplicateActiveMemoryRecords
<1>4. ASSUME ReconcileStep \/ DeduplicateActiveMemoryRecords
      PROVE  UNCHANGED <<transitions, artifacts>>
  BY <1>4 DEF ReconcileStep, Reconcile, ReconcileByArtifact, DeduplicateActiveMemoryRecords
<1>5. ASSUME RequestStep, ~DeduplicateActiveMemoryRecords
      PROVE  UNCHANGED <<transitions, artifacts, barriers>>
  BY <1>5, RequestKeepsRest
<1>6. ASSUME NEW c \in Checker, NEW cs \in SUBSET Constraint, AddInvariant(c, cs)
      PROVE  UNCHANGED <<transitions, artifacts, barriers>>
  BY <1>6 DEF AddInvariant
<1>. QED
  BY <1>1, <1>2, <1>3, <1>4, <1>5, <1>6
     DEF Next, TransitionStep, ArtifactStep, EvidenceStep, ReconcileStep, RequestStep, RecordingStep

-----------------------------------------------------------------------------
(* Promotion.                                                               *)

LEMMA PromotionGateStep ==
    ASSUME TypeOK, PromotionGate, [Next]_vars
    PROVE  PromotionGate'
<1> SUFFICES ASSUME NEW u \in Transition, transitions'[u].status = "promoted"
             PROVE  /\ transitions'[u].class # "forbidden"
                    /\ transitions'[u].class = "approval_required"
                          => transitions'[u].approval = "approved"
                    /\ transitions'[u].required \subseteq transitions'[u].passed
  BY DEF PromotionGate
<1> USE DEF TypeOK, TransitionRecord, PromotionGate
<1>1. ASSUME NEW t \in Transition, NEW cs \in SUBSET Constraint, NEW sc \in ScopeLists,
             NEW c \in Context, DeclareTransition(t, cs, sc, c)
      PROVE  u # t /\ transitions'[u] = transitions[u]
  BY <1>1 DEF DeclareTransition, Undeclared
<1>2. ASSUME NEW t \in Transition, NEW c \in Checker, RequireChecker(t, c)
      PROVE  u # t /\ transitions'[u] = transitions[u]
  BY <1>2 DEF RequireChecker
<1>3. ASSUME NEW t \in Transition, NEW d \in {"approved", "rejected"}, Approve(t, d)
      PROVE  \/ transitions'[u] = transitions[u]
             \/ /\ transitions[u].status = "promoted"
                /\ transitions'[u] = [transitions[u] EXCEPT !.approval = "approved"]
  <2>1. CASE u = t
    <3>1. d = "approved" /\ transitions[u].status = "promoted"
      BY <1>3, <2>1 DEF Approve
    <3>2. transitions'[u].class = transitions[u].class
      BY <1>3, <2>1 DEF Approve
    <3>. QED
      BY <1>3, <2>1, <3>1 DEF Approve
  <2>2. CASE u # t
    BY <1>3, <2>2 DEF Approve
  <2>. QED
    BY <2>1, <2>2
<1>4. ASSUME NEW t \in Transition, Promote(t)
      PROVE  \/ transitions'[u] = transitions[u]
             \/ Promotable(u) /\ transitions'[u] = [transitions[u] EXCEPT !.status = "promoted"]
  BY <1>4 DEF Promote
<1>5. ASSUME NEW t \in Transition, NEW r \in Reason, Reject(t, r)
      PROVE  u # t /\ transitions'[u] = transitions[u]
  BY <1>5 DEF Reject
<1>6. ASSUME NEW a \in Artifact, NEW t \in Transition, BindArtifact(a, t)
      PROVE  \E g : transitions'[u] = [transitions[u] EXCEPT !.generated = g]
  BY <1>6 DEF BindArtifact
<1>7. ASSUME NEW c \in Checker, NEW st \in EvidenceStatus,
             NEW t \in Transition \cup {NoTransition}, AttachEvidence(c, st, t)
      PROVE  \E p : /\ transitions[u].passed \subseteq p
                    /\ transitions'[u] = [transitions[u] EXCEPT !.passed = p]
  <2>1. CASE transitions'[u] = transitions[u]
    BY <2>1
  <2>2. CASE t = u /\ t \in Transition
    <3> DEFINE p == IF st = "pass" THEN transitions[u].passed \cup {c}
                    ELSE transitions[u].passed
    <3>1. \/ transitions'[u] = transitions[u]
          \/ transitions'[u] = [transitions[u] EXCEPT !.passed = p]
      BY <1>7, <2>2 DEF AttachEvidence
    <3>2. transitions[u].passed \subseteq p
      OBVIOUS
    <3>. QED
      BY <2>1, <3>1, <3>2
  <2>3. CASE t # u \/ t \notin Transition
    BY <1>7, <2>1, <2>3 DEF AttachEvidence
  <2>. QED
    BY <2>2, <2>3
<1>8. CASE transitions'[u] = transitions[u]
  BY <1>8
<1>9. ASSUME Promotable(u), transitions'[u] = [transitions[u] EXCEPT !.status = "promoted"]
      PROVE  /\ transitions'[u].class # "forbidden"
             /\ transitions'[u].class = "approval_required"
                   => transitions'[u].approval = "approved"
             /\ transitions'[u].required \subseteq transitions'[u].passed
  BY <1>9 DEF Promotable
<1>10. ASSUME transitions[u].status = "promoted",
              transitions'[u] = [transitions[u] EXCEPT !.approval = "approved"]
       PROVE  /\ transitions'[u].class # "forbidden"
              /\ transitions'[u].approval = "approved"
              /\ transitions'[u].required \subseteq transitions'[u].passed
  BY <1>10
<1>11. ASSUME NEW g, transitions'[u] = [transitions[u] EXCEPT !.generated = g]
       PROVE  /\ transitions'[u].class # "forbidden"
              /\ transitions'[u].class = "approval_required"
                   => transitions'[u].approval = "approved"
              /\ transitions'[u].required \subseteq transitions'[u].passed
  BY <1>11
<1>12. ASSUME NEW p, transitions[u].passed \subseteq p,
              transitions'[u] = [transitions[u] EXCEPT !.passed = p]
       PROVE  /\ transitions'[u].class # "forbidden"
              /\ transitions'[u].class = "approval_required"
                   => transitions'[u].approval = "approved"
              /\ transitions'[u].required \subseteq transitions'[u].passed
  BY <1>12
<1>13. CASE UNCHANGED vars
  BY <1>8, <1>13 DEF vars
<1>14. CASE Next
  <2>1. CASE \E t \in Transition : Promote(t)
    BY <1>4, <1>8, <1>9, <2>1
  <2>2. CASE \E t \in Transition, d \in {"approved", "rejected"} : Approve(t, d)
    BY <1>3, <1>8, <1>10, <2>2
  <2>3. CASE \E a \in Artifact, t \in Transition : BindArtifact(a, t)
    BY <1>6, <1>11, <2>3
  <2>4. CASE \E c \in Checker, st \in EvidenceStatus, t \in Transition \cup {NoTransition} :
                AttachEvidence(c, st, t)
    BY <1>7, <1>12, <2>4
  <2>. QED
    BY <1>1, <1>2, <1>5, <1>8, <1>14, <2>1, <2>2, <2>3, <2>4, OtherSteps
<1>. QED
  BY <1>13, <1>14

\* A transition is never promoted over a forbidden scope, without the approval its
\* scopes need, or without the evidence it requires.
THEOREM SpecPromotionGate == Spec => []PromotionGate
<1>1. Init => PromotionGate
  BY DEF Init, Undeclared, PromotionGate
<1>. QED
  BY <1>1, PromotionGateStep, SpecTypeOK, PTL DEF Spec

-----------------------------------------------------------------------------
(* Validation and barriers.                                                 *)

LEMMA NoContaminatedValidationStep ==
    ASSUME TypeOK, NoContaminatedValidation, [Next]_vars
    PROVE  NoContaminatedValidation'
<1> SUFFICES ASSUME NEW b \in barriers', b.status = "active"
             PROVE  artifacts'[b.artifact].trust # "validated"
  BY DEF NoContaminatedValidation, ActiveBarriers
<1> USE DEF TypeOK, NoContaminatedValidation, ActiveBarriers
<1>0. ASSUME b \in barriers
      PROVE  b.artifact \in Artifact /\ artifacts[b.artifact].trust # "validated"
  BY <1>0 DEF BarrierRecord
<1>1. ASSUME NEW S \in SUBSET ActiveBarriers, barriers' = Supersede(S)
      PROVE  b \in barriers \ S
  <2>1. ASSUME NEW x \in S PROVE [x EXCEPT !.status = "superseded"].status = "superseded"
    BY <2>1 DEF BarrierRecord
  <2>. QED
    BY <1>1, <2>1 DEF Supersede
<1>2. ASSUME NEW t \in Transition, Promote(t)
      PROVE  artifacts'[b.artifact].trust # "validated"
  <2> DEFINE S == {x \in ActiveBarriers : x.artifact \in transitions[t].generated}
  <2>1. barriers' = Supersede(S) /\ S \in SUBSET ActiveBarriers
    BY <1>2 DEF Promote
  <2>2. b \in barriers /\ b \notin S
    BY <1>1, <2>1
  <2>3. b.artifact \notin transitions[t].generated
    BY <2>2
  <2>. QED
    BY <1>0, <1>2, <2>2, <2>3 DEF Promote
<1>3. ASSUME NEW t \in Transition, NEW r \in Reason, Reject(t, r)
      PROVE  artifacts'[b.artifact].trust # "validated"
  <2>1. CASE b \in barriers
    <3>1. \/ artifacts'[b.artifact] = artifacts[b.artifact]
          \/ artifacts'[b.artifact].trust = "rejected_producer"
      BY <1>0, <1>3, <2>1 DEF Reject, ArtifactRecord
    <3>. QED
      BY <1>0, <2>1, <3>1
  <2>2. CASE b \notin barriers
    <3>1. b.artifact \in transitions[t].generated
      <4> DEFINE raised == {[artifact |-> a, by |-> t, reason |-> r,
                             ctx |-> transitions[t].ctx, status |-> "active"] :
                                a \in transitions[t].generated}
      <4>1. b \in raised
        BY <1>3, <2>2 DEF Reject
      <4>. QED
        BY <4>1
    <3>2. b.artifact \in Artifact
      BY <3>1 DEF TransitionRecord
    <3>3. artifacts'[b.artifact]
             = [artifacts[b.artifact] EXCEPT !.fresh = FALSE, !.trust = "rejected_producer"]
      BY <1>3, <3>1, <3>2 DEF Reject
    <3>. QED
      BY <3>2, <3>3 DEF ArtifactRecord
  <2>. QED
    BY <2>1, <2>2
<1>4. ASSUME NEW a \in Artifact, NEW t \in Transition, BindArtifact(a, t)
      PROVE  artifacts'[b.artifact].trust # "validated"
  BY <1>0, <1>4 DEF BindArtifact
<1>5. CASE UNCHANGED <<artifacts, barriers>>
  BY <1>0, <1>5
<1>6. CASE UNCHANGED artifacts /\ \E S \in SUBSET ActiveBarriers : barriers' = Supersede(S)
  BY <1>0, <1>1, <1>6
<1>7. ASSUME NEW t \in Transition, NEW d \in {"approved", "rejected"}, Approve(t, d)
      PROVE  UNCHANGED <<artifacts, barriers>>
  BY <1>7 DEF Approve
<1>8. ASSUME NEW t \in Transition, NEW cs \in SUBSET Constraint, NEW sc \in ScopeLists,
             NEW c \in Context, DeclareTransition(t, cs, sc, c)
      PROVE  UNCHANGED <<artifacts, barriers>>
  BY <1>8 DEF DeclareTransition
<1>9. ASSUME NEW t \in Transition, NEW c \in Checker, RequireChecker(t, c)
      PROVE  UNCHANGED <<artifacts, barriers>>
  BY <1>9 DEF RequireChecker
<1>10. ASSUME NEW c \in Checker, NEW st \in EvidenceStatus,
              NEW t \in Transition \cup {NoTransition}, AttachEvidence(c, st, t)
       PROVE  UNCHANGED <<artifacts, barriers>>
  BY <1>10 DEF AttachEvidence
<1>11. CASE Next
  BY <1>2, <1>3, <1>4, <1>5, <1>6, <1>7, <1>8, <1>9, <1>10, <1>11, OtherSteps
<1>. QED
  BY <1>5, <1>11 DEF vars

\* An artifact a barrier protects the downstream stages from is never validated at
\* the same time, whatever the order of bindings, promotions and rejections.
THEOREM SpecNoContaminatedValidation == Spec => []NoContaminatedValidation
<1>1. Init => NoContaminatedValidation
  BY DEF Init, NoContaminatedValidation, ActiveBarriers
<1>. QED
  BY <1>1, NoContaminatedValidationStep, SpecTypeOK, PTL DEF Spec

-----------------------------------------------------------------------------
(* Where a validation comes from, and how many barriers a rejection leaves. *)

\* Transition t validated a and still stands for it.
Vouches(t, a) ==
    /\ a \in transitions[t].generated
    /\ transitions[t].status \in {"promoted", "rejected"}
    /\ transitions[t].class # "forbidden"
    /\ transitions[t].required \subseteq transitions[t].passed

\* No step takes back what a promoted or rejected transition stands for.
LEMMA VouchesStays ==
    ASSUME TypeOK, Next, NEW t \in Transition, NEW a \in Artifact, Vouches(t, a)
    PROVE  Vouches(t, a)'
<1> USE DEF TypeOK, TransitionRecord, Vouches
<1>1. ASSUME NEW u \in Transition, NEW cs \in SUBSET Constraint, NEW sc \in ScopeLists,
             NEW c \in Context, DeclareTransition(u, cs, sc, c)
      PROVE  Vouches(t, a)'
  BY <1>1 DEF DeclareTransition
<1>2. ASSUME NEW u \in Transition, NEW c \in Checker, RequireChecker(u, c)
      PROVE  Vouches(t, a)'
  BY <1>2 DEF RequireChecker
<1>3. ASSUME NEW u \in Transition, NEW d \in {"approved", "rejected"}, Approve(u, d)
      PROVE  Vouches(t, a)'
  <2>1. CASE d = "rejected"
    BY <1>3, <2>1 DEF Approve
  <2>2. CASE d = "approved"
    BY <1>3, <2>2 DEF Approve
  <2>. QED
    BY <2>1, <2>2
<1>4. ASSUME NEW u \in Transition, Promote(u)
      PROVE  Vouches(t, a)'
  BY <1>4 DEF Promote
<1>5. ASSUME NEW u \in Transition, NEW r \in Reason, Reject(u, r)
      PROVE  Vouches(t, a)'
  BY <1>5 DEF Reject
<1>6. ASSUME NEW b \in Artifact, NEW u \in Transition, BindArtifact(b, u)
      PROVE  Vouches(t, a)'
  BY <1>6 DEF BindArtifact
<1>7. ASSUME NEW c \in Checker, NEW st \in EvidenceStatus,
             NEW u \in Transition \cup {NoTransition}, AttachEvidence(c, st, u)
      PROVE  Vouches(t, a)'
  <2>1. CASE u \in Transition /\ st = "pass"
    BY <1>7, <2>1 DEF AttachEvidence
  <2>2. CASE u \notin Transition \/ st # "pass"
    BY <1>7, <2>2 DEF AttachEvidence
  <2>. QED
    BY <2>1, <2>2
<1>. QED
  BY <1>1, <1>2, <1>3, <1>4, <1>5, <1>6, <1>7, OtherSteps

LEMMA ValidatedOnEvidenceStep ==
    ASSUME TypeOK, ValidatedOnEvidence, [Next]_vars
    PROVE  ValidatedOnEvidence'
<1> SUFFICES ASSUME NEW a \in Artifact, artifacts'[a].trust = "validated"
             PROVE  \E t \in Transition : artifacts'[a].validator = t /\ Vouches(t, a)'
  BY DEF ValidatedOnEvidence, Vouches
<1>1. ASSUME artifacts'[a] = artifacts[a], Next
      PROVE  \E t \in Transition : artifacts'[a].validator = t /\ Vouches(t, a)'
  <2>1. PICK t \in Transition : artifacts[a].validator = t /\ Vouches(t, a)
    BY <1>1 DEF ValidatedOnEvidence, Vouches
  <2>. QED
    BY <1>1, <2>1, VouchesStays
<1>2. ASSUME NEW t \in Transition, Promote(t), Next
      PROVE  \E u \in Transition : artifacts'[a].validator = u /\ Vouches(u, a)'
  <2>1. CASE a \in transitions[t].generated
    <3>1. artifacts'[a].validator = t
      BY <1>2, <2>1 DEF Promote, TypeOK, ArtifactRecord
    <3>2. Vouches(t, a)'
      BY <1>2, <2>1 DEF Promote, Promotable, Vouches, TypeOK, TransitionRecord
    <3>. QED
      BY <3>1, <3>2
  <2>2. CASE a \notin transitions[t].generated
    BY <1>1, <1>2, <2>2 DEF Promote
  <2>. QED
    BY <2>1, <2>2
<1>3. ASSUME NEW t \in Transition, NEW r \in Reason, Reject(t, r)
      PROVE  artifacts'[a] = artifacts[a]
  BY <1>3 DEF Reject, TypeOK, ArtifactRecord
<1>4. ASSUME NEW b \in Artifact, NEW t \in Transition, BindArtifact(b, t)
      PROVE  artifacts'[a] = artifacts[a]
  BY <1>4 DEF BindArtifact, TypeOK
<1>5. \/ UNCHANGED artifacts
      \/ \E t \in Transition : Promote(t)
      \/ \E t \in Transition, r \in Reason : Reject(t, r)
      \/ \E b \in Artifact, t \in Transition : BindArtifact(b, t)
  BY OtherSteps DEF vars, DeclareTransition, RequireChecker, Approve, AttachEvidence
<1>6. CASE Next
  BY <1>1, <1>2, <1>3, <1>4, <1>5, <1>6
<1>7. CASE UNCHANGED vars
  BY <1>7 DEF vars, ValidatedOnEvidence, Vouches
<1>. QED
  BY <1>6, <1>7

\* A validated artifact goes back to a transition that generated it and has, whatever was
\* bound, approved or rejected since, all the evidence it requires and no forbidden scope.
THEOREM SpecValidatedOnEvidence == Spec => []ValidatedOnEvidence
<1>1. Init => ValidatedOnEvidence
  BY DEF Init, Unbound, ValidatedOnEvidence
<1>. QED
  BY <1>1, ValidatedOnEvidenceStep, SpecTypeOK, PTL DEF Spec

LEMMA OneActiveBarrierStep ==
    ASSUME TypeOK, OneActiveBarrierPerKey, [Next]_vars
    PROVE  OneActiveBarrierPerKey'
<1> SUFFICES ASSUME NEW b \in ActiveBarriers', NEW c \in ActiveBarriers',
                    BarrierKey(b) = BarrierKey(c)
             PROVE  b = c
  BY DEF OneActiveBarrierPerKey, BarrierKey
<1>1. CASE b \in ActiveBarriers /\ c \in ActiveBarriers
  BY <1>1 DEF OneActiveBarrierPerKey
<1>2. ASSUME NEW S \in SUBSET ActiveBarriers, barriers' = Supersede(S)
      PROVE  ActiveBarriers' \subseteq ActiveBarriers
  <2>1. ASSUME NEW x \in S PROVE [x EXCEPT !.status = "superseded"].status = "superseded"
    BY <2>1 DEF TypeOK, BarrierRecord, ActiveBarriers
  <2>. QED
    BY <1>2, <2>1 DEF Supersede, ActiveBarriers
<1>3. ASSUME NEW t \in Transition, NEW r \in Reason, Reject(t, r)
      PROVE  b = c
  <2> DEFINE raised == {[artifact |-> a, by |-> t, reason |-> r,
                         ctx |-> transitions[t].ctx, status |-> "active"] :
                            a \in transitions[t].generated}
  <2>1. barriers' = barriers \cup {x \in raised : BarrierKey(x) \notin ActiveBarrierKeys}
    BY <1>3 DEF Reject
  <2>2. \A x, y \in raised : BarrierKey(x) = BarrierKey(y) => x = y
    BY DEF BarrierKey
  <2>3. \A x \in ActiveBarriers : BarrierKey(x) \in ActiveBarrierKeys
    BY DEF ActiveBarrierKeys
  <2>4. \A x \in ActiveBarriers' :
           \/ x \in ActiveBarriers
           \/ x \in raised /\ BarrierKey(x) \notin ActiveBarrierKeys
    BY <2>1 DEF ActiveBarriers
  <2> HIDE DEF raised
  <2>. QED
    BY <1>1, <2>2, <2>3, <2>4
<1>4. \/ UNCHANGED barriers
      \/ \E S \in SUBSET ActiveBarriers : barriers' = Supersede(S)
      \/ \E t \in Transition, r \in Reason : Reject(t, r)
  <2>1. CASE \E t \in Transition : Promote(t)
    BY <2>1 DEF Promote
  <2>. QED
    BY <2>1, OtherSteps DEF vars, DeclareTransition, RequireChecker, Approve, AttachEvidence,
       BindArtifact
<1>5. CASE UNCHANGED barriers
  BY <1>1, <1>5 DEF ActiveBarriers
<1>. QED
  BY <1>1, <1>2, <1>3, <1>4, <1>5

\* Rejecting again for the same reason raises no second barrier: what lifts the one lifts
\* all there is.
THEOREM SpecOneActiveBarrierPerKey == Spec => []OneActiveBarrierPerKey
<1>1. Init => OneActiveBarrierPerKey
  BY DEF Init, OneActiveBarrierPerKey, ActiveBarriers
<1>. QED
  BY <1>1, OneActiveBarrierStep, SpecTypeOK, PTL DEF Spec

-----------------------------------------------------------------------------
(* How a barrier goes.                                                      *)

\* A deduplication leaves a barrier on every artifact that had one.
LEMMA DeduplicationKeepsBarriers ==
    ASSUME DeduplicateActiveMemoryRecords, NEW a \in Artifact, Barred(a)
    PROVE  Barred(a)'
<1> DEFINE twins(b) == {x \in ActiveBarriers : BarrierKey(x) = BarrierKey(b)}
           kept == {CHOOSE x \in twins(b) : TRUE : b \in ActiveBarriers}
<1>1. PICK b \in ActiveBarriers : b.artifact = a
  BY DEF Barred
<1>2. PICK x \in twins(b) : x = CHOOSE y \in twins(b) : TRUE
  BY <1>1
<1>3. x \in ActiveBarriers /\ x \in kept /\ x.artifact = a
  BY <1>1, <1>2 DEF BarrierKey
<1>4. barriers' = Supersede(ActiveBarriers \ kept)
  BY DEF DeduplicateActiveMemoryRecords
<1>5. x \in barriers'
  <2> HIDE DEF kept, twins
  <2>. QED
    BY <1>3, <1>4 DEF Supersede, ActiveBarriers
<1>. QED
  BY <1>3, <1>5 DEF Barred, ActiveBarriers

LEMMA BarrierLifted ==
    ASSUME TypeOK, TransitionStep \/ ArtifactStep \/ EvidenceStep \/ RequestStep,
           NEW a \in Artifact, Barred(a), ~Barred(a)'
    PROVE  artifacts'[a].trust = "validated"
<1>1. PICK b \in ActiveBarriers : b.artifact = a
  BY DEF Barred
<1>2. b \notin barriers'
  BY <1>1 DEF Barred, ActiveBarriers
<1>3. ASSUME NEW t \in Transition, Promote(t)
      PROVE  artifacts'[a].trust = "validated"
  <2>1. b \in barriers /\ barriers' = Supersede({x \in ActiveBarriers :
                                        x.artifact \in transitions[t].generated})
    BY <1>1, <1>3 DEF Promote, ActiveBarriers
  <2>2. a \in transitions[t].generated
    BY <1>1, <1>2, <2>1 DEF Supersede
  <2>. QED
    BY <1>3, <2>2 DEF Promote, TypeOK, ArtifactRecord
<1>4. ASSUME TransitionStep, ~(\E t \in Transition : Promote(t))
      PROVE  FALSE
  <2>1. barriers \subseteq barriers'
    BY <1>4 DEF TransitionStep, DeclareTransition, RequireChecker, Approve, Reject
  <2>. QED
    BY <1>1, <1>2, <2>1 DEF ActiveBarriers
<1>5. ASSUME ArtifactStep \/ EvidenceStep
      PROVE  FALSE
  <2>1. barriers' = barriers
    BY <1>5 DEF ArtifactStep, EvidenceStep, BindArtifact, AddInvariant, AttachEvidence
  <2>. QED
    BY <1>1, <1>2, <2>1 DEF ActiveBarriers
<1>6. ASSUME RequestStep
      PROVE  FALSE
  <2>1. CASE DeduplicateActiveMemoryRecords
    BY <2>1, DeduplicationKeepsBarriers
  <2>2. CASE barriers' = barriers
    BY <1>1, <1>2, <2>2 DEF ActiveBarriers
  <2>. QED
    BY <1>6, <2>1, <2>2, RequestKeepsRest
<1>. QED
  BY <1>3, <1>4, <1>5, <1>6

\* Neither a deduplication nor a new binding nor another rejection nor a recorded request
\* lifts the last barrier on an artifact, unless the artifact is validated: only a
\* reconciliation does.
THEOREM SpecBarrierLiftedOnlyByValidation == Spec => BarrierLiftedOnlyByValidation
<1>1. TypeOK /\ [Next]_vars =>
        [\A a \in Artifact : Barred(a) /\ ~Barred(a)' =>
            \/ artifacts'[a].trust = "validated"
            \/ ~(TransitionStep \/ ArtifactStep \/ EvidenceStep \/ RequestStep)]_vars
  BY BarrierLifted
<1>. QED
  BY <1>1, SpecTypeOK, PTL DEF Spec, BarrierLiftedOnlyByValidation

-----------------------------------------------------------------------------
(* How a request is closed.                                                 *)

LEMMA FirstExists ==
    ASSUME NEW n \in Nat, NEW S \in SUBSET (1 .. n), S # {}
    PROVE  \E i \in S : IsFirst(i, S)
<1> DEFINE Less == {p \in Nat \X Nat : p[1] < p[2]}
<1>1. IsWellFoundedOn(Less, Nat)
  BY NatLessThanWellFounded DEF OpToRel
<1>2. S \subseteq Nat
  OBVIOUS
<1>3. PICK i \in S : \A j \in S : <<j, i>> \notin Less
  <2> HIDE DEF Less
  <2>. QED
    BY <1>1, <1>2, WFMin
<1>4. ASSUME NEW j \in S PROVE i <= j
  <2>1. ~(j < i)
    BY <1>2, <1>3
  <2>. QED
    BY <1>2, <2>1
<1>. QED
  BY <1>4 DEF IsFirst

\* Whatever is closed while the first open request of its key stays leaves that one open.
LEMMA KeyStaysOpen ==
    ASSUME TypeOK, NEW S, NEW i \in DOMAIN requests, requests[i].status = "open",
           requests' = CloseRequests(S),
           \A j \in S : ~IsFirst(j, OpenWithKey(RequestKey(requests[i])))
    PROVE  \E j \in DOMAIN requests' :
              /\ requests'[j].status = "open"
              /\ RequestKey(requests'[j]) = RequestKey(requests[i])
<1> DEFINE K == OpenWithKey(RequestKey(requests[i]))
<1>1. DOMAIN requests = 1 .. Len(requests) /\ Len(requests) \in Nat
  BY DEF TypeOK
<1>2. i \in K /\ K \in SUBSET (1 .. Len(requests))
  BY <1>1 DEF OpenWithKey
<1>3. PICK j \in K : IsFirst(j, K)
  BY <1>1, <1>2, FirstExists
<1>4. j \notin S /\ j \in DOMAIN requests /\ requests[j].status = "open"
        /\ RequestKey(requests[j]) = RequestKey(requests[i])
  BY <1>3 DEF OpenWithKey
<1>5. requests \in Seq(RequestRecord)
  BY DEF TypeOK
<1>6. requests'[j] = requests[j] /\ j \in DOMAIN requests'
  BY <1>4, <1>5, CloseRequestsType
<1>. QED
  BY <1>4, <1>6

LEMMA ObligationKept ==
    ASSUME TypeOK, TransitionStep \/ ArtifactStep \/ EvidenceStep \/ RecordingStep,
           NEW i \in DOMAIN requests, requests[i].status = "open",
           requests'[i].status = "closed"
    PROVE  StillOwed(i)
<1>0. requests \in Seq(RequestRecord)
  BY DEF TypeOK
<1>1. ASSUME NEW S, requests' = CloseRequests(S)
      PROVE  i \in S
  BY <1>0, <1>1, CloseRequestsType
<1>2. ASSUME NEW kind \in {"retry", "backtrack"}, NEW target \in Stage, NEW r \in Reason,
             NEW c \in Context, NEW items \in ItemLists,
             RecordRequest(kind, target, r, c, items)
      PROVE  StillOwed(i)
  <2> DEFINE key == [kind |-> kind, target |-> target, reason |-> r, ctx |-> c,
                     items |-> Members(items)]
             closed == {k \in OpenWithKey(key) : ~IsFirst(k, OpenWithKey(key))}
  <2>1. CASE requests' = CloseRequests(closed)
    <3>1. i \in closed
      BY <1>1, <2>1
    <3>2. RequestKey(requests[i]) = key
      BY <3>1 DEF OpenWithKey
    <3>3. \A j \in closed : ~IsFirst(j, OpenWithKey(RequestKey(requests[i])))
      BY <3>2
    <3> HIDE DEF closed, key
    <3>. QED
      BY <2>1, <3>3, KeyStaysOpen DEF StillOwed
  <2>2. CASE \E x : requests' = Append(requests, x)
    BY <1>0, <2>2
  <2>. QED
    BY <1>2, <2>1, <2>2 DEF RecordRequest
<1>3. ASSUME DeduplicateActiveMemoryRecords
      PROVE  StillOwed(i)
  <2>1. requests' = CloseRequests(DuplicateRequests)
    BY <1>3 DEF DeduplicateActiveMemoryRecords
  <2>2. \A j \in DuplicateRequests : ~IsFirst(j, OpenWithKey(RequestKey(requests[i])))
    <3> SUFFICES ASSUME NEW j \in DuplicateRequests,
                        IsFirst(j, OpenWithKey(RequestKey(requests[i])))
                 PROVE  FALSE
      OBVIOUS
    <3>1. DOMAIN requests = 1 .. Len(requests) /\ Len(requests) \in Nat
      BY <1>0
    <3>2. j \in DOMAIN requests /\ RequestKey(requests[j]) = RequestKey(requests[i])
      BY DEF IsFirst, OpenWithKey
    <3>3. PICK k \in 1 .. j - 1 : requests[k].status = "open"
                /\ RequestKey(requests[k]) = RequestKey(requests[j])
      BY DEF DuplicateRequests
    <3>4. k \in DOMAIN requests /\ k < j /\ j \in Nat /\ k \in Nat
      BY <3>1, <3>2, <3>3
    <3>5. k \in OpenWithKey(RequestKey(requests[i]))
      BY <3>2, <3>3, <3>4 DEF OpenWithKey
    <3>. QED
      BY <3>4, <3>5 DEF IsFirst
  <2>. QED
    BY <2>1, <2>2, KeyStaysOpen DEF StillOwed
<1>4. ASSUME TransitionStep \/ ArtifactStep \/ EvidenceStep
      PROVE  FALSE
  <2>1. CASE TransitionStep
    BY <2>1 DEF TransitionStep, DeclareTransition, RequireChecker, Approve, Promote, Reject
  <2>2. CASE ArtifactStep
    BY <2>2 DEF ArtifactStep, BindArtifact
  <2>3. CASE EvidenceStep
    BY <2>3 DEF EvidenceStep, AddInvariant, AttachEvidence
  <2>. QED
    BY <1>4, <2>1, <2>2, <2>3
<1>. QED
  BY <1>2, <1>3, <1>4 DEF RecordingStep

LEMMA OutcomeClosesItsOwn ==
    ASSUME TypeOK, NEW stage, RecordStageOutcome(stage),
           NEW i \in DOMAIN requests, requests[i].status = "open",
           requests'[i].status = "closed"
    PROVE  requests[i].target = stage
<1> DEFINE closed == {k \in DOMAIN requests :
                        requests[k].status = "open" /\ requests[k].target = stage}
<1>1. requests' = CloseRequests(closed)
  BY DEF RecordStageOutcome
<1>2. requests \in Seq(RequestRecord)
  BY DEF TypeOK
<1>3. ASSUME NEW S, requests' = CloseRequests(S)
      PROVE  i \in S
  BY <1>2, <1>3, CloseRequestsType
<1>. QED
  BY <1>1, <1>3

\* Recording and deduplicating lose no obligation, and a passing outcome closes the requests
\* of its own stage alone, for any number of requests and whatever their lists.
THEOREM SpecObligationsNotLost == Spec => ObligationsNotLost
<1>1. TypeOK /\ [Next]_vars =>
        [\A i \in DOMAIN requests :
            requests[i].status = "open" /\ requests'[i].status = "closed" =>
               /\ TransitionStep \/ ArtifactStep \/ EvidenceStep \/ RecordingStep
                     => StillOwed(i)
               /\ \A stage \in Stage : RecordStageOutcome(stage)
                     => requests[i].target = stage]_vars
  <2> SUFFICES ASSUME TypeOK, [Next]_vars, vars' # vars,
                      NEW i \in DOMAIN requests, requests[i].status = "open",
                      requests'[i].status = "closed"
               PROVE  /\ TransitionStep \/ ArtifactStep \/ EvidenceStep \/ RecordingStep
                            => StillOwed(i)
                      /\ \A stage \in Stage : RecordStageOutcome(stage)
                            => requests[i].target = stage
    OBVIOUS
  <2>1. TransitionStep \/ ArtifactStep \/ EvidenceStep \/ RecordingStep => StillOwed(i)
    BY ObligationKept
  <2>2. ASSUME NEW stage \in Stage, RecordStageOutcome(stage)
        PROVE  requests[i].target = stage
    BY <2>2, OutcomeClosesItsOwn
  <2>. QED
    BY <2>1, <2>2
<1>. QED
  BY <1>1, SpecTypeOK, PTL DEF Spec, ObligationsNotLost

LEMMA UniqueAfterDeduplication ==
    ASSUME TypeOK, DeduplicateActiveMemoryRecords
    PROVE  OneOpenRequestPerKey'
<1>0. requests \in Seq(RequestRecord) /\ requests' = CloseRequests(DuplicateRequests)
  BY DEF TypeOK, DeduplicateActiveMemoryRecords
<1>1. DOMAIN requests = 1 .. Len(requests) /\ Len(requests) \in Nat
  BY <1>0
<1>2. \A i \in DOMAIN requests' :
         requests'[i].status = "open" =>
            i \in DOMAIN requests /\ i \notin DuplicateRequests /\ requests'[i] = requests[i]
  BY <1>0, CloseRequestsOpen
<1>3. ASSUME NEW i \in DOMAIN requests, NEW j \in DOMAIN requests, i < j,
             requests[i].status = "open", requests[j].status = "open",
             RequestKey(requests[i]) = RequestKey(requests[j])
      PROVE  j \in DuplicateRequests
  <2>1. i \in 1 .. j - 1
    BY <1>1, <1>3
  <2>. QED
    BY <1>3, <2>1 DEF DuplicateRequests
<1>4. \A i, j \in DOMAIN requests : i < j \/ j < i \/ i = j
  BY <1>1
<1>. QED
  BY <1>2, <1>3, <1>4 DEF OneOpenRequestPerKey, RequestKey, Members

\* A deduplication leaves one open request per obligation, whatever was there before.
THEOREM SpecDeduplicationRestoresUniqueness == Spec => DeduplicationRestoresUniqueness
<1>1. TypeOK /\ [Next]_vars =>
        [DeduplicateActiveMemoryRecords => OneOpenRequestPerKey']_vars
  BY UniqueAfterDeduplication
<1>. QED
  BY <1>1, SpecTypeOK, PTL DEF Spec, DeduplicationRestoresUniqueness

-----------------------------------------------------------------------------
(* Requests whose list is kept whole.                                       *)

\* The list is as long as what a record keeps of one, so it repeats no item within that.
CutListsDistinct ==
    \A l \in ItemLists : Len(l) > StoredLimit =>
        \A m, n \in 1 .. StoredLimit : l[m] = l[n] => m = n

\* Fewer items than places cannot name as many things as there are places.
LEMMA ShorterListDiffers ==
    ASSUME NEW S, NEW s \in Seq(S), NEW l \in Seq(S), Len(s) < Len(l),
           \A m, n \in DOMAIN l : l[m] = l[n] => m = n
    PROVE  Members(s) # Members(l)
<1> SUFFICES ASSUME Members(s) = Members(l)
             PROVE  FALSE
  OBVIOUS
<1> DEFINE P == 1 .. Len(l)
           Q == 1 .. Len(s)
           f == [m \in P |-> CHOOSE n \in Q : s[n] = l[m]]
<1>1. DOMAIN s = Q /\ DOMAIN l = P /\ Len(s) \in Nat /\ Len(l) \in Nat
  OBVIOUS
<1>2. ASSUME NEW m \in P
      PROVE  f[m] \in Q /\ s[f[m]] = l[m]
  <2>1. \E n \in Q : s[n] = l[m]
    BY <1>1 DEF Members
  <2>. QED
    BY <2>1
<1>3. f \in [P -> Q]
  <2> DEFINE g(m) == CHOOSE n \in Q : s[n] = l[m]
  <2>1. f = [m \in P |-> g(m)] /\ \A m \in P : f[m] = g(m)
    OBVIOUS
  <2> HIDE DEF g, f
  <2>. QED
    BY <1>2, <2>1
<1>4. /\ IsFiniteSet(P) /\ IsFiniteSet(Q)
      /\ Cardinality(P) = Len(l) /\ Cardinality(Q) = Len(s)
  <2>1. ASSUME NEW k \in Nat
        PROVE  IsFiniteSet(1 .. k) /\ Cardinality(1 .. k) = k
    <3>1. 1 \in Int /\ k \in Int
      OBVIOUS
    <3>2. /\ IsFiniteSet(1 .. k)
          /\ Cardinality(1 .. k) = IF 1 > k THEN 0 ELSE k - 1 + 1
      BY <3>1, FS_Interval, Zenon
    <3>. QED
      BY <3>2
  <2>. QED
    BY <1>1, <2>1
<1> HIDE DEF P, Q, f
<1>5. PICK m \in P, n \in P : m # n /\ f[m] = f[n]
  BY <1>3, <1>4, FS_PigeonHole
<1>. QED
  BY <1>1, <1>2, <1>5

\* What is recorded as new repeats no open request that was kept whole.
LEMMA NewRequestDiffers ==
    ASSUME TypeOK, CutListsDistinct, NEW items \in ItemLists, NEW i \in DOMAIN requests,
           Members(requests[i].items) # Members(items)
    PROVE  \/ Members(requests[i].items) # Members(Truncate(items))
           \/ /\ Len(requests[i].items) >= StoredLimit
              /\ Len(Truncate(items)) >= StoredLimit
<1>1. items \in Seq(Artifact) /\ Len(items) \in Nat /\ StoredLimit \in Nat
  BY ItemListsAssumption, StoredLimitAssumption
<1>2. CASE Len(items) <= StoredLimit
  BY <1>2 DEF Truncate
<1>3. CASE Len(items) > StoredLimit
  <2>1. Truncate(items) = SubSeq(items, 1, StoredLimit)
    BY <1>1, <1>3 DEF Truncate
  <2>2. /\ Truncate(items) \in Seq(Artifact)
        /\ Len(Truncate(items)) = StoredLimit
        /\ \A m \in 1 .. StoredLimit : Truncate(items)[m] = items[m]
    BY <1>1, <1>3, <2>1
  <2>3. \A m, n \in 1 .. StoredLimit : items[m] = items[n] => m = n
    BY <1>3 DEF CutListsDistinct
  <2>4. \A m, n \in DOMAIN Truncate(items) : Truncate(items)[m] = Truncate(items)[n] => m = n
    BY <2>2, <2>3
  <2>5. requests[i].items \in Seq(Artifact) /\ Len(requests[i].items) \in Nat
    <3>1. requests[i] \in RequestRecord
      BY DEF TypeOK
    <3>. QED
      BY <3>1 DEF RequestRecord
  <2>6. CASE Len(requests[i].items) < StoredLimit
    BY <2>2, <2>4, <2>5, <2>6, ShorterListDiffers
  <2>7. CASE Len(requests[i].items) >= StoredLimit
    BY <2>2, <2>7, <1>1
  <2>. QED
    BY <1>1, <2>5, <2>6, <2>7
<1>. QED
  BY <1>1, <1>2, <1>3

LEMMA OneOpenWholeStep ==
    ASSUME TypeOK, CutListsDistinct, OneOpenRequestPerWholeKey, Next
    PROVE  OneOpenRequestPerWholeKey'
<1> SUFFICES ASSUME NEW i \in DOMAIN requests', NEW j \in DOMAIN requests',
                    requests'[i].status = "open", requests'[j].status = "open",
                    Len(requests'[i].items) < StoredLimit,
                    RequestKey(requests'[i]) = RequestKey(requests'[j])
             PROVE  i = j
  BY DEF OneOpenRequestPerWholeKey, RequestKey, Members
<1>0. /\ requests \in Seq(RequestRecord)
      /\ DOMAIN requests = 1 .. Len(requests) /\ Len(requests) \in Nat
  BY DEF TypeOK
<1>1. ASSUME NEW S, requests' = CloseRequests(S)
      PROVE  i = j
  <2>1. \A k \in DOMAIN requests' : requests'[k].status = "open" =>
           k \in DOMAIN requests /\ requests'[k] = requests[k]
    BY <1>0, <1>1, CloseRequestsOpen
  <2>. QED
    BY <2>1 DEF OneOpenRequestPerWholeKey
<1>2. ASSUME requests' = requests
      PROVE  i = j
  BY <1>2 DEF OneOpenRequestPerWholeKey
<1>3. ASSUME NEW kind \in {"retry", "backtrack"}, NEW target \in Stage, NEW r \in Reason,
             NEW c \in Context, NEW items \in ItemLists,
             RecordRequest(kind, target, r, c, items)
      PROVE  i = j
  <2> DEFINE key == [kind |-> kind, target |-> target, reason |-> r, ctx |-> c,
                     items |-> Members(items)]
             new == [kind |-> kind, target |-> target, reason |-> r, ctx |-> c,
                     items |-> Truncate(items), status |-> "open"]
             n   == Len(requests) + 1
  <2>1. CASE \E S : requests' = CloseRequests(S)
    BY <1>1, <2>1
  <2>2. CASE OpenWithKey(key) = {} /\ requests' = Append(requests, new)
    <3>1. /\ DOMAIN requests' = DOMAIN requests \cup {n}
          /\ requests'[n] = new
          /\ \A k \in DOMAIN requests : requests'[k] = requests[k] /\ k # n
      BY <1>0, <2>2
    <3>2. ASSUME NEW k \in DOMAIN requests, requests[k].status = "open"
          PROVE  \/ RequestKey(requests[k]) # RequestKey(new)
                 \/ /\ Len(requests[k].items) >= StoredLimit
                    /\ Len(new.items) >= StoredLimit
      <4>1. RequestKey(requests[k]) # key
        BY <2>2, <3>2 DEF OpenWithKey
      <4>2. RequestKey(new) = [kind |-> kind, target |-> target, reason |-> r, ctx |-> c,
                               items |-> Members(Truncate(items))]
        BY DEF RequestKey
      <4>3. CASE Members(requests[k].items) = Members(items)
        BY <4>1, <4>2, <4>3 DEF RequestKey
      <4>4. CASE Members(requests[k].items) # Members(items)
        BY <4>2, <4>4, NewRequestDiffers DEF RequestKey
      <4>. QED
        BY <4>3, <4>4
    <3>3. /\ StoredLimit \in Nat
          /\ Truncate(items) \in Seq(Artifact) /\ Len(new.items) \in Nat
          /\ \A k \in DOMAIN requests : Len(requests[k].items) \in Nat
      <4>1. \A k \in DOMAIN requests : requests[k] \in RequestRecord
        BY <1>0
      <4>. QED
        BY <4>1, StoredLimitAssumption, ItemListsAssumption, TruncateType DEF RequestRecord
    <3> HIDE DEF new, key, n
    <3>4. CASE i \in DOMAIN requests /\ j \in DOMAIN requests
      BY <3>1, <3>4 DEF OneOpenRequestPerWholeKey
    <3>5. CASE i = n /\ j \in DOMAIN requests
      BY <3>1, <3>2, <3>3, <3>5
    <3>6. CASE j = n /\ i \in DOMAIN requests
      BY <3>1, <3>2, <3>3, <3>6
    <3>. QED
      BY <3>1, <3>4, <3>5, <3>6
  <2>. QED
    BY <1>3, <2>1, <2>2 DEF RecordRequest
<1>4. CASE RequestStep
  <2>1. ASSUME DeduplicateActiveMemoryRecords
        PROVE  \E S : requests' = CloseRequests(S)
    BY <2>1 DEF DeduplicateActiveMemoryRecords
  <2>2. ASSUME NEW stage \in Stage, RecordStageOutcome(stage)
        PROVE  \E S : requests' = CloseRequests(S)
    BY <2>2 DEF RecordStageOutcome
  <2>. QED
    BY <1>1, <1>3, <1>4, <2>1, <2>2 DEF RequestStep, RecordingStep
<1>5. CASE ReconcileStep
  <2>1. \E S : requests' = CloseRequests(S)
    BY <1>5 DEF ReconcileStep, Reconcile, ReconcileByArtifact
  <2>. QED
    BY <1>1, <2>1
<1>6. CASE TransitionStep \/ ArtifactStep \/ EvidenceStep
  <2>1. requests' = requests
    BY <1>6 DEF TransitionStep, ArtifactStep, EvidenceStep, DeclareTransition, RequireChecker,
       Approve, Promote, Reject, BindArtifact, AddInvariant, AttachEvidence
  <2>. QED
    BY <1>2, <2>1
<1>. QED
  BY <1>4, <1>5, <1>6 DEF Next

\* An obligation whose list is kept whole has one open request, whatever other lists are
\* cut (record_retry_request, record_backtrack_request).  A list that is cut must not
\* repeat an item in what is kept of it: the members of the rest could be those of a
\* shorter list.
THEOREM SpecOneOpenRequestPerWholeKey ==
    ASSUME CutListsDistinct
    PROVE  Spec => []OneOpenRequestPerWholeKey
<1>1. Init => OneOpenRequestPerWholeKey
  BY DEF Init, OneOpenRequestPerWholeKey
<1>2. TypeOK /\ OneOpenRequestPerWholeKey /\ [Next]_vars => OneOpenRequestPerWholeKey'
  BY OneOpenWholeStep DEF vars, OneOpenRequestPerWholeKey, RequestKey, Members
<1>. QED
  BY <1>1, <1>2, SpecTypeOK, PTL DEF Spec

-----------------------------------------------------------------------------
(* Verification runs.                                                       *)

\* What a run is about while it is under way.
CurInv ==
    /\ pc # "idle" => cur \in Transition /\ transitions[cur].ctx = run.scope
    /\ pc \in {"declared", "bound"} => transitions[cur].status = "declared"
    /\ pc = "bound" => ResultArtifact \in transitions[cur].generated

\* An artifact nobody is at work on.
Settled(a) ==
    LET art == artifacts[a]
    IN  /\ art.trust # "pending_transition"
        /\ art.trust # "unbound" => /\ art.producer \in Transition
                                    /\ transitions[art.producer].status \in {"promoted", "rejected"}
        /\ art.trust = "validated" => /\ art.validator = art.producer
                                      /\ transitions[art.producer].status = "promoted"
        /\ art.trust = "rejected_producer" => transitions[art.producer].status = "rejected"

\* An artifact is either bound by the run under way or settled.
SettledInv ==
    \A a \in Artifact :
        IF pc = "bound" /\ a \in transitions[cur].generated
        THEN artifacts[a].trust = "pending_transition" /\ artifacts[a].producer = cur
        ELSE Settled(a)

\* Barriers are of rejected runs, retry requests are addressed to this stage.
OriginInv ==
    /\ \A b \in ActiveBarriers : transitions[b.by].status = "rejected"
    /\ \A i \in DOMAIN requests :
          requests[i].kind = "retry" => requests[i].target = VerificationStage

\* The contract of a passing run names every barrier of its scope, until it is used.
ContractInv ==
    /\ pc \in {"declared", "bound", "decided"} /\ run.pass =>
          \A b \in ActiveBarriers : b.ctx = run.scope =>
             contract.ready /\ b \in contract.lifted
    /\ pc = "requested" /\ run.pass => \A b \in ActiveBarriers : b.ctx # run.scope

BarrierRaised == \E b \in ActiveBarriers : b.artifact = ResultArtifact /\ b.ctx = run.scope

RetryOpen ==
    \E i \in DOMAIN requests :
        /\ requests[i].status = "open"
        /\ requests[i].kind = "retry"
        /\ requests[i].ctx = run.scope

\* A failing run puts its failure on record step by step.
RecordInv ==
    /\ ~run.pass => /\ pc \in {"decided", "retried", "requested"} => BarrierRaised
                    /\ pc \in {"retried", "requested"} => RetryOpen
    /\ pc = "retried" => ~run.pass

\* Nothing of scope c is left to be repaired.
Clean(c) ==
    /\ \A i \in DOMAIN requests : requests[i].ctx = c /\ requests[i].kind = "retry"
                                      => requests[i].status = "closed"
    /\ \A b \in ActiveBarriers : b.ctx # c

\* A run leaves the scopes that are not its own as they are.
CleanInv ==
    \A c \in Context : last[c] = "pass" /\ (pc = "idle" \/ run.scope # c) => Clean(c)

RunTypes == RunTypeOK /\ Len(requests) <= MaxRequests

RunInv ==
    RunTypes /\ CurInv /\ SettledInv /\ OriginInv /\ ContractInv /\ RecordInv /\ CleanInv

LEMMA RunInitInv == RunInit => RunInv
<1> SUFFICES ASSUME RunInit
             PROVE  RunInv
  OBVIOUS
<1>1. RunTypes
  <2>1. TypeOK
    BY InitTypeOK DEF RunInit
  <2>2. Len(requests) <= MaxRequests
    BY MaxRequestsAssumption DEF RunInit, Init
  <2>. QED
    BY <2>1, <2>2, UnscopedAssumption DEF RunInit, RunTypes, RunTypeOK, NoRun, NoContract
<1>2. CurInv /\ SettledInv /\ OriginInv
  BY DEF RunInit, Init, Unbound, CurInv, SettledInv, Settled, OriginInv, ActiveBarriers
<1>3. ContractInv /\ RecordInv /\ CleanInv
  BY DEF RunInit, Init, ContractInv, RecordInv, CleanInv
<1>. QED
  BY <1>1, <1>2, <1>3 DEF RunInv

\* The active barriers after some are superseded are the others.
LEMMA SupersedeActive ==
    ASSUME barriers \subseteq BarrierRecord, NEW S \in SUBSET ActiveBarriers,
           barriers' = Supersede(S)
    PROVE  ActiveBarriers' = ActiveBarriers \ S
<1>1. ASSUME NEW x \in S PROVE [x EXCEPT !.status = "superseded"].status # "active"
  BY DEF BarrierRecord, ActiveBarriers
<1>. QED
  BY <1>1 DEF Supersede, ActiveBarriers

\* A settled artifact stays so while its record and the decisions taken stay.
LEMMA SettledStays ==
    ASSUME NEW a \in Artifact, Settled(a), artifacts'[a] = artifacts[a],
           \A u \in Transition : transitions[u].status \in {"promoted", "rejected"}
                                    => transitions'[u].status = transitions[u].status
    PROVE  Settled(a)'
BY DEF Settled

\* Closing requests keeps what they are about, and the closed ones closed.
LEMMA CloseRequestsKeeps ==
    ASSUME requests \in Seq(RequestRecord), NEW S, requests' = CloseRequests(S)
    PROVE  /\ DOMAIN requests' = DOMAIN requests
           /\ \A i \in DOMAIN requests :
                 /\ requests'[i].kind = requests[i].kind
                 /\ requests'[i].target = requests[i].target
                 /\ requests'[i].ctx = requests[i].ctx
                 /\ i \in S => requests'[i].status = "closed"
                 /\ requests[i].status = "closed" => requests'[i].status = "closed"
<1>1. \A r \in RequestRecord : LET x == [r EXCEPT !.status = "closed"]
                               IN  /\ x.kind = r.kind /\ x.target = r.target
                                   /\ x.ctx = r.ctx /\ x.status = "closed"
  BY DEF RequestRecord
<1>2. /\ DOMAIN requests' = DOMAIN requests
      /\ \A i \in DOMAIN requests :
            requests'[i] = IF i \in S
                           THEN [requests[i] EXCEPT !.status = "closed"]
                           ELSE requests[i]
  BY CloseRequestsType
<1>3. ASSUME NEW i \in DOMAIN requests
      PROVE  /\ requests'[i].kind = requests[i].kind
             /\ requests'[i].target = requests[i].target
             /\ requests'[i].ctx = requests[i].ctx
             /\ i \in S => requests'[i].status = "closed"
             /\ requests[i].status = "closed" => requests'[i].status = "closed"
  <2>1. requests[i] \in RequestRecord
    OBVIOUS
  <2>. QED
    BY <1>1, <1>2, <2>1
<1>. QED
  BY <1>2, <1>3

LEMMA BeginRunStep ==
    ASSUME RunInv, NEW t \in Transition, NEW s \in Context, NEW p \in BOOLEAN,
           NEW q \in BOOLEAN, BeginRun(t, s, p, q)
    PROVE  RunInv'
<1> DEFINE new == [Undeclared EXCEPT !.status = "declared", !.ctx = s, !.required = Checker]
<1>0. /\ TypeOK /\ pc = "idle" /\ transitions[t].status = "undeclared"
      /\ transitions' = [transitions EXCEPT ![t] = new]
      /\ UNCHANGED <<artifacts, requests, barriers, last>>
      /\ pc' = "declared" /\ cur' = t
      /\ run' = [scope |-> s, pass |-> p, planned |-> q]
      /\ contract' = IF p THEN ContractFor(s) ELSE NoContract
  BY DEF BeginRun, RunInv, RunTypes, RunTypeOK
<1>1. new \in TransitionRecord /\ new.status = "declared" /\ new.ctx = s
  BY UnscopedAssumption DEF Undeclared, TransitionRecord, ScopeClass
<1> HIDE DEF new
<1>2. /\ transitions' \in [Transition -> TransitionRecord]
      /\ transitions'[t] = new
      /\ \A u \in Transition \ {t} : transitions'[u] = transitions[u]
  BY <1>0, <1>1 DEF TypeOK
<1>3. RunTypes'
  <2>1. TypeOK'
    <3>1. \A x \in EvidenceStatus :
             [constraints |-> Constraint, status |-> x] \in InvariantRecord
      BY DEF InvariantRecord
    <3>2. (IF p THEN "pass" ELSE "fail") \in EvidenceStatus
      BY DEF EvidenceStatus
    <3>3. invariants' \in [Checker -> InvariantRecord]
      BY <3>1, <3>2 DEF BeginRun
    <3>. QED
      BY <1>0, <1>2, <3>3 DEF TypeOK
  <2>2. DOMAIN requests \subseteq 1 .. MaxRequests
    BY MaxRequestsAssumption, <1>0 DEF RunInv, RunTypes, TypeOK
  <2> DEFINE Contracts == [ready : BOOLEAN, retries : SUBSET (1 .. MaxRequests),
                           lifted : SUBSET BarrierRecord]
  <2>3. contract' \in Contracts
    <3>1. NoContract \in Contracts
      BY DEF NoContract
    <3>2. \A R \in SUBSET (1 .. MaxRequests), L \in SUBSET BarrierRecord :
             [ready |-> TRUE, retries |-> R, lifted |-> L] \in Contracts
      OBVIOUS
    <3>3. ActiveBarriers \subseteq BarrierRecord
      BY <1>0 DEF ActiveBarriers, TypeOK
    <3> HIDE DEF Contracts
    <3>4. ContractFor(s) \in Contracts
      BY <2>2, <3>1, <3>2, <3>3 DEF ContractFor
    <3>. QED
      BY <1>0, <3>1, <3>4
  <2>. QED
    BY <1>0, <2>1, <2>3 DEF RunInv, RunTypes, RunTypeOK
<1>4. CurInv'
  BY <1>0, <1>1, <1>2 DEF CurInv
<1>5. SettledInv'
  BY <1>0, <1>2 DEF RunInv, SettledInv, Settled
<1>6. ActiveBarriers' = ActiveBarriers /\ ActiveBarriers \subseteq BarrierRecord
  BY <1>0 DEF ActiveBarriers, TypeOK
<1>7. OriginInv'
  BY <1>0, <1>2, <1>6 DEF RunInv, OriginInv, BarrierRecord
<1>8. ContractInv'
  <2>1. ASSUME p, NEW b \in ActiveBarriers, b.ctx = s
        PROVE  contract'.ready /\ b \in contract'.lifted
    BY <1>0, <2>1 DEF ContractFor, RunInv, OriginInv
  <2>. QED
    BY <1>0, <1>6, <2>1 DEF ContractInv
<1>9. RecordInv' /\ CleanInv'
  BY <1>0, <1>6 DEF RunInv, RecordInv, CleanInv, Clean
<1>. QED
  BY <1>3, <1>4, <1>5, <1>7, <1>8, <1>9 DEF RunInv

LEMMA BindResultsStep ==
    ASSUME RunInv, NEW as \in SUBSET Artifact, ResultArtifact \in as, BindResults(as)
    PROVE  RunInv'
<1>0. /\ TypeOK /\ pc = "declared" /\ cur \in Transition
      /\ transitions[cur] \in TransitionRecord /\ transitions[cur].status = "declared"
      /\ UNCHANGED <<invariants, requests, barriers, cur, run, contract, last>>
      /\ pc' = "bound"
  BY DEF BindResults, RunInv, RunTypes, RunTypeOK, CurInv, TypeOK
<1> DEFINE passed == IF run.pass THEN Checker ELSE {}
           new == [transitions[cur] EXCEPT !.generated = as, !.passed = passed]
<1>1. /\ new \in TransitionRecord
      /\ new.status = "declared" /\ new.generated = as /\ new.ctx = transitions[cur].ctx
  BY <1>0 DEF TransitionRecord
<1>2. transitions' = [transitions EXCEPT ![cur] = new]
  BY <1>0 DEF BindResults
<1> HIDE DEF new
<1>3. /\ transitions' \in [Transition -> TransitionRecord]
      /\ transitions'[cur] = new
      /\ \A u \in Transition \ {cur} : transitions'[u] = transitions[u]
  BY <1>0, <1>1, <1>2 DEF TypeOK
<1>4. /\ artifacts' \in [Artifact -> ArtifactRecord]
      /\ \A a \in as : /\ artifacts'[a].trust = "pending_transition"
                        /\ artifacts'[a].producer = cur
      /\ \A a \in Artifact \ as : artifacts'[a] = artifacts[a]
  BY <1>0 DEF BindResults, TypeOK, ArtifactRecord
<1>5. RunTypes'
  BY <1>0, <1>3, <1>4 DEF RunInv, RunTypes, RunTypeOK, TypeOK
<1>6. CurInv'
  BY <1>0, <1>1, <1>3 DEF RunInv, CurInv
<1>7. SettledInv'
  <2>1. ASSUME NEW a \in Artifact \ as
        PROVE  Settled(a)'
    BY <1>0, <1>1, <1>3, <1>4, SettledStays DEF RunInv, SettledInv
  <2>. QED
    BY <1>0, <1>1, <1>3, <1>4, <2>1 DEF SettledInv
<1>8. ActiveBarriers' = ActiveBarriers /\ ActiveBarriers \subseteq BarrierRecord
  BY <1>0 DEF ActiveBarriers, TypeOK
<1>9. OriginInv'
  BY <1>0, <1>1, <1>3, <1>8 DEF RunInv, OriginInv, BarrierRecord
<1>10. ContractInv' /\ RecordInv' /\ CleanInv'
  BY <1>0, <1>8 DEF RunInv, ContractInv, RecordInv, CleanInv, Clean
<1>. QED
  BY <1>5, <1>6, <1>7, <1>9, <1>10 DEF RunInv

LEMMA PromoteRunStep ==
    ASSUME RunInv, PromoteRun
    PROVE  RunInv'
<1>0. /\ TypeOK /\ pc = "bound" /\ run.pass /\ cur \in Transition
      /\ transitions[cur] \in TransitionRecord /\ transitions[cur].status = "declared"
      /\ Promote(cur)
      /\ UNCHANGED <<invariants, requests, cur, run, contract, last>>
      /\ pc' = "decided"
  BY DEF PromoteRun, Promote, RunInv, RunTypes, RunTypeOK, CurInv, TypeOK
<1>1. RunTypes'
  BY <1>0, PromoteTypes DEF RunInv, RunTypes, RunTypeOK
<1>2. /\ transitions'[cur].status = "promoted" /\ transitions'[cur].ctx = transitions[cur].ctx
      /\ \A u \in Transition \ {cur} : transitions'[u] = transitions[u]
  <2>1. LET x == [transitions[cur] EXCEPT !.status = "promoted"]
        IN  x.status = "promoted" /\ x.ctx = transitions[cur].ctx
    BY <1>0 DEF TransitionRecord
  <2>. QED
    BY <1>0, <2>1 DEF Promote, TypeOK
<1>3. CurInv'
  BY <1>0, <1>2 DEF RunInv, CurInv
<1>4. SettledInv'
  <2>1. ASSUME NEW a \in Artifact, a \in transitions[cur].generated
        PROVE  Settled(a)'
    <3>1. artifacts[a] \in ArtifactRecord /\ artifacts[a].producer = cur
      BY <1>0, <2>1 DEF RunInv, SettledInv, TypeOK
    <3>2. artifacts'[a] = [artifacts[a] EXCEPT !.trust = "validated", !.validator = cur]
      BY <1>0, <2>1 DEF Promote
    <3>3. /\ artifacts'[a].trust = "validated" /\ artifacts'[a].validator = cur
          /\ artifacts'[a].producer = cur
      BY <3>1, <3>2 DEF ArtifactRecord
    <3>. QED
      BY <1>0, <1>2, <3>3 DEF Settled
  <2>2. ASSUME NEW a \in Artifact, a \notin transitions[cur].generated
        PROVE  Settled(a)'
    <3>1. Settled(a) /\ artifacts'[a] = artifacts[a]
      BY <1>0, <2>2 DEF RunInv, SettledInv, Promote
    <3>. QED
      BY <1>0, <1>2, <3>1, SettledStays
  <2>. QED
    BY <1>0, <2>1, <2>2 DEF SettledInv
<1>5. ActiveBarriers' \subseteq ActiveBarriers /\ ActiveBarriers \subseteq BarrierRecord
  BY <1>0, SupersedeActive DEF Promote, ActiveBarriers, TypeOK
<1>6. OriginInv'
  BY <1>0, <1>2, <1>5 DEF RunInv, OriginInv, BarrierRecord
<1>7. ContractInv' /\ RecordInv' /\ CleanInv'
  BY <1>0, <1>5 DEF RunInv, ContractInv, RecordInv, CleanInv, Clean
<1>. QED
  BY <1>1, <1>3, <1>4, <1>6, <1>7 DEF RunInv

LEMMA RejectRunStep ==
    ASSUME RunInv, RejectRun
    PROVE  RunInv'
<1>0. /\ TypeOK /\ pc = "bound" /\ ~run.pass /\ cur \in Transition
      /\ transitions[cur] \in TransitionRecord /\ transitions[cur].status = "declared"
      /\ transitions[cur].ctx = run.scope /\ ResultArtifact \in transitions[cur].generated
      /\ Reject(cur, RunReason) /\ RunReason \in Reason
      /\ UNCHANGED <<invariants, requests, cur, run, contract, last>>
      /\ pc' = "decided"
  BY VerificationAssumption
     DEF RejectRun, Reject, RunInv, RunTypes, RunTypeOK, CurInv, TypeOK
<1>1. RunTypes'
  BY <1>0, RejectTypes DEF RunInv, RunTypes, RunTypeOK
<1>2. /\ transitions'[cur].status = "rejected" /\ transitions'[cur].ctx = transitions[cur].ctx
      /\ \A u \in Transition \ {cur} : transitions'[u] = transitions[u]
  <2>1. LET x == [transitions[cur] EXCEPT !.status = "rejected"]
        IN  x.status = "rejected" /\ x.ctx = transitions[cur].ctx
    BY <1>0 DEF TransitionRecord
  <2>. QED
    BY <1>0, <2>1 DEF Reject, TypeOK
<1>3. CurInv'
  BY <1>0, <1>2 DEF RunInv, CurInv
<1>4. SettledInv'
  <2>1. ASSUME NEW a \in Artifact, a \in transitions[cur].generated
        PROVE  Settled(a)'
    <3>1. artifacts[a] \in ArtifactRecord /\ artifacts[a].producer = cur
      BY <1>0, <2>1 DEF RunInv, SettledInv, TypeOK
    <3>2. artifacts'[a] = [artifacts[a] EXCEPT !.fresh = FALSE, !.trust = "rejected_producer"]
      BY <1>0, <2>1 DEF Reject
    <3>3. artifacts'[a].trust = "rejected_producer" /\ artifacts'[a].producer = cur
      BY <3>1, <3>2 DEF ArtifactRecord
    <3>. QED
      BY <1>0, <1>2, <3>3 DEF Settled
  <2>2. ASSUME NEW a \in Artifact, a \notin transitions[cur].generated
        PROVE  Settled(a)'
    <3>1. Settled(a) /\ artifacts'[a] = artifacts[a]
      BY <1>0, <2>2 DEF RunInv, SettledInv, Reject
    <3>. QED
      BY <1>0, <1>2, <3>1, SettledStays
  <2>. QED
    BY <1>0, <2>1, <2>2 DEF SettledInv
<1> DEFINE Raised(a) == [artifact |-> a, by |-> cur, reason |-> RunReason,
                         ctx |-> run.scope, status |-> "active"]
           new == {Raised(a) : a \in transitions[cur].generated}
<1>5. barriers' = barriers \cup {b \in new : BarrierKey(b) \notin ActiveBarrierKeys}
  BY <1>0 DEF Reject
<1>6. /\ ActiveBarriers \subseteq ActiveBarriers'
      /\ \A b \in ActiveBarriers' : b \in ActiveBarriers \/ (b.by = cur /\ b.ctx = run.scope)
  BY <1>5 DEF ActiveBarriers
<1>7. ActiveBarriers \subseteq BarrierRecord
  BY <1>0 DEF ActiveBarriers, TypeOK
<1>8. BarrierRaised'
  <2> DEFINE x == Raised(ResultArtifact)
  <2>1. CASE BarrierKey(x) \in ActiveBarrierKeys
    <3>1. PICK b \in ActiveBarriers : BarrierKey(b) = BarrierKey(x)
      BY <2>1 DEF ActiveBarrierKeys
    <3>2. b.artifact = ResultArtifact /\ b.ctx = run.scope
      BY <3>1 DEF BarrierKey
    <3>. QED
      BY <1>0, <1>6, <3>2 DEF BarrierRaised
  <2>2. CASE BarrierKey(x) \notin ActiveBarrierKeys
    <3>1. x \in ActiveBarriers'
      BY <1>0, <1>5, <2>2 DEF ActiveBarriers
    <3>. QED
      BY <1>0, <3>1 DEF BarrierRaised
  <2>. QED
    BY <2>1, <2>2
<1>9. OriginInv'
  BY <1>0, <1>2, <1>6, <1>7 DEF RunInv, OriginInv, BarrierRecord
<1>10. ContractInv' /\ RecordInv'
  BY <1>0, <1>8 DEF ContractInv, RecordInv
<1>11. CleanInv'
  BY <1>0, <1>6 DEF RunInv, CleanInv, Clean
<1>. QED
  BY <1>1, <1>3, <1>4, <1>9, <1>10, <1>11 DEF RunInv

\* A run that is turned into a failing one still has its failure to put on record.
LEMMA RefuseContractStep ==
    ASSUME RunInv, RefuseContract
    PROVE  RunInv'
<1>0. /\ UNCHANGED <<vars, pc, cur, contract, last>> /\ pc = "bound" /\ ~run'.pass
      /\ run'.scope = run.scope
      /\ run' \in [scope : Context, pass : BOOLEAN, planned : BOOLEAN]
  BY DEF RefuseContract, RunInv, RunTypes, RunTypeOK
<1>1. RunTypes'
  BY <1>0 DEF vars, RunInv, RunTypes, RunTypeOK, TypeOK
<1>2. ActiveBarriers' = ActiveBarriers
  BY <1>0 DEF vars, ActiveBarriers
<1>3. CurInv' /\ SettledInv'
  BY <1>0 DEF vars, RunInv, CurInv, SettledInv, Settled
<1>4. OriginInv' /\ ContractInv' /\ RecordInv' /\ CleanInv'
  BY <1>0, <1>2 DEF vars, RunInv, OriginInv, ContractInv, RecordInv, CleanInv, Clean
<1>. QED
  BY <1>1, <1>3, <1>4 DEF RunInv

\* The contract names every barrier of the scope, so none of the scope is left.
LEMMA ReconcileRunStep ==
    ASSUME RunInv, ReconcileRun
    PROVE  RunInv'
<1>0. /\ TypeOK /\ pc = "decided" /\ run.pass
      /\ UNCHANGED <<transitions, artifacts, invariants, cur, run, contract, last>>
      /\ pc' = "requested"
  BY DEF ReconcileRun, Reconcile, vars, RunInv, RunTypes, RunTypeOK
<1>1. /\ TypeOK' /\ Len(requests') = Len(requests)
      /\ ActiveBarriers' \subseteq ActiveBarriers
      /\ \A b \in ActiveBarriers' : b.ctx # run.scope
      /\ DOMAIN requests' = DOMAIN requests
      /\ \A i \in DOMAIN requests :
            /\ requests'[i].kind = requests[i].kind
            /\ requests'[i].target = requests[i].target
            /\ requests'[i].ctx = requests[i].ctx
            /\ requests[i].status = "closed" => requests'[i].status = "closed"
  <2>0. \A b \in ActiveBarriers : b.ctx = run.scope => contract.ready /\ b \in contract.lifted
    BY <1>0 DEF RunInv, ContractInv
  <2>1. CASE contract.ready
    <3>1. Reconcile(contract.retries, contract.lifted)
      BY <2>1 DEF ReconcileRun
    <3>2. TypeOK'
      BY <1>0, <3>1, ReconcileTypes
    <3>3. ActiveBarriers' = ActiveBarriers \ (contract.lifted \cap ActiveBarriers)
      BY <1>0, <3>1, SupersedeActive DEF Reconcile, TypeOK
    <3>4. PICK S : requests' = CloseRequests(S)
      BY <3>1 DEF Reconcile
    <3>. QED
      BY <1>0, <2>0, <3>2, <3>3, <3>4, CloseRequestsType, CloseRequestsKeeps DEF TypeOK
  <2>2. CASE ~contract.ready
    <3>1. UNCHANGED vars
      BY <2>2 DEF ReconcileRun
    <3>. QED
      BY <1>0, <2>0, <2>2, <3>1 DEF vars, ActiveBarriers, TypeOK
  <2>. QED
    BY <2>1, <2>2
<1>2. RunTypes'
  BY <1>0, <1>1 DEF RunInv, RunTypes, RunTypeOK
<1>3. CurInv' /\ SettledInv'
  BY <1>0 DEF RunInv, CurInv, SettledInv, Settled
<1>4. OriginInv'
  BY <1>0, <1>1 DEF RunInv, OriginInv
<1>5. ContractInv' /\ RecordInv' /\ CleanInv'
  BY <1>0, <1>1 DEF RunInv, ContractInv, RecordInv, CleanInv, Clean
<1>. QED
  BY <1>2, <1>3, <1>4, <1>5 DEF RunInv

\* Recording a request of the run's scope leaves the other scopes alone; an open retry of
\* the scope stays open or is closed into one that does, and recording a retry leaves one.
LEMMA RecordRequestRun ==
    ASSUME RunInv, NEW kind \in {"retry", "backtrack"}, NEW target \in Stage,
           kind = "retry" => target = VerificationStage, NEW items \in ItemLists,
           RecordRequest(kind, target, RunReason, run.scope, items), run' = run
    PROVE  /\ TypeOK' /\ Len(requests') <= MaxRequests
           /\ \A i \in DOMAIN requests' :
                 requests'[i].kind = "retry" => requests'[i].target = VerificationStage
           /\ \A i \in DOMAIN requests' :
                 \/ requests'[i].ctx = run.scope
                 \/ /\ i \in DOMAIN requests
                    /\ requests'[i].ctx = requests[i].ctx
                    /\ requests'[i].kind = requests[i].kind
                    /\ requests[i].status = "closed" => requests'[i].status = "closed"
           /\ RetryOpen \/ kind = "retry" => RetryOpen'
<1> DEFINE key     == [kind |-> kind, target |-> target, reason |-> RunReason,
                       ctx |-> run.scope, items |-> Members(items)]
           request == [kind |-> kind, target |-> target, reason |-> RunReason,
                       ctx |-> run.scope, items |-> Truncate(items), status |-> "open"]
           matches == OpenWithKey(key)
<1>1. /\ TypeOK /\ requests \in Seq(RequestRecord) /\ Len(requests) <= MaxRequests
      /\ run.scope \in Context /\ MaxRequests \in Nat
      /\ \A i \in DOMAIN requests :
            requests[i].kind = "retry" => requests[i].target = VerificationStage
  BY MaxRequestsAssumption DEF RunInv, RunTypes, RunTypeOK, TypeOK, OriginInv
<1>2. TypeOK'
  BY <1>1, VerificationAssumption, RequestTypes
<1>3. CASE matches # {} /\ requests' = CloseRequests({i \in matches : ~IsFirst(i, matches)})
  <2> DEFINE S == {i \in matches : ~IsFirst(i, matches)}
  <2>1. ASSUME NEW i \in DOMAIN requests, requests[i].status = "open",
               requests[i].kind = "retry", requests[i].ctx = run.scope
        PROVE  RetryOpen'
    <3>1. \A j \in S : ~IsFirst(j, OpenWithKey(RequestKey(requests[i])))
      <4>1. ASSUME NEW j \in S, j \in OpenWithKey(RequestKey(requests[i]))
            PROVE  RequestKey(requests[i]) = key
        BY <4>1 DEF OpenWithKey
      <4>2. \A j \in S : IsFirst(j, OpenWithKey(RequestKey(requests[i])))
                            => j \in OpenWithKey(RequestKey(requests[i]))
        BY DEF IsFirst
      <4>. QED
        BY <4>1, <4>2
    <3>2. requests' = CloseRequests(S)
      BY <1>3
    <3> HIDE DEF S
    <3>3. PICK j \in DOMAIN requests' : /\ requests'[j].status = "open"
                                        /\ RequestKey(requests'[j]) = RequestKey(requests[i])
      BY <1>1, <2>1, <3>1, <3>2, KeyStaysOpen
    <3>4. requests'[j].kind = "retry" /\ requests'[j].ctx = run.scope
      BY <2>1, <3>3 DEF RequestKey
    <3>. QED
      BY <3>3, <3>4 DEF RetryOpen
  <2>2. ASSUME kind = "retry" PROVE RetryOpen'
    <3>1. PICK i \in matches : TRUE
      BY <1>3
    <3>2. /\ i \in DOMAIN requests /\ requests[i].status = "open"
          /\ requests[i].kind = "retry" /\ requests[i].ctx = run.scope
      BY <2>2 DEF OpenWithKey, RequestKey
    <3>. QED
      BY <2>1, <3>2
  <2>3. RetryOpen => RetryOpen'
    BY <2>1 DEF RetryOpen
  <2>4. requests' = CloseRequests(S)
    BY <1>3
  <2> HIDE DEF S, matches
  <2>5. /\ Len(requests') = Len(requests)
        /\ DOMAIN requests' = DOMAIN requests
        /\ \A i \in DOMAIN requests :
              /\ requests'[i].kind = requests[i].kind
              /\ requests'[i].target = requests[i].target
              /\ requests'[i].ctx = requests[i].ctx
              /\ requests[i].status = "closed" => requests'[i].status = "closed"
    BY <1>1, <2>4, CloseRequestsType, CloseRequestsKeeps
  <2>. QED
    BY <1>1, <1>2, <2>2, <2>3, <2>5
<1>4. CASE Len(requests) < MaxRequests /\ requests' = Append(requests, request)
  <2> DEFINE n == Len(requests) + 1
  <2>1. request \in RequestRecord
    BY <1>1, VerificationAssumption, ItemListsAssumption, TruncateType DEF RequestRecord
  <2>2. /\ request.kind = kind /\ request.target = target
        /\ request.ctx = run.scope /\ request.status = "open"
    OBVIOUS
  <2> HIDE DEF request
  <2>3. /\ Len(requests') = n /\ DOMAIN requests' = DOMAIN requests \cup {n}
        /\ requests'[n] = request
        /\ \A i \in DOMAIN requests : requests'[i] = requests[i]
    BY <1>1, <1>4, <2>1
  <2>4. Len(requests') <= MaxRequests
    BY <1>1, <1>4, <2>3
  <2> HIDE DEF n
  <2>5. RetryOpen \/ kind = "retry" => RetryOpen'
    BY <2>2, <2>3 DEF RetryOpen
  <2>. QED
    BY <1>1, <1>2, <2>2, <2>3, <2>4, <2>5
<1>. QED
  BY <1>3, <1>4 DEF RecordRequest

LEMMA RequestRetryStep ==
    ASSUME RunInv, RequestRetry
    PROVE  RunInv'
<1>0. /\ pc = "decided" /\ ~run.pass /\ pc' = "retried"
      /\ UNCHANGED <<transitions, artifacts, invariants, barriers, cur, run, contract, last>>
      /\ RecordRequest("retry", VerificationStage, RunReason, run.scope, BlockedByResult)
  BY DEF RequestRetry, RecordRequest
<1>1. /\ TypeOK' /\ Len(requests') <= MaxRequests /\ RetryOpen'
      /\ \A i \in DOMAIN requests' :
            requests'[i].kind = "retry" => requests'[i].target = VerificationStage
      /\ \A i \in DOMAIN requests' :
            \/ requests'[i].ctx = run.scope
            \/ /\ i \in DOMAIN requests
               /\ requests'[i].ctx = requests[i].ctx
               /\ requests'[i].kind = requests[i].kind
               /\ requests[i].status = "closed" => requests'[i].status = "closed"
  BY <1>0, VerificationAssumption, RecordRequestRun
<1>2. RunTypes'
  BY <1>0, <1>1 DEF RunInv, RunTypes, RunTypeOK
<1>3. ActiveBarriers' = ActiveBarriers
  BY <1>0 DEF ActiveBarriers
<1>4. CurInv' /\ SettledInv'
  BY <1>0 DEF RunInv, CurInv, SettledInv, Settled
<1>5. OriginInv' /\ ContractInv'
  BY <1>0, <1>1, <1>3 DEF RunInv, OriginInv, ContractInv
<1>6. RecordInv'
  BY <1>0, <1>1, <1>3 DEF RunInv, RecordInv, BarrierRaised
<1>7. CleanInv'
  BY <1>0, <1>1, <1>3 DEF RunInv, CleanInv, Clean
<1>. QED
  BY <1>2, <1>4, <1>5, <1>6, <1>7 DEF RunInv

\* The request to plan again does not close the one to run again.
LEMMA RequestBacktrackStep ==
    ASSUME RunInv, RequestBacktrack
    PROVE  RunInv'
<1>0. /\ TypeOK /\ Len(requests) <= MaxRequests /\ pc = "retried" /\ pc' = "requested"
      /\ ~run.pass
      /\ UNCHANGED <<transitions, artifacts, invariants, barriers, cur, run, contract, last>>
  BY DEF RequestBacktrack, RecordRequest, vars, RunInv, RunTypes, RunTypeOK, RecordInv
<1>1. /\ TypeOK' /\ Len(requests') <= MaxRequests
      /\ RetryOpen => RetryOpen'
      /\ \A i \in DOMAIN requests' :
            requests'[i].kind = "retry" => requests'[i].target = VerificationStage
      /\ \A i \in DOMAIN requests' :
            \/ requests'[i].ctx = run.scope
            \/ /\ i \in DOMAIN requests
               /\ requests'[i].ctx = requests[i].ctx
               /\ requests'[i].kind = requests[i].kind
               /\ requests[i].status = "closed" => requests'[i].status = "closed"
  <2>1. CASE run.planned
    BY <1>0, <2>1 DEF RequestBacktrack, vars, TypeOK, RetryOpen, RunInv, OriginInv
  <2>2. CASE ~run.planned
    <3>1. RecordRequest("backtrack", PlanStage, RunReason, run.scope, Blockers)
      BY <2>2 DEF RequestBacktrack
    <3>. QED
      BY <1>0, <3>1, VerificationAssumption, RecordRequestRun
  <2>. QED
    BY <2>1, <2>2
<1>2. RunTypes'
  BY <1>0, <1>1 DEF RunInv, RunTypes, RunTypeOK
<1>3. ActiveBarriers' = ActiveBarriers
  BY <1>0 DEF ActiveBarriers
<1>4. CurInv' /\ SettledInv'
  BY <1>0 DEF RunInv, CurInv, SettledInv, Settled
<1>5. OriginInv' /\ ContractInv'
  BY <1>0, <1>1, <1>3 DEF RunInv, OriginInv, ContractInv
<1>6. RecordInv'
  BY <1>0, <1>1, <1>3 DEF RunInv, RecordInv, BarrierRaised
<1>7. CleanInv'
  BY <1>0, <1>1, <1>3 DEF RunInv, CleanInv, Clean
<1>. QED
  BY <1>2, <1>4, <1>5, <1>6, <1>7 DEF RunInv

\* A passing outcome closes every retry, since all are addressed to this stage.
LEMMA FinishRunStep ==
    ASSUME RunInv, FinishRun
    PROVE  RunInv'
<1>0. /\ TypeOK /\ Len(requests) <= MaxRequests /\ pc = "requested" /\ pc' = "idle"
      /\ UNCHANGED <<transitions, artifacts, invariants, barriers>>
      /\ cur' = NoTransition /\ run' = NoRun /\ contract' = NoContract
      /\ run.scope \in Context /\ last \in [Context -> {"none", "pass", "fail"}]
      /\ last' = [last EXCEPT ![run.scope] = IF run.pass THEN "pass" ELSE "fail"]
  BY DEF FinishRun, RecordStageOutcome, vars, RunInv, RunTypes, RunTypeOK
<1>1. /\ TypeOK' /\ Len(requests') = Len(requests) /\ DOMAIN requests' = DOMAIN requests
      /\ \A i \in DOMAIN requests :
            /\ requests'[i].kind = requests[i].kind
            /\ requests'[i].target = requests[i].target
            /\ requests'[i].ctx = requests[i].ctx
            /\ requests[i].status = "closed" => requests'[i].status = "closed"
            /\ run.pass /\ requests[i].kind = "retry" => requests'[i].status = "closed"
  <2>1. CASE run.pass
    <3> DEFINE S == {i \in DOMAIN requests : requests[i].status = "open"
                                                /\ requests[i].target = VerificationStage}
    <3>1. RecordStageOutcome(VerificationStage) /\ requests' = CloseRequests(S)
      BY <2>1 DEF FinishRun, RecordStageOutcome
    <3>2. ASSUME NEW i \in DOMAIN requests, requests[i].kind = "retry"
          PROVE  i \in S \/ requests[i].status = "closed"
      <4>1. requests[i] \in RequestRecord
        BY <1>0 DEF TypeOK
      <4>2. requests[i].status \in {"open", "closed"}
        BY <4>1 DEF RequestRecord
      <4>3. requests[i].target = VerificationStage
        BY <3>2 DEF RunInv, OriginInv
      <4>. QED
        BY <4>2, <4>3
    <3> HIDE DEF S
    <3>3. TypeOK'
      BY <1>0, <3>1, VerificationAssumption, OutcomeTypes
    <3>4. requests \in Seq(RequestRecord)
      BY <1>0 DEF TypeOK
    <3>. QED
      BY <3>1, <3>2, <3>3, <3>4, CloseRequestsType, CloseRequestsKeeps
  <2>2. CASE ~run.pass
    BY <1>0, <2>2 DEF FinishRun, vars, TypeOK
  <2>. QED
    BY <2>1, <2>2
<1>2. RunTypes'
  <2>1. NoRun \in [scope : Context, pass : BOOLEAN, planned : BOOLEAN]
    BY UnscopedAssumption DEF NoRun
  <2>2. NoContract \in [ready : BOOLEAN, retries : SUBSET (1 .. MaxRequests),
                        lifted : SUBSET BarrierRecord]
    BY DEF NoContract
  <2>3. last' \in [Context -> {"none", "pass", "fail"}]
    BY <1>0
  <2>. QED
    BY <1>0, <1>1, <2>1, <2>2, <2>3 DEF RunTypes, RunTypeOK
<1>3. ActiveBarriers' = ActiveBarriers
  BY <1>0 DEF ActiveBarriers
<1>4. CurInv' /\ SettledInv'
  BY <1>0 DEF RunInv, CurInv, SettledInv, Settled
<1>5. OriginInv'
  BY <1>0, <1>1, <1>3 DEF RunInv, OriginInv
<1>6. ContractInv' /\ RecordInv'
  BY <1>0 DEF ContractInv, RecordInv
<1>7. CleanInv'
  <2>1. ASSUME NEW c \in Context, last'[c] = "pass"
        PROVE  Clean(c)'
    <3>1. CASE c = run.scope
      <4>1. run.pass
        BY <1>0, <2>1, <3>1
      <4>2. \A b \in ActiveBarriers : b.ctx # run.scope
        BY <1>0, <4>1 DEF RunInv, ContractInv
      <4>. QED
        BY <1>1, <1>3, <3>1, <4>1, <4>2 DEF Clean
    <3>2. CASE c # run.scope
      <4>1. Clean(c)
        BY <1>0, <2>1, <3>2 DEF RunInv, CleanInv
      <4>. QED
        BY <1>1, <1>3, <4>1 DEF Clean
    <3>. QED
      BY <3>1, <3>2
  <2>. QED
    BY <2>1 DEF CleanInv
<1>. QED
  BY <1>2, <1>4, <1>5, <1>6, <1>7 DEF RunInv

LEMMA RunStutter ==
    ASSUME RunInv, UNCHANGED allVars
    PROVE  RunInv'
<1>0. UNCHANGED <<transitions, artifacts, invariants, requests, barriers,
                  pc, cur, run, contract, last>>
  BY DEF allVars, runVars, vars
<1>1. RunTypes'
  BY <1>0 DEF RunInv, RunTypes, RunTypeOK, TypeOK
<1>2. ActiveBarriers' = ActiveBarriers
  BY <1>0 DEF ActiveBarriers
<1>3. CurInv' /\ SettledInv'
  BY <1>0 DEF RunInv, CurInv, SettledInv, Settled
<1>4. OriginInv' /\ ContractInv'
  BY <1>0, <1>2 DEF RunInv, OriginInv, ContractInv
<1>5. RecordInv' /\ CleanInv'
  BY <1>0, <1>2 DEF RunInv, RecordInv, BarrierRaised, RetryOpen, CleanInv, Clean
<1>. QED
  BY <1>1, <1>3, <1>4, <1>5 DEF RunInv

LEMMA RunNextInv == RunInv /\ [RunNext]_allVars => RunInv'
<1> SUFFICES ASSUME RunInv, [RunNext]_allVars
             PROVE  RunInv'
  OBVIOUS
<1>1. ASSUME NEW t \in Transition, NEW s \in Context \ {Unscoped}, NEW p \in BOOLEAN,
             NEW q \in BOOLEAN, BeginRun(t, s, p, q)
      PROVE  RunInv'
  BY <1>1, BeginRunStep
<1>2. ASSUME NEW as \in SUBSET Artifact, ResultArtifact \in as, BindResults(as)
      PROVE  RunInv'
  BY <1>2, BindResultsStep
<1>3. CASE PromoteRun \/ RefuseContract \/ RejectRun
  BY <1>3, PromoteRunStep, RefuseContractStep, RejectRunStep
<1>4. CASE ReconcileRun \/ RequestRetry \/ RequestBacktrack \/ FinishRun
  BY <1>4, ReconcileRunStep, RequestRetryStep, RequestBacktrackStep, FinishRunStep
<1>5. CASE UNCHANGED allVars
  BY <1>5, RunStutter
<1>. QED
  BY <1>1, <1>2, <1>3, <1>4, <1>5 DEF RunNext

LEMMA SpecRunInv == RunSpec => []RunInv
BY RunInitInv, RunNextInv, PTL DEF RunSpec

\* Every step of update_sacg keeps the store and the state of the run well-typed.
THEOREM SpecRunTypeOK == RunSpec => []RunTypeOK
<1>1. RunInv => RunTypeOK
  BY DEF RunInv, RunTypes
<1>. QED
  BY <1>1, SpecRunInv, PTL

\* Between verification runs no artifact is pending; a validated one was validated by the
\* run that bound it, and a distrusted one was bound by a rejected run (bind_artifact,
\* promote and reject as update_sacg calls them).
THEOREM SpecSettledBetweenRuns == RunSpec => []SettledBetweenRuns
<1>1. RunInv => SettledBetweenRuns
  BY DEF RunInv, SettledInv, Settled, SettledBetweenRuns
<1>. QED
  BY <1>1, SpecRunInv, PTL

\* When update_sacg is about to save a failing run, an open retry request and an active
\* barrier on the result carry the run's scope, whatever earlier runs of any scope left
\* behind (reject, record_retry_request, record_backtrack_request).
THEOREM SpecFailureIsRecorded == RunSpec => []FailureIsRecorded
<1>1. RunInv => FailureIsRecorded
  BY DEF RunInv, RecordInv, BarrierRaised, RetryOpen, FailureIsRecorded
<1>. QED
  BY <1>1, SpecRunInv, PTL

\* A scope whose latest run passed has no open retry and no active barrier: the barriers
\* on artifacts the run did not bind go by stage6_retry_reconciliation_contract, the
\* retries by that or by record_stage_outcome.
THEOREM SpecPassRetiresItsScope == RunSpec => []PassRetiresItsScope
<1>1. RunInv => PassRetiresItsScope
  BY DEF RunInv, CleanInv, Clean, PassRetiresItsScope
<1>. QED
  BY <1>1, SpecRunInv, PTL
=============================================================================
