--------------------------- MODULE LLMCall_proofs ---------------------------
(***************************************************************************)
(* The language model calls for any number of processes, agents, attempts  *)
(* and ticks.  That no more requests are under way than the account allows *)
(* rests on the leases: there are never more of them than that, and a      *)
(* request of a living process, waited for or not, has a lease that runs   *)
(* out after it.  The latter needs a timeout that bounds the whole request *)
(* and a lease that is held after one.                                     *)
(***************************************************************************)
EXTENDS LLMCall, FiniteSetTheorems, TLAPS

Steps == {"idle", "begin", "open", "beat", "heartbeat", "queue", "wait",
          "request", "release", "result", "record", "close"}

CallType ==
    /\ ledger \in [Agent -> [owner : Process \cup {NoProcess}, open : BOOLEAN]]
    /\ alive \in [Process -> BOOLEAN]
    /\ pc \in [Process -> Steps]
    /\ agent \in [Process -> Agent]
    /\ \A a \in Agent : ledger[a].open => ledger[a].owner \in Process

LedgerInv == CallType /\ OpenTransactionIsAtWork

LEMMA LedgerInit == Init => LedgerInv
  <1>. (CHOOSE a \in Agent : TRUE) \in Agent
    BY LLMCallAssumption
  <1>. QED
    BY LLMCallAssumption
    DEF Init, LedgerInv, CallType, Steps, OpenTransactionIsAtWork, Busy, NoTransaction

LEMMA LedgerStep ==
  ASSUME LedgerInv, [Next]_vars
  PROVE  LedgerInv'
  <1> USE LLMCallAssumption DEF LedgerInv, CallType, Steps, At, Goto
  <1>1. ASSUME NEW p \in Process, NEW a \in Agent, NEW step \in {"idle", "begin"},
               Call(p, a, step)
        PROVE  LedgerInv'
    <2>1. CallType'
      BY <1>1 DEF Call, files
    <2>2. /\ \A q \in Process \ {p} : pc'[q] = pc[q] /\ agent'[q] = agent[q]
          /\ \A b \in Agent : Busy(b)' => Busy(b) /\ ledger[b].owner # p
      BY <1>1 DEF Call, files, OpenTransactionIsAtWork, Busy
    <2>. QED
      BY <1>1, <2>1, <2>2 DEF Call, files, OpenTransactionIsAtWork, Busy
  <1>2. ASSUME NEW p \in Process, Begin(p)
        PROVE  LedgerInv'
    <2>0. /\ NoTransaction \in [owner : Process \cup {NoProcess}, open : BOOLEAN]
          /\ ~NoTransaction.open
      BY DEF NoTransaction
    <2>1. CallType'
      <3>1. /\ alive' = alive /\ agent' = agent
            /\ pc' \in [Process -> Steps]
        BY <1>2 DEF Begin
      <3>2. \/ ledger' = ledger
            \/ ledger' = [ledger EXCEPT ![agent[p]] = NoTransaction]
        BY <1>2 DEF Begin
      <3>3. ledger' \in [Agent -> [owner : Process \cup {NoProcess}, open : BOOLEAN]]
        BY <2>0, <3>2
      <3>4. \A a \in Agent : ledger'[a].open => ledger'[a].owner \in Process
        BY <2>0, <3>2
      <3>. QED
        BY <3>1, <3>3, <3>4
    <2>2. /\ \A q \in Process \ {p} : pc'[q] = pc[q]
          /\ \A b \in Agent : Busy(b)' => Busy(b) /\ ledger'[b] = ledger[b] /\ ledger[b].owner # p
      BY <1>2 DEF Begin, OpenTransactionIsAtWork, Busy, NoTransaction
    <2>3. agent' = agent
      BY <1>2 DEF Begin
    <2>4. ASSUME NEW b \in Agent, Busy(b)'
          PROVE  /\ agent'[ledger'[b].owner] = b
                 /\ pc'[ledger'[b].owner] \notin {"idle", "begin", "open"}
      <3>1. /\ Busy(b) /\ ledger'[b] = ledger[b] /\ ledger[b].owner # p
            /\ ledger[b].owner \in Process
        BY <2>2, <2>4 DEF Busy
      <3>. QED
        BY <2>2, <2>3, <3>1 DEF OpenTransactionIsAtWork
    <2>. QED
      BY <2>1, <2>4 DEF OpenTransactionIsAtWork
  <1>3. ASSUME NEW p \in Process, Open(p)
        PROVE  LedgerInv'
    BY <1>3 DEF Open, OpenTransactionIsAtWork, Busy
  <1>4. ASSUME NEW p \in Process, Beat(p)
        PROVE  LedgerInv'
    BY <1>4 DEF Beat, OpenTransactionIsAtWork, Busy, files
  <1>5. ASSUME NEW p \in Process, Heartbeat(p)
        PROVE  LedgerInv'
    BY <1>5 DEF Heartbeat, OpenTransactionIsAtWork, Busy
  <1>6. ASSUME NEW p \in Process, WriteResult(p)
        PROVE  LedgerInv'
    BY <1>6 DEF WriteResult, OpenTransactionIsAtWork, Busy
  <1>7. ASSUME NEW p \in Process, Record(p)
        PROVE  LedgerInv'
    BY <1>7 DEF Record, OpenTransactionIsAtWork, Busy, files
  <1>8. ASSUME NEW p \in Process, Close(p)
        PROVE  LedgerInv'
    BY <1>8 DEF Close, OpenTransactionIsAtWork, Busy
  <1>9. ASSUME NEW p \in Process, Poll(p)
        PROVE  LedgerInv'
    BY <1>9 DEF Poll, OpenTransactionIsAtWork, Busy, files
  <1>10. ASSUME NEW p \in Process, WaitFails(p)
         PROVE  LedgerInv'
    BY <1>10 DEF WaitFails, OpenTransactionIsAtWork, Busy, files
  <1>11. ASSUME NEW p \in Process, Release(p)
         PROVE  LedgerInv'
    BY <1>11 DEF Release, Decided, OpenTransactionIsAtWork, Busy, files
  <1>12. ASSUME NEW p \in Process, Answer(p)
         PROVE  LedgerInv'
    BY <1>12 DEF Answer, OpenTransactionIsAtWork, Busy, files
  <1>13. ASSUME NEW p \in Process, NEW how, Fault(p, how)
         PROVE  LedgerInv'
    BY <1>13 DEF Fault, OpenTransactionIsAtWork, Busy, files
  <1>14. ASSUME NEW p \in Process, NEW goesOn \in BOOLEAN, TimesOut(p, goesOn)
         PROVE  LedgerInv'
    BY <1>14 DEF TimesOut, OpenTransactionIsAtWork, Busy, files
  <1>15. ASSUME NEW p \in Process, Kill(p)
         PROVE  LedgerInv'
    BY <1>15 DEF Kill, OpenTransactionIsAtWork, Busy, files
  <1>16. CASE Tick
    BY <1>16 DEF Tick, OpenTransactionIsAtWork, Busy, files
  <1>17. CASE UNCHANGED vars
    BY <1>17 DEF vars, OpenTransactionIsAtWork, Busy
  <1>. QED
    BY <1>1, <1>2, <1>3, <1>4, <1>5, <1>6, <1>7, <1>8, <1>9, <1>10, <1>11, <1>12, <1>13,
       <1>14, <1>15, <1>16, <1>17 DEF Next, Advance

\* However many processes share the ledgers, none that lives leaves a transaction open
\* behind it (begin, update and finish_live_llm_transaction).
THEOREM SpecOpenTransactionIsAtWork == Spec => []OpenTransactionIsAtWork
  <1>1. LedgerInv => OpenTransactionIsAtWork
    BY DEF LedgerInv
  <1>. QED
    BY LedgerInit, LedgerStep, <1>1, PTL DEF Spec

-----------------------------------------------------------------------------
Outcomes == {"none", "answer", "invalid", "transient", "timeout", "error"}

LimiterType ==
    /\ alive \in [Process -> BOOLEAN]
    /\ pc \in [Process -> Steps]
    /\ tries \in [Process -> Nat]
    /\ outcome \in [Process -> Outcomes]
    /\ client \in [Process -> Nat]
    /\ DOMAIN leases \subseteq Attempt
    /\ leases \in [DOMAIN leases -> Nat]
    /\ DOMAIN abandoned \subseteq Attempt
    /\ abandoned \in [DOMAIN abandoned -> 1 .. Hold]

LeasesBounded ==
    /\ IsFiniteSet(DOMAIN leases)
    /\ Cardinality(DOMAIN leases) <= MaxInflight

\* A request has a lease for longer than its client waits for it.
RequestLeased ==
    \A p \in Process : At(p, {"request"}) =>
        Id(p) \in DOMAIN leases /\ leases[Id(p)] >= client[p] + Hold

\* A request left behind is of an earlier attempt, or of one being given up.
AbandonedPast ==
    \A id \in DOMAIN abandoned :
        LET p == id[1]
        IN  \/ id[2] < tries[p]
            \/ /\ id[2] = tries[p]
               /\ alive[p] => pc[p] = "release" /\ outcome[p] = "timeout"

AbandonedLeased ==
    \A id \in DOMAIN abandoned :
        alive[id[1]] => id \in DOMAIN leases /\ leases[id] >= abandoned[id]

LimiterInv ==
    /\ LimiterType
    /\ LeasesBounded
    /\ RequestLeased
    /\ AbandonedPast
    /\ AbandonedLeased

LEMMA LimiterInit == Init => LimiterInv
  <1> SUFFICES ASSUME Init PROVE LimiterInv
    OBVIOUS
  <1>1. LimiterType /\ DOMAIN leases = {} /\ DOMAIN abandoned = {}
    BY DEF Init, LimiterType, Steps, Outcomes
  <1>2. LeasesBounded
    BY <1>1, FS_EmptySet, LLMCallAssumption DEF LeasesBounded
  <1>3. RequestLeased
    BY DEF Init, RequestLeased, At
  <1>. QED
    BY <1>1, <1>2, <1>3 DEF LimiterInv, AbandonedPast, AbandonedLeased

\* A step that leaves the limiter and the provider alone and takes a process from a step
\* before or after its request to another.
LEMMA QuietStep ==
  ASSUME LimiterInv, NEW p \in Process, At(p, Steps \ {"request", "release"}),
         NEW step \in Steps \ {"request"}, Goto(p, step),
         UNCHANGED <<leases, alive, tries, client, abandoned>>,
         outcome' \in [Process -> Outcomes], \A q \in Process \ {p} : outcome'[q] = outcome[q]
  PROVE  LimiterInv'
  <1>1. LimiterType'
    BY DEF LimiterInv, LimiterType, Goto
  <1>2. LeasesBounded'
    BY DEF LimiterInv, LeasesBounded
  <1>3. RequestLeased'
    BY DEF LimiterInv, LimiterType, RequestLeased, At, Goto, Id
  <1>4. AbandonedPast'
    BY DEF LimiterInv, LimiterType, AbandonedPast, At, Goto, Attempt
  <1>5. AbandonedLeased'
    BY DEF LimiterInv, AbandonedLeased
  <1>. QED
    BY <1>1, <1>2, <1>3, <1>4, <1>5 DEF LimiterInv

\* The leases a reader of the limiter keeps.
LEMMA ValidLeases ==
  ASSUME LimiterInv
  PROVE  /\ Valid \subseteq DOMAIN leases
         /\ IsFiniteSet(Valid)
         /\ Cardinality(Valid) <= MaxInflight
         /\ Cardinality(Valid) \in Nat
  <1>1. Valid \subseteq DOMAIN leases
    BY DEF Valid
  <1>2. IsFiniteSet(DOMAIN leases) /\ Cardinality(DOMAIN leases) <= MaxInflight
    BY DEF LimiterInv, LeasesBounded
  <1>3. IsFiniteSet(Valid) /\ Cardinality(Valid) <= Cardinality(DOMAIN leases)
    BY <1>1, <1>2, FS_Subset
  <1>4. Cardinality(Valid) \in Nat /\ Cardinality(DOMAIN leases) \in Nat
    BY <1>2, <1>3, FS_CardinalityType
  <1>. QED
    BY <1>1, <1>2, <1>3, <1>4, LLMCallAssumption

\* Reading the limiter drops no lease of a request of a living process.
LEMMA KeptLeases ==
  ASSUME LimiterInv, Hold > 0
  PROVE  /\ \A q \in Process : At(q, {"request"}) => Id(q) \in Valid
         /\ \A id \in DOMAIN abandoned : alive[id[1]] => id \in Valid
  <1>1. ASSUME NEW q \in Process, At(q, {"request"})
        PROVE  Id(q) \in Valid
    BY <1>1, LLMCallAssumption
    DEF LimiterInv, LimiterType, RequestLeased, Valid, At, Id
  <1>2. ASSUME NEW id \in DOMAIN abandoned, alive[id[1]]
        PROVE  id \in Valid
    BY <1>2, LLMCallAssumption DEF LimiterInv, LimiterType, AbandonedLeased, Valid
  <1>. QED
    BY <1>1, <1>2

LEMMA PollStep ==
  ASSUME LimiterInv, Hold > 0, NEW p \in Process, Poll(p)
  PROVE  LimiterInv'
  <1> DEFINE queue == IF pc[p] = "queue" THEN Append(Queued, Id(p)) ELSE Queued
             first == queue # <<>> /\ Head(queue) = Id(p) /\ Cardinality(Valid) < MaxInflight
             kept  == Valid \cup (IF first THEN {Id(p)} ELSE {})
  <1>1. /\ leases' = [l \in kept |-> IF first /\ l = Id(p) THEN Life ELSE leases[l]]
        /\ client' = [client EXCEPT ![p] = IF first THEN Timeout ELSE 0]
        /\ pc' = [pc EXCEPT ![p] = IF first THEN "request" ELSE "wait"]
        /\ UNCHANGED <<alive, tries, outcome, abandoned>>
        /\ alive[p] /\ pc[p] \in {"queue", "wait"}
    BY DEF Poll, Goto, At
  <1>2. first \in BOOLEAN /\ (first => Cardinality(Valid) < MaxInflight)
    OBVIOUS
  <1> HIDE DEF first, queue
  <1>3. Life \in Nat /\ Life >= Timeout + Hold
    BY LLMCallAssumption DEF Life
  <1>4. Id(p) \in Attempt
    BY DEF LimiterInv, LimiterType, Id, Attempt
  <1>5. LimiterType'
    BY <1>1, <1>3, <1>4, ValidLeases, LLMCallAssumption DEF LimiterInv, LimiterType, Steps
  <1>6. LeasesBounded'
    <2>1. DOMAIN leases' = kept
      BY <1>1
    <2>2. CASE first
      <3>1. IsFiniteSet(kept) /\ Cardinality(kept) <= Cardinality(Valid) + 1
        BY <2>2, ValidLeases, FS_AddElement
      <3>2. Cardinality(kept) <= MaxInflight
        BY <2>2, <3>1, <1>2, ValidLeases, FS_CardinalityType, LLMCallAssumption
      <3>. QED
        BY <2>1, <3>1, <3>2 DEF LeasesBounded
    <2>3. CASE ~first
      <3>1. kept = Valid
        BY <2>3
      <3>. QED
        BY <2>1, <3>1, ValidLeases DEF LeasesBounded
    <2>. QED
      BY <2>2, <2>3
  <1>7. RequestLeased'
    <2>1. ASSUME NEW q \in Process, At(q, {"request"})'
          PROVE  Id(q)' \in DOMAIN leases' /\ leases'[Id(q)'] >= client'[q] + Hold
      <3>1. Id(q)' = Id(q)
        BY <1>1 DEF Id
      <3>2. CASE q = p
        BY <1>1, <1>3, <2>1, <3>1, <3>2 DEF At, LimiterInv, LimiterType
      <3>3. CASE q # p
        <4>1. At(q, {"request"}) /\ client'[q] = client[q]
          BY <1>1, <2>1, <3>3 DEF At, LimiterInv, LimiterType
        <4>2. Id(q) \in Valid /\ leases[Id(q)] >= client[q] + Hold
          BY <4>1, KeptLeases DEF LimiterInv, RequestLeased
        <4>3. Id(q) # Id(p)
          BY <3>3 DEF Id
        <4>. QED
          BY <1>1, <3>1, <4>1, <4>2, <4>3
      <3>. QED
        BY <3>2, <3>3
    <2>. QED
      BY <2>1 DEF RequestLeased
  <1>8. AbandonedPast'
    BY <1>1 DEF LimiterInv, LimiterType, AbandonedPast, Attempt
  <1>9. AbandonedLeased'
    <2>1. ASSUME NEW id \in DOMAIN abandoned, alive[id[1]]
          PROVE  id \in DOMAIN leases' /\ leases'[id] >= abandoned[id]
      <3>1. id \in Valid /\ leases[id] >= abandoned[id]
        BY <2>1, KeptLeases DEF LimiterInv, AbandonedLeased
      <3>2. id # Id(p)
        BY <1>1, <2>1 DEF LimiterInv, LimiterType, AbandonedPast, Id, Attempt
      <3>. QED
        BY <1>1, <3>1, <3>2
    <2>. QED
      BY <1>1, <2>1 DEF AbandonedLeased
  <1>. QED
    BY <1>5, <1>6, <1>7, <1>8, <1>9 DEF LimiterInv

LEMMA WaitFailsStep ==
  ASSUME LimiterInv, Hold > 0, NEW p \in Process, WaitFails(p)
  PROVE  LimiterInv'
  <1>1. /\ leases' = [l \in Valid |-> leases[l]]
        /\ outcome' = [outcome EXCEPT ![p] = "error"]
        /\ tries' = [tries EXCEPT ![p] = @ + 1]
        /\ pc' = [pc EXCEPT ![p] = "result"]
        /\ UNCHANGED <<alive, client, abandoned>>
        /\ alive[p] /\ pc[p] = "wait"
    BY DEF WaitFails, Goto, At
  <1>2. LimiterType'
    BY <1>1, ValidLeases DEF LimiterInv, LimiterType, Steps, Outcomes
  <1>3. LeasesBounded'
    BY <1>1, ValidLeases DEF LeasesBounded
  <1>4. RequestLeased'
    BY <1>1, KeptLeases DEF LimiterInv, LimiterType, RequestLeased, At, Id
  <1>5. AbandonedPast'
    BY <1>1 DEF LimiterInv, LimiterType, AbandonedPast, Attempt
  <1>6. AbandonedLeased'
    BY <1>1, KeptLeases DEF LimiterInv, AbandonedLeased
  <1>. QED
    BY <1>2, <1>3, <1>4, <1>5, <1>6 DEF LimiterInv

\* The request ends: its lease stays, and what is left of it belongs to an attempt given up.
LEMMA EndStep ==
  ASSUME LimiterInv, NEW p \in Process, At(p, {"request"}),
         NEW how \in Outcomes, outcome' = [outcome EXCEPT ![p] = how], Goto(p, "release"),
         UNCHANGED <<leases, alive, tries, client>>,
         \/ abandoned' = abandoned
         \/ /\ Hold > 0
            /\ how = "timeout"
            /\ abandoned' = [l \in DOMAIN abandoned \cup {Id(p)} |->
                                 IF l = Id(p) THEN Hold ELSE abandoned[l]]
  PROVE  LimiterInv'
  <1>1. Id(p) \in Attempt /\ Id(p)[1] = p /\ Id(p)[2] = tries[p]
    BY DEF LimiterInv, LimiterType, Id, Attempt
  <1>2. LimiterType'
    BY <1>1, LLMCallAssumption DEF LimiterInv, LimiterType, Goto, Steps
  <1>3. LeasesBounded'
    BY DEF LimiterInv, LeasesBounded
  <1>4. RequestLeased'
    BY DEF LimiterInv, LimiterType, RequestLeased, At, Goto, Id
  <1>5. AbandonedPast'
    BY <1>1 DEF LimiterInv, LimiterType, AbandonedPast, At, Goto, Attempt
  <1>6. AbandonedLeased'
    <2>1. Id(p) \in DOMAIN leases /\ leases[Id(p)] >= Hold
      BY LLMCallAssumption DEF LimiterInv, LimiterType, RequestLeased, At
    <2>. QED
      BY <1>1, <2>1, LLMCallAssumption DEF LimiterInv, LimiterType, AbandonedLeased
  <1>. QED
    BY <1>2, <1>3, <1>4, <1>5, <1>6 DEF LimiterInv

LEMMA ReleaseStep ==
  ASSUME LimiterInv, NEW p \in Process, Release(p)
  PROVE  LimiterInv'
  <1>1. PICK step \in {"result", "beat"} :
           /\ outcome' = [outcome EXCEPT ![p] = IF step = "result" THEN @ ELSE "none"]
           /\ Goto(p, step)
    BY DEF Release, Decided
  <1>2. /\ leases' = Released(Id(p), outcome[p] = "timeout")
        /\ tries' = [tries EXCEPT ![p] = @ + 1]
        /\ client' = [client EXCEPT ![p] = 0]
        /\ UNCHANGED <<alive, abandoned>>
        /\ alive[p] /\ pc[p] = "release"
    BY DEF Release, At
  <1>3. Id(p) \in Attempt /\ Id(p)[1] = p /\ Id(p)[2] = tries[p]
    BY DEF LimiterInv, LimiterType, Id, Attempt
  <1>4. /\ DOMAIN leases' \subseteq DOMAIN leases
        /\ \A l \in DOMAIN leases \ {Id(p)} : l \in DOMAIN leases' /\ leases'[l] = leases[l]
        /\ outcome[p] = "timeout" /\ Id(p) \in DOMAIN leases =>
              Id(p) \in DOMAIN leases' /\ leases'[Id(p)] = Hold
    BY <1>2 DEF Released
  <1>5. LimiterType'
    <2>1. leases' \in [DOMAIN leases' -> Nat] /\ DOMAIN leases' \subseteq Attempt
      BY <1>2, LLMCallAssumption DEF Released, LimiterInv, LimiterType
    <2>. QED
      BY <1>1, <1>2, <2>1 DEF LimiterInv, LimiterType, Goto, Steps, Outcomes
  <1>6. LeasesBounded'
    <2>1. /\ IsFiniteSet(DOMAIN leases')
          /\ Cardinality(DOMAIN leases') <= Cardinality(DOMAIN leases)
      BY <1>4, FS_Subset DEF LimiterInv, LeasesBounded
    <2>. QED
      BY <2>1, FS_CardinalityType, LLMCallAssumption DEF LimiterInv, LeasesBounded
  <1>7. RequestLeased'
    <2>1. ASSUME NEW q \in Process, At(q, {"request"})'
          PROVE  Id(q)' \in DOMAIN leases' /\ leases'[Id(q)'] >= client'[q] + Hold
      <3>1. q # p
        BY <1>1, <1>2, <2>1 DEF At, Goto, LimiterInv, LimiterType
      <3>2. At(q, {"request"}) /\ client'[q] = client[q] /\ Id(q)' = Id(q)
        BY <1>1, <1>2, <2>1, <3>1 DEF At, Goto, LimiterInv, LimiterType, Id
      <3>3. Id(q) # Id(p)
        BY <3>1 DEF Id
      <3>. QED
        BY <1>4, <3>2, <3>3 DEF LimiterInv, RequestLeased
    <2>. QED
      BY <2>1 DEF RequestLeased
  <1>8. AbandonedPast'
    <2>1. ASSUME NEW id \in DOMAIN abandoned
          PROVE  /\ id[1] \in Process /\ id[2] \in Nat
                 /\ id[2] <= tries[id[1]]
                 /\ id[2] = tries[id[1]] =>
                       (alive[id[1]] => pc[id[1]] = "release" /\ outcome[id[1]] = "timeout")
      BY DEF LimiterInv, LimiterType, AbandonedPast, Attempt
    <2>2. ASSUME NEW id \in DOMAIN abandoned
          PROVE  \/ id[2] < tries'[id[1]]
                 \/ /\ id[2] = tries'[id[1]]
                    /\ alive[id[1]] => pc'[id[1]] = "release" /\ outcome'[id[1]] = "timeout"
      BY <1>1, <1>2, <2>1 DEF LimiterInv, LimiterType, Goto
    <2>. QED
      BY <1>2, <2>2 DEF AbandonedPast
  <1>9. AbandonedLeased'
    <2>1. ASSUME NEW id \in DOMAIN abandoned, alive[id[1]]
          PROVE  id \in DOMAIN leases' /\ leases'[id] >= abandoned[id]
      <3>1. id \in DOMAIN leases /\ leases[id] >= abandoned[id]
        BY <2>1 DEF LimiterInv, AbandonedLeased
      <3>2. CASE id = Id(p)
        <4>1. outcome[p] = "timeout"
          BY <1>3, <2>1, <3>2 DEF LimiterInv, LimiterType, AbandonedPast
        <4>. QED
          BY <1>4, <3>1, <3>2, <4>1, LLMCallAssumption DEF LimiterInv, LimiterType
      <3>3. CASE id # Id(p)
        BY <1>4, <3>1, <3>3
      <3>. QED
        BY <3>2, <3>3
    <2>. QED
      BY <1>2, <2>1 DEF AbandonedLeased
  <1>. QED
    BY <1>5, <1>6, <1>7, <1>8, <1>9 DEF LimiterInv

\* Time takes as much from a lease as from what it covers, where it bounds the request.
LEMMA TickStep ==
  ASSUME LimiterInv, TotalTimeout, Tick
  PROVE  LimiterInv'
  <1>1. /\ \A p \in Process : At(p, {"request"}) => client[p] > 0
        /\ leases' = [l \in DOMAIN leases |-> Minus1(leases[l])]
        /\ client' = [p \in Process |->
                         IF At(p, {"request"}) THEN Minus1(client[p]) ELSE client[p]]
        /\ abandoned' = [l \in {m \in DOMAIN abandoned : abandoned[m] > 1} |-> abandoned[l] - 1]
        /\ UNCHANGED <<alive, pc, tries, outcome>>
    BY DEF Tick
  <1>2. LimiterType'
    BY <1>1, LLMCallAssumption DEF LimiterInv, LimiterType, Minus1
  <1>3. LeasesBounded'
    BY <1>1 DEF LimiterInv, LeasesBounded
  <1>4. RequestLeased'
    <2>1. ASSUME NEW p \in Process, At(p, {"request"})
          PROVE  Id(p) \in DOMAIN leases' /\ leases'[Id(p)] >= client'[p] + Hold
      <3>1. /\ client[p] \in Nat /\ client[p] > 0
            /\ Id(p) \in DOMAIN leases
            /\ leases[Id(p)] \in Nat /\ leases[Id(p)] >= client[p] + Hold
        BY <1>1, <2>1 DEF LimiterInv, LimiterType, RequestLeased
      <3>. QED
        BY <1>1, <2>1, <3>1, LLMCallAssumption DEF Minus1
    <2>. QED
      BY <1>1, <2>1 DEF RequestLeased, At, Id
  <1>5. AbandonedPast'
    BY <1>1 DEF LimiterInv, AbandonedPast
  <1>6. AbandonedLeased'
    BY <1>1, LLMCallAssumption DEF LimiterInv, LimiterType, AbandonedLeased, Minus1
  <1>. QED
    BY <1>2, <1>3, <1>4, <1>5, <1>6 DEF LimiterInv

LEMMA LimiterStep ==
  ASSUME LimiterInv, TotalTimeout, Hold > 0, [Next]_vars
  PROVE  LimiterInv'
  <1>1. ASSUME NEW p \in Process, NEW a \in Agent, NEW step \in {"idle", "begin"},
               Call(p, a, step)
        PROVE  LimiterInv'
    BY <1>1, QuietStep DEF Call, limiter, At, Steps, LimiterInv, LimiterType
  <1>2. ASSUME NEW p \in Process, Begin(p)
        PROVE  LimiterInv'
    BY <1>2, QuietStep DEF Begin, limiter, At, Steps, LimiterInv, LimiterType
  <1>3. ASSUME NEW p \in Process, Open(p)
        PROVE  LimiterInv'
    BY <1>3, QuietStep DEF Open, limiter, At, Steps, LimiterInv, LimiterType
  <1>4. ASSUME NEW p \in Process, Beat(p)
        PROVE  LimiterInv'
    BY <1>4, QuietStep DEF Beat, limiter, At, Steps, LimiterInv, LimiterType
  <1>5. ASSUME NEW p \in Process, Heartbeat(p)
        PROVE  LimiterInv'
    BY <1>5, QuietStep DEF Heartbeat, limiter, At, Steps, LimiterInv, LimiterType
  <1>6. ASSUME NEW p \in Process, WriteResult(p)
        PROVE  LimiterInv'
    <2>1. /\ outcome' \in [Process -> Outcomes]
          /\ \A q \in Process \ {p} : outcome'[q] = outcome[q]
      BY <1>6 DEF WriteResult, LimiterInv, LimiterType, Outcomes
    <2>. QED
      BY <1>6, <2>1, QuietStep DEF WriteResult, limiter, At, Steps
  <1>7. ASSUME NEW p \in Process, Record(p)
        PROVE  LimiterInv'
    BY <1>7, QuietStep DEF Record, limiter, At, Steps, LimiterInv, LimiterType
  <1>8. ASSUME NEW p \in Process, Close(p)
        PROVE  LimiterInv'
    BY <1>8, QuietStep DEF Close, limiter, At, Steps, LimiterInv, LimiterType
  <1>9. ASSUME NEW p \in Process, Poll(p)
        PROVE  LimiterInv'
    BY <1>9, PollStep
  <1>10. ASSUME NEW p \in Process, WaitFails(p)
         PROVE  LimiterInv'
    BY <1>10, WaitFailsStep
  <1>11. ASSUME NEW p \in Process, Release(p)
         PROVE  LimiterInv'
    BY <1>11, ReleaseStep
  <1>12. ASSUME NEW p \in Process, Answer(p)
         PROVE  LimiterInv'
    BY <1>12, EndStep DEF Answer, limiter, Outcomes
  <1>13. ASSUME NEW p \in Process, NEW how \in {"invalid", "transient", "error"}, Fault(p, how)
         PROVE  LimiterInv'
    BY <1>13, EndStep DEF Fault, limiter, Outcomes
  <1>14. ASSUME NEW p \in Process, NEW goesOn \in BOOLEAN, TimesOut(p, goesOn)
         PROVE  LimiterInv'
    BY <1>14, EndStep DEF TimesOut, limiter, Outcomes
  <1>15. ASSUME NEW p \in Process, Kill(p)
         PROVE  LimiterInv'
    <2>1. /\ alive' = [alive EXCEPT ![p] = FALSE]
          /\ pc' = [pc EXCEPT ![p] = "idle"]
          /\ UNCHANGED <<leases, tries, outcome, client, abandoned>>
      BY <1>15 DEF Kill, Goto, limiter
    <2>. QED
      BY <2>1 DEF LimiterInv, LimiterType, LeasesBounded, RequestLeased, AbandonedPast,
                  AbandonedLeased, At, Id, Attempt, Steps
  <1>16. CASE Tick
    BY <1>16, TickStep
  <1>17. CASE UNCHANGED vars
    BY <1>17 DEF vars, LimiterInv, LimiterType, LeasesBounded, RequestLeased, AbandonedPast,
                 AbandonedLeased, At, Id
  <1>. QED
    BY <1>1, <1>2, <1>3, <1>4, <1>5, <1>6, <1>7, <1>8, <1>9, <1>10, <1>11, <1>12, <1>13,
       <1>14, <1>15, <1>16, <1>17 DEF Next, Advance

LEMMA LimiterInvBounds ==
  ASSUME LimiterInv
  PROVE  RequestsBounded
  <1>1. UnderWay \subseteq DOMAIN leases
    BY DEF LimiterInv, RequestLeased, AbandonedLeased, UnderWay
  <1>2. Cardinality(UnderWay) <= Cardinality(DOMAIN leases) /\ IsFiniteSet(UnderWay)
    BY <1>1, FS_Subset DEF LimiterInv, LeasesBounded
  <1>. QED
    BY <1>2, FS_CardinalityType, LLMCallAssumption DEF LimiterInv, LeasesBounded, RequestsBounded

\* Where the timeout bounds the whole request and a lease is held after it, any number of
\* processes that retry any number of times stay within the account's limit, the requests
\* counted that the provider goes on with (llm_inflight_slot).
THEOREM SpecRequestsBounded ==
  ASSUME TotalTimeout, Hold > 0
  PROVE  Spec => []RequestsBounded
  <1>1. LimiterInv /\ [Next]_vars => LimiterInv'
    BY LimiterStep
  <1>2. LimiterInv => RequestsBounded
    BY LimiterInvBounds
  <1>. QED
    BY LimiterInit, <1>1, <1>2, PTL DEF Spec
=============================================================================
