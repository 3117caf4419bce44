--------------------------- MODULE DebugLoop_proofs ---------------------------
(***************************************************************************)
(* What DebugLoop promises for every number of scopes, every set of plans  *)
(* and every bound: which certificates a call may rely on, that nothing is *)
(* waited for again without edits, and that a flow decision is planned     *)
(* with before it is marked and never after.                               *)
(***************************************************************************)
EXTENDS DebugLoop, TLAPS

\* The larger and the smaller of two numbers.
LEMMA MaxOfTwo ==
    ASSUME NEW a \in Nat, NEW b \in Nat
    PROVE  /\ Max({a, b}) \in {a, b}
           /\ Max({a, b}) >= a
           /\ Max({a, b}) >= b
<1> DEFINE bigger == IF a >= b THEN a ELSE b
<1>1. bigger \in {a, b} /\ \A y \in {a, b} : bigger >= y
  OBVIOUS
<1> QED
  BY <1>1 DEF Max

LEMMA MinOfTwo ==
    ASSUME NEW a \in Nat, NEW b \in Nat
    PROVE  /\ Min({a, b}) \in {a, b}
           /\ Min({a, b}) <= a
           /\ Min({a, b}) <= b
<1> DEFINE smaller == IF a <= b THEN a ELSE b
<1>1. smaller \in {a, b} /\ \A y \in {a, b} : smaller <= y
  OBVIOUS
<1> QED
  BY <1>1 DEF Min

-----------------------------------------------------------------------------
(* The files.                                                              *)

Content == [certified : 0 .. LastScope, bound : BOOLEAN]

LEMMA WriteOne ==
    ASSUME file \in [Path -> Content], NEW p \in Path, NEW c \in Content, Write(p, c)
    PROVE  /\ file' \in [Path -> Content]
           /\ file'[p] = c
           /\ \A q \in Path \ {p} : file'[q] = file[q]
<1> QED
  BY DEF Write

-----------------------------------------------------------------------------
(* Which certificates a call relies on.                                    *)

LoopTypes ==
    /\ file \in [Path -> Content]
    /\ {active, reported, reused} \subseteq 0 .. LastScope
    /\ scope \in Scope
    /\ source \in Path
    /\ current \in Path
    /\ src \in Path

\* The scopes counted as reused are trusted in file p.
Trusts(p) == reused <= file[p].certified

\* ReusedIsTrusted is not inductive: the loop leaves its current state while it plans and
\* executes, and comes back with one of the files written on the way.
TrustInv ==
    /\ LoopTypes
    /\ pc # "down" => Trusts(current)
    /\ pc = "plan" => Trusts("verification")
    /\ pc \in {"mark", "planned"} => Trusts("repair")
    /\ pc = "execute" => Trusts(src)
    /\ pc \in {"replan", "archive"} => Trusts("execution")
    /\ pc = "archive" /\ disposition = "replanned" => Trusts("repair")
    /\ (pc = "replan" \/ (pc = "archive" /\ disposition # "replanned")) /\ "gates" \in plan
          => Trusts("input")
    /\ pc = "done" /\ status = "pass" => file[current].certified = LastScope

LEMMA TrustInit == Init => TrustInv
<1> QED
  BY DebugLoopAssumption DEF Init, TrustInv, LoopTypes, Content, Path, Scope

LEMMA TrustEnter == TrustInv /\ Enter => TrustInv'
<1> SUFFICES ASSUME TrustInv, NEW live \in 0 .. LastScope, IsLivePrefix(live),
                    EnterWith(Max({live, CheckpointPrefix}))
             PROVE  TrustInv'
  BY DEF Enter
<1> DEFINE n == Max({live, CheckpointPrefix})
           certified == file[source].certified
<1>1. certified \in 0 .. LastScope /\ live <= certified
  BY DEF TrustInv, LoopTypes, Content, IsLivePrefix, Certified
<1>2. active \in Nat /\ reported \in Nat /\ certified \in Nat /\ LastScope \in Nat
  BY <1>1, DebugLoopAssumption DEF TrustInv, LoopTypes
<1>3. CheckpointPrefix \in Nat /\ CheckpointPrefix <= certified
  <2>1. Min({active, certified}) \in Nat /\ Min({active, certified}) <= certified
    BY <1>2, MinOfTwo
  <2>2. Min({reported, certified}) \in Nat /\ Min({reported, certified}) <= certified
    BY <1>2, MinOfTwo
  <2> QED
    BY <2>1, <2>2 DEF CheckpointPrefix
<1>4. n \in 0 .. LastScope /\ n <= certified
  <2> HIDE DEF certified
  <2>1. live \in Nat
    OBVIOUS
  <2>2. n \in {live, CheckpointPrefix}
    BY <1>3, <2>1, MaxOfTwo
  <2> QED
    BY <1>1, <1>2, <1>3, <2>1, <2>2
<1> HIDE DEF n
<1>5. /\ reused' = n /\ active' = n /\ current' = source /\ file' = file /\ source' = source
      /\ pc' \in {"top", "done"}
      /\ reported' \in {n, reported}
      /\ src' \in {"input", src}
      /\ (n < LastScope /\ scope' = n + 1) \/ scope' = 1
      /\ pc' = "done" /\ status' = "pass" => n = LastScope
  BY <1>4, DebugLoopAssumption DEF EnterWith, LoopReturns, RepairLoopReturns, n, inner
<1>6. LoopTypes'
  BY <1>4, <1>5, DebugLoopAssumption DEF TrustInv, LoopTypes, Scope, Path
<1> QED
  BY <1>1, <1>4, <1>5, <1>6 DEF TrustInv, Trusts

\* Steps that write no file and end the call without a pass, keeping its state.
LEMMA TrustFinish ==
    ASSUME TrustInv, pc # "down", Finish("needs_repair"),
           UNCHANGED <<file, active, source, current, reused>>
    PROVE  TrustInv'
<1>1. LoopTypes'
  BY DebugLoopAssumption DEF TrustInv, LoopTypes, Finish, LoopReturns, RepairLoopReturns, Scope, Path
<1> QED
  BY <1>1 DEF TrustInv, Finish, Trusts

LEMMA TrustReturn ==
    ASSUME TrustInv, NEW p \in Path, Return(p), file' \in [Path -> Content]
    PROVE  TrustInv'
<1>1. LoopTypes'
  BY DebugLoopAssumption DEF TrustInv, LoopTypes, Return, LoopReturns, RepairLoopReturns, Scope, Path
<1> QED
  BY <1>1 DEF TrustInv, Return

LEMMA TrustVerify == TrustInv /\ Verify => TrustInv'
<1> SUFFICES ASSUME TrustInv, Verify
             PROVE  TrustInv'
  OBVIOUS
<1> USE DEF LoopTypes, Trusts
<1>0. /\ pc = "top" /\ current \in Path /\ "verification" \in Path
      /\ file[current] \in Content
  BY DEF Verify, Verifying, PrepareFails, VerifyReady, VerifyFails, TrustInv, Path
<1>1. CASE PrepareFails
  BY <1>1, <1>0 DEF PrepareFails, TrustInv, disk, inner
<1>2. CASE VerifyFails
  <2>1. /\ file' \in [Path -> Content]
        /\ file'["verification"] = file[current]
        /\ \A q \in Path \ {"verification"} : file'[q] = file[q]
    BY <1>0, <1>2, WriteOne DEF VerifyFails, TrustInv
  <2> QED
    BY <1>0, <1>2, <2>1 DEF VerifyFails, TrustInv, outer, inner
<1>3. CASE VerifyReady
  <2> DEFINE m == Max({file[current].certified, scope})
  <2>1. /\ m \in 0 .. LastScope
        /\ m >= file[current].certified
        /\ m >= scope
        /\ scope \in 1 .. LastScope
        /\ reused <= file[current].certified
        /\ reused <= m
    <3>1. /\ file[current].certified \in 0 .. LastScope
          /\ scope \in 1 .. LastScope
          /\ reused <= file[current].certified
          /\ reused \in 0 .. LastScope
      BY <1>0, DebugLoopAssumption DEF TrustInv, Content, Scope
    <3>2. file[current].certified \in Nat /\ scope \in Nat /\ reused \in Nat
      BY <3>1, DebugLoopAssumption
    <3> QED
      BY <3>1, <3>2, MaxOfTwo
  <2> HIDE DEF m
  <2> DEFINE new == [file[current] EXCEPT !.certified = m]
  <2>2. new \in Content /\ new.certified = m
    BY <1>0, <2>1 DEF Content
  <2>3. Write("verification", new)
    BY <1>3 DEF VerifyReady, m
  <2> HIDE DEF new
  <2>4. /\ file' \in [Path -> Content]
        /\ file'["verification"].certified = m
    <3>1. file \in [Path -> Content]
      BY DEF TrustInv
    <3>2. file' \in [Path -> Content] /\ file'["verification"] = new
      BY <1>0, <2>2, <2>3, <3>1, WriteOne
    <3> QED
      BY <2>2, <3>2
  <2>5. current' = "verification" /\ source' = source
    BY <1>3 DEF VerifyReady
  <2>6. CASE scope = LastScope
    <3>1. pc' = "done" /\ reused' = reused /\ active' = active /\ reported' = reused
          /\ scope' = 1 /\ src' = "input"
      BY <1>3, <2>6 DEF VerifyReady, Finish, LoopReturns, RepairLoopReturns
    <3>2. m = LastScope
      BY <2>1, <2>6, DebugLoopAssumption
    <3>3. LoopTypes'
      BY <2>4, <2>5, <3>1, <1>0, DebugLoopAssumption DEF TrustInv, Scope, Path
    <3> QED
      BY <2>4, <2>5, <3>1, <3>2, <3>3, <2>1, DebugLoopAssumption DEF TrustInv
  <2>7. CASE scope # LastScope
    <3>1. /\ pc' = pc /\ scope' = scope + 1 /\ reused' = Max({reused, scope})
          /\ active' = reused' /\ reported' = reported /\ src' = src
      BY <1>3, <2>7 DEF VerifyReady, inner
    <3>2. reused \in 0 .. LastScope /\ reused \in Nat /\ scope \in Nat
      BY <2>1, DebugLoopAssumption DEF TrustInv
    <3>3. reused' \in {reused, scope} /\ reused' <= m /\ reused' \in 0 .. LastScope
      <4>1. Max({reused, scope}) \in {reused, scope}
        BY <3>2, MaxOfTwo
      <4> QED
        BY <3>1, <3>2, <4>1, <2>1
    <3>4. LoopTypes'
      BY <2>1, <2>4, <2>5, <2>7, <3>1, <3>3, DebugLoopAssumption DEF TrustInv, Scope, Path
    <3> QED
      BY <1>0, <2>4, <2>5, <3>1, <3>3, <3>4 DEF TrustInv
  <2> QED
    BY <2>6, <2>7
<1> QED
  BY <1>1, <1>2, <1>3 DEF Verify

LEMMA TrustPlan == TrustInv /\ PlanStep => TrustInv'
<1> SUFFICES ASSUME TrustInv, PlanStep
             PROVE  TrustInv'
  OBVIOUS
<1> USE DEF LoopTypes, Trusts
<1>1. ASSUME NEW p \in NewPlan, PlanRepair(p)
      PROVE  TrustInv'
  <2>1. /\ file' \in [Path -> Content]
        /\ file'["repair"] = file["verification"]
        /\ \A q \in Path \ {"repair"} : file'[q] = file[q]
    BY <1>1, WriteOne DEF PlanRepair, TrustInv, Path
  <2> QED
    BY <1>1, <2>1 DEF PlanRepair, TrustInv, outer, inner, Path
<1>2. CASE MarkConsumed
  BY <1>2 DEF MarkConsumed, TrustInv, inner
<1>3. CASE MarkRaises
  BY <1>3, TrustFinish DEF MarkRaises
<1>4. CASE SkipRepair
  BY <1>4 DEF SkipRepair, TrustInv, disk, inner, Path
<1> QED
  BY <1>1, <1>2, <1>3, <1>4 DEF PlanStep

LEMMA TrustExecute ==
    ASSUME TrustInv, NEW res, Execute(res)
    PROVE  TrustInv'
<1> USE DEF LoopTypes, Trusts
<1> DEFINE executed == [file[src] EXCEPT !.bound = TRUE]
<1>1. /\ pc = "execute" /\ pc' \in {"replan", "archive"} /\ plan' = plan
      /\ UNCHANGED <<active, reported, source, current, reused, scope, src>>
  BY DEF Execute, outer
<1>2. file[src] \in Content /\ executed \in Content
      /\ executed.certified = file[src].certified
      /\ "execution" \in Path /\ "input" \in Path
  BY DEF TrustInv, Content, Path
<1>3. /\ file' \in [Path -> Content]
      /\ file'["execution"] = executed
      /\ "gates" \in plan => file'["input"] = file[src]
      /\ \A q \in Path : file'[q] \in {executed, file[src], file[q]}
  <2>1. CASE "gates" \in plan
    BY <1>2, <2>1 DEF Execute, TrustInv
  <2>2. CASE "gates" \notin plan
    <3>1. Write("execution", executed)
      BY <2>2 DEF Execute
    <3> HIDE DEF executed
    <3> QED
      BY <1>2, <2>2, <3>1, WriteOne DEF TrustInv
  <2> QED
    BY <2>1, <2>2
<1>4. disposition' # "replanned"
  BY DEF Execute, Disposition
<1> HIDE DEF executed
<1>5. Trusts("execution")' /\ ("gates" \in plan => Trusts("input")') /\ Trusts(current)'
  BY <1>1, <1>2, <1>3 DEF TrustInv
<1> QED
  BY <1>1, <1>3, <1>4, <1>5 DEF TrustInv

LEMMA TrustRepair == TrustInv /\ RepairStep => TrustInv'
<1> SUFFICES ASSUME TrustInv, RepairStep
             PROVE  TrustInv'
  OBVIOUS
<1> USE DEF LoopTypes, Trusts
<1>1. CASE EnterRepairLoop
  BY <1>1 DEF EnterRepairLoop, TrustInv, disk, outer, Path
<1>2. ASSUME NEW res \in Executions, Execute(res)
      PROVE  TrustInv'
  BY <1>2, TrustExecute
<1>3. ASSUME NEW p \in NewPlan, Replan(p)
      PROVE  TrustInv'
  <2>1. /\ file' \in [Path -> Content]
        /\ file'["repair"] = file["execution"]
        /\ \A q \in Path \ {"repair"} : file'[q] = file[q]
    BY <1>3, WriteOne DEF Replan, TrustInv, Path
  <2> QED
    BY <1>3, <2>1 DEF Replan, TrustInv, outer, Path
<1>4. CASE ReplanRaises
  <2>1. /\ pc = "replan" /\ pc' = "archive" /\ disposition' = "blocked"
        /\ UNCHANGED <<file, plan, active, reported, source, current, reused, scope, src>>
    BY <1>4 DEF ReplanRaises, disk, outer
  <2> QED
    BY <2>1 DEF TrustInv
<1>5. CASE GoesOn
  BY <1>5 DEF GoesOn, Archive, TrustInv, Path
<1>6. CASE Completes
  <2>1. /\ pc = "archive" /\ disposition = "complete" /\ pc' = "top"
        /\ current' \in {"input", "execution"}
        /\ current' = "input" => "gates" \in plan
        /\ src' = "input"
        /\ UNCHANGED <<file, active, reported, source, reused, scope>>
    BY <1>6 DEF Completes, Archive, RepairLoopReturns
  <2> QED
    BY <2>1 DEF TrustInv, Path
<1>7. CASE Blocks
  BY <1>7, TrustFinish DEF Blocks, Archive
<1> QED
  BY <1>1, <1>2, <1>3, <1>4, <1>5, <1>6, <1>7 DEF RepairStep

LEMMA TrustOutside == TrustInv /\ Outside => TrustInv'
<1> SUFFICES ASSUME TrustInv, Outside
             PROVE  TrustInv'
  OBVIOUS
<1>1. CASE Crash
  BY <1>1, TrustReturn DEF Crash, TrustInv, LoopTypes
<1>2. CASE Retry
  BY <1>2, TrustReturn DEF Retry, TrustInv, LoopTypes
<1>3. CASE Regenerate
  <2>1. file' \in [Path -> Content]
    BY <1>3 DEF Regenerate, Write, TrustInv, LoopTypes, Content, Path
  <2> QED
    BY <1>3, <2>1, TrustReturn DEF Regenerate, Path
<1>4. ASSUME NEW d \in Decision, Decide(d)
      PROVE  TrustInv'
  BY <1>4 DEF Decide, TrustInv, LoopTypes, Trusts, outer, inner
<1> QED
  BY <1>1, <1>2, <1>3, <1>4 DEF Outside

LEMMA TrustStep == TrustInv /\ [Next]_vars => TrustInv'
<1> SUFFICES ASSUME TrustInv, [Next]_vars
             PROVE  TrustInv'
  OBVIOUS
<1>1. CASE LoopLimit
  BY <1>1, TrustFinish DEF LoopLimit
<1>2. CASE Raise
  BY <1>2, TrustFinish DEF Raise
<1>3. CASE UNCHANGED vars
  BY <1>3 DEF vars, disk, outer, inner, TrustInv, LoopTypes, Trusts
<1> QED
  BY <1>1, <1>2, <1>3, TrustEnter, TrustVerify, TrustPlan, TrustRepair, TrustOutside
     DEF Next, Internal

\* A call passes on certificates only that the state it hands on trusts, however often the
\* loop was killed, called again, or came back from a regeneration of the sources.
THEOREM SpecReusedIsTrusted == Spec => []ReusedIsTrusted
<1>1. TrustInv => ReusedIsTrusted
  BY DEF TrustInv, ReusedIsTrusted, Trusts
<1> QED
  BY <1>1, TrustInit, TrustStep, PTL DEF Spec

-----------------------------------------------------------------------------
(* What the loop waits for.                                                *)

\* What was waited for is in the archive, and a wait the loop goes on after is not.
WaitInv ==
    /\ waits \in [Frontier -> {0, 1}]
    /\ \A f \in Frontier : waits[f] = 1 => f \in archive
    /\ pc = "archive" /\ disposition = "continue"
          => /\ \A r \in Idle(results) : r.seen \notin archive
             /\ Of({"rechecked"}, results) = {}

\* A wait without edits goes on only when it was not observed before.
LEMMA FreshWait ==
    ASSUME NEW res, NEW prior, Disposition(res, prior) = "continue"
    PROVE  /\ \A r \in Idle(res) : r.seen \notin prior
           /\ Of({"rechecked"}, res) = {}
<1> QED
  BY DEF Disposition, Idle, Of

LEMMA ObservedWaits ==
    ASSUME NEW res, Of({"rechecked"}, res) = {}, NEW r \in Waiting(res), r.seen \in Frontier
    PROVE  r.seen \in Observed(res)
<1> QED
  BY DebugLoopAssumption DEF Observed

LEMMA WaitInit == Init => WaitInv
<1> QED
  BY DEF Init, WaitInv

LEMMA WaitGoesOn == WaitInv /\ GoesOn => WaitInv'
<1> SUFFICES ASSUME WaitInv, GoesOn
             PROVE  WaitInv'
  OBVIOUS
<1> DEFINE met(f)  == disposition = "continue" /\ \E r \in Waiting(results) : r.seen = f
           idle(f) == \E r \in Idle(results) : r.seen = f
           count(f) == IF ~met(f) THEN waits[f]
                       ELSE IF idle(f) THEN Min({2, waits[f] + 1}) ELSE Max({1, waits[f]})
<1>1. /\ archive' = archive \cup Observed(results)
      /\ waits' = [f \in Frontier |-> count(f)]
      /\ pc = "archive" /\ pc' = "execute"
  BY DEF GoesOn, Archive
<1>2. ASSUME NEW f \in Frontier, met(f)
      PROVE  waits'[f] = 1 /\ f \in archive'
  <2>1. f \in archive'
    BY <1>1, <1>2, ObservedWaits DEF WaitInv
  <2>2. CASE idle(f)
    <3>1. f \notin archive
      BY <1>1, <1>2, <2>2 DEF WaitInv
    <3>2. waits[f] = 0
      BY <3>1 DEF WaitInv
    <3>3. Min({2, 1}) = 1
      BY MinOfTwo
    <3>. QED
      BY <1>1, <1>2, <2>1, <2>2, <3>2, <3>3
  <2>3. CASE ~idle(f)
    <3>1. Max({1, 0}) = 1 /\ Max({1, 1}) = 1
      BY MaxOfTwo
    <3>2. waits[f] \in {0, 1}
      BY DEF WaitInv
    <3>. QED
      BY <1>1, <1>2, <2>1, <2>3, <3>1, <3>2
  <2> QED
    BY <2>2, <2>3
<1>3. ASSUME NEW f \in Frontier, ~met(f)
      PROVE  waits'[f] = waits[f] /\ (f \in archive => f \in archive')
  BY <1>1, <1>3
<1> HIDE DEF met, idle
<1>4. \A f \in Frontier : waits'[f] \in {0, 1} /\ (waits'[f] = 1 => f \in archive')
  BY <1>2, <1>3 DEF WaitInv
<1>5. waits' \in [Frontier -> {0, 1}]
  BY <1>1, <1>4
<1> QED
  BY <1>1, <1>4, <1>5 DEF WaitInv

\* The steps that neither wait nor archive.
LEMMA WaitUnchanged ==
    ASSUME WaitInv, waits' = waits, archive' = archive,
           pc' # "archive" \/ disposition' # "continue"
    PROVE  WaitInv'
<1> QED
  BY DEF WaitInv

LEMMA WaitRepair == WaitInv /\ RepairStep => WaitInv'
<1> SUFFICES ASSUME WaitInv, RepairStep
             PROVE  WaitInv'
  OBVIOUS
<1>1. CASE EnterRepairLoop
  BY <1>1, WaitUnchanged DEF EnterRepairLoop, disk, ghost
<1>2. ASSUME NEW res \in Executions, Execute(res)
      PROVE  WaitInv'
  <2>1. /\ waits' = waits /\ archive' = archive /\ results' = res
        /\ disposition' = Disposition(res, archive)
    BY <1>2 DEF Execute
  <2>2. disposition' = "continue" => /\ \A r \in Idle(res) : r.seen \notin archive
                                     /\ Of({"rechecked"}, res) = {}
    BY <2>1, FreshWait
  <2>3. pc' = "archive" /\ disposition' = "continue"
           => /\ \A r \in Idle(results') : r.seen \notin archive'
              /\ Of({"rechecked"}, results') = {}
    BY <2>1, <2>2
  <2> QED
    BY <2>1, <2>3 DEF WaitInv, Idle, Of
<1>3. ASSUME NEW p \in NewPlan, Replan(p)
      PROVE  WaitInv'
  BY <1>3, WaitUnchanged DEF Replan, ghost
<1>4. CASE ReplanRaises
  BY <1>4, WaitUnchanged DEF ReplanRaises, disk
<1>5. CASE Completes \/ Blocks
  <2>1. waits' = waits /\ archive \subseteq archive' /\ pc' # "archive"
    BY <1>5 DEF Completes, Blocks, Archive, Finish
  <2> QED
    BY <2>1 DEF WaitInv
<1> QED
  BY <1>1, <1>2, <1>3, <1>4, <1>5, WaitGoesOn DEF RepairStep

LEMMA WaitStep == WaitInv /\ [Next]_vars => WaitInv'
<1> SUFFICES ASSUME WaitInv, [Next]_vars
             PROVE  WaitInv'
  OBVIOUS
<1>1. CASE Enter
  <2>1. waits' = waits /\ archive' = archive /\ pc' # "archive"
    BY <1>1 DEF Enter, EnterWith, ghost
  <2> QED
    BY <2>1, WaitUnchanged
<1>2. CASE LoopLimit \/ Raise
  BY <1>2, WaitUnchanged DEF LoopLimit, Raise, Finish, ghost
<1>3. CASE Verify
  <2>1. waits' = waits /\ archive' = archive /\ pc' # "archive"
    BY <1>3 DEF Verify, PrepareFails, VerifyReady, VerifyFails, Verifying, Finish, disk, ghost
  <2> QED
    BY <2>1, WaitUnchanged
<1>4. CASE PlanStep
  <2>1. waits' = waits /\ archive' = archive /\ pc' # "archive"
    BY <1>4 DEF PlanStep, PlanRepair, MarkConsumed, MarkRaises, SkipRepair, Finish, disk, ghost
  <2> QED
    BY <2>1, WaitUnchanged
<1>5. CASE Outside
  <2>1. waits' = waits /\ archive' = archive /\ pc' # "archive"
    BY <1>5 DEF Outside, Crash, Retry, Regenerate, Decide, Return, ghost
  <2> QED
    BY <2>1, WaitUnchanged
<1>6. CASE UNCHANGED vars
  BY <1>6 DEF vars, disk, inner, ghost, WaitInv, Idle, Of
<1> QED
  BY <1>1, <1>2, <1>3, <1>4, <1>5, <1>6, WaitRepair DEF Next, Internal

\* The repair loop never goes on after waiting again, without edits, for an observation it
\* has waited for in the life of a run, over all its calls and kills.
THEOREM SpecWaitedOnce == Spec => []WaitedOnce
<1>1. WaitInv => WaitedOnce
  BY DEF WaitInv, WaitedOnce
<1> QED
  BY <1>1, WaitInit, WaitStep, PTL DEF Spec

-----------------------------------------------------------------------------
(* The decision of the flow controller.                                    *)

\* HandoffOnce, and what is about to be marked was planned with.
HandoffInv ==
    /\ HandoffOnce
    /\ pc = "mark" => handoff \in planned
    /\ 0 \notin planned

LEMMA HandoffInit == Init => HandoffInv
<1> QED
  BY DEF Init, HandoffInv, HandoffOnce

\* The steps that leave the decisions alone, or forget the one at hand.
LEMMA HandoffUnchanged ==
    ASSUME HandoffInv, consumed' = consumed, planned' = planned,
           handoff' = 0 \/ (handoff' = handoff /\ pc' # "mark"),
           handoff' = 0 => pc' # "mark"
    PROVE  HandoffInv'
<1> QED
  BY DEF HandoffInv, HandoffOnce

LEMMA HandoffStep == HandoffInv /\ [Next]_vars => HandoffInv'
<1> SUFFICES ASSUME HandoffInv, [Next]_vars
             PROVE  HandoffInv'
  OBVIOUS
<1>1. CASE Enter
  <2>1. PICK n : EnterWith(n)
    BY <1>1 DEF Enter
  <2>2. handoff' \in {0, Pending} /\ pc' # "mark" /\ consumed' = consumed /\ planned' = planned
    BY <2>1 DEF EnterWith, LoopReturns, ghost
  <2>3. Pending = 0 \/ Pending \notin consumed
    BY DEF Pending
  <2> QED
    BY <2>2, <2>3 DEF HandoffInv, HandoffOnce
<1>2. CASE LoopLimit \/ Raise
  BY <1>2, HandoffUnchanged DEF LoopLimit, Raise, Finish, LoopReturns, ghost
<1>3. CASE Verify
  BY <1>3, HandoffUnchanged
     DEF Verify, PrepareFails, VerifyReady, VerifyFails, Verifying, Finish, LoopReturns, disk,
         outer, ghost
<1>4. ASSUME NEW p \in NewPlan, PlanRepair(p)
      PROVE  HandoffInv'
  <2>1. consumed' = consumed /\ handoff' = handoff /\ planned' = planned \cup ({handoff} \ {0})
    BY <1>4 DEF PlanRepair, outer
  <2>2. pc' = "mark" => handoff # 0
    BY <1>4 DEF PlanRepair
  <2> QED
    BY <2>1, <2>2 DEF HandoffInv, HandoffOnce
<1>5. CASE MarkConsumed
  BY <1>5 DEF MarkConsumed, HandoffInv, HandoffOnce, ghost
<1>6. CASE MarkRaises
  BY <1>6, HandoffUnchanged DEF MarkRaises, Finish, LoopReturns, ghost
<1>7. CASE SkipRepair
  BY <1>7, HandoffUnchanged DEF SkipRepair, disk, ghost
<1>8. CASE RepairStep
  <2>1. consumed' = consumed /\ planned' = planned /\ pc' # "mark"
        /\ handoff' \in {0, handoff}
    BY <1>8
       DEF RepairStep, EnterRepairLoop, Execute, Replan, ReplanRaises, GoesOn, Completes,
           Blocks, Archive, Finish, LoopReturns, disk, outer, ghost
  <2> QED
    BY <2>1, HandoffUnchanged
<1>9. CASE Outside
  <2>1. consumed' = consumed /\ planned' = planned /\ pc' # "mark"
        /\ handoff' \in {0, handoff}
    BY <1>9 DEF Outside, Crash, Retry, Regenerate, Decide, Return, LoopReturns, outer, ghost
  <2> QED
    BY <2>1, HandoffUnchanged
<1>10. CASE UNCHANGED vars
  BY <1>10 DEF vars, disk, outer, ghost, HandoffInv, HandoffOnce
<1> QED
  BY <1>1, <1>2, <1>3, <1>4, <1>5, <1>6, <1>7, <1>8, <1>9, <1>10 DEF Next, Internal, PlanStep

\* A flow decision is marked as consumed only when a plan was made with it, and the loop
\* never holds a consumed one to plan with again.
THEOREM SpecHandoffOnce == Spec => []HandoffOnce
<1>1. HandoffInv => HandoffOnce
  BY DEF HandoffInv
<1> QED
  BY <1>1, HandoffInit, HandoffStep, PTL DEF Spec
=============================================================================
