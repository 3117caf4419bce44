-------------------------- MODULE LiveState_proofs --------------------------
(***************************************************************************)
(* The live-status file for every number of writers, slots and owners: the *)
(* lock, the unlocked look, the copy and the rename implement LiveSlots,   *)
(* where a call is one atomic step.  The inductive invariant is that the   *)
(* holder of the lock is the only writer past it, and that its copy was    *)
(* made from the file as it still is.                                      *)
(***************************************************************************)
EXTENDS LiveState, TLAPS

IndInv == TypeOK /\ HolderIsCurrent

\* A call leaves a state behind that is again a state.
LEMMA AfterType ==
  ASSUME NEW s \in State, NEW c \in Calls
  PROVE  After(s, c) \in State
  BY DEF After, State, Entry, Calls

LEMMA InitInv == Init => IndInv
  BY LiveStateAssumption DEF Init, IndInv, TypeOK, HolderIsCurrent, State, Empty, Calls

LEMMA StepInv ==
  ASSUME IndInv, [Next]_vars
  PROVE  IndInv'
  <1> USE LiveStateAssumption
  <1>1. ASSUME NEW w \in Writer, NEW c \in Calls, Begin(w, c)
        PROVE  IndInv'
    BY <1>1 DEF IndInv, TypeOK, HolderIsCurrent, Begin, Calls
  <1>2. ASSUME NEW w \in Writer, NEW b \in Binding, NEW d \in Data, BeginObserve(w, b, d)
        PROVE  IndInv'
    BY <1>2 DEF IndInv, TypeOK, HolderIsCurrent, BeginObserve, Calls
  <1>3. ASSUME NEW w \in Writer, Peek(w)
        PROVE  IndInv'
    BY <1>3 DEF IndInv, TypeOK, HolderIsCurrent, Peek, Calls
  <1>4. ASSUME NEW w \in Writer, Lock(w)
        PROVE  IndInv'
    BY <1>4 DEF IndInv, TypeOK, HolderIsCurrent, Lock
  <1>5. ASSUME NEW w \in Writer, Read(w)
        PROVE  IndInv'
    <2>1. call[w] \in Calls
      BY <1>5 DEF IndInv, TypeOK, HolderIsCurrent, Read
    <2>2. After(file, call[w]) \in State
      BY <2>1, AfterType DEF IndInv, TypeOK
    <2>3. TypeOK'
      BY <1>5, <2>2 DEF IndInv, TypeOK, Read
    <2>4. HolderIsCurrent'
      BY <1>5 DEF IndInv, TypeOK, HolderIsCurrent, Read
    <2>. QED
      BY <2>3, <2>4 DEF IndInv
  <1>6. ASSUME NEW w \in Writer, Replace(w)
        PROVE  IndInv'
    BY <1>6 DEF IndInv, TypeOK, HolderIsCurrent, Replace
  <1>7. ASSUME NEW w \in Writer, Unlock(w)
        PROVE  IndInv'
    BY <1>7 DEF IndInv, TypeOK, HolderIsCurrent, Unlock, Empty, State
  <1>8. ASSUME NEW w \in Writer, Crash(w)
        PROVE  IndInv'
    BY <1>8 DEF IndInv, TypeOK, HolderIsCurrent, Crash, Empty, State
  <1>9. CASE UNCHANGED vars
    BY <1>9 DEF IndInv, TypeOK, HolderIsCurrent, vars
  <1>. QED
    BY <1>1, <1>2, <1>3, <1>4, <1>5, <1>6, <1>7, <1>8, <1>9 DEF Next, Start, Step

LEMMA SpecInv == Spec => []IndInv
  <1>1. IndInv /\ [Next]_vars => IndInv'
    BY StepInv
  <1>. QED
    BY InitInv, <1>1, PTL DEF Spec

\* The state file, the lock and the writers keep their types.
THEOREM SpecTypeOK == Spec => []TypeOK
  <1>1. IndInv => TypeOK
    BY DEF IndInv
  <1>. QED
    BY SpecInv, <1>1, PTL

\* One holder at a time, and what it will rename into place is the file with its own call
\* done (live_state.py, _locked_state).
THEOREM SpecHolderIsCurrent == Spec => []HolderIsCurrent
  <1>1. IndInv => HolderIsCurrent
    BY DEF IndInv
  <1>. QED
    BY SpecInv, <1>1, PTL

-----------------------------------------------------------------------------
(* The refinement.                                                         *)

\* The abstract call of writer w.
Visible == [w \in Writer |-> IF pc[w] = "peek" THEN NoCall ELSE call[w]]

LEMMA InitRefines == Init => Abstract!Init
  BY DEF Init, Empty, Abstract!Init

LEMMA StepRefines ==
  ASSUME IndInv, [Next]_vars
  PROVE  [Abstract!Next]_(Abstract!slotVars)
  <1> USE LiveStateAssumption
  <1>1. ASSUME NEW w \in Writer, NEW c \in Calls, Begin(w, c)
        PROVE  Abstract!Begin(w, c)
    BY <1>1 DEF IndInv, TypeOK, HolderIsCurrent, Begin, Abstract!Begin, Calls
  <1>2. ASSUME NEW w \in Writer, NEW b \in Binding, NEW d \in Data, BeginObserve(w, b, d)
        PROVE  UNCHANGED Abstract!slotVars
    BY <1>2 DEF IndInv, TypeOK, HolderIsCurrent, BeginObserve, Abstract!slotVars
  <1>3. ASSUME NEW w \in Writer, Peek(w)
        PROVE  \E c \in Abstract!Calls : Abstract!Begin(w, c)
    <2> DEFINE k == IF Owns(file["execution"], call[w].binding) THEN "update" ELSE "activate"
               c == [call[w] EXCEPT !.kind = k]
    <2>1. call[w] \in Calls
      BY <1>3 DEF IndInv, TypeOK, HolderIsCurrent, Peek
    <2>2. k \in {"activate", "update"}
      OBVIOUS
    <2>3. c \in Abstract!Calls
      <3> HIDE DEF k
      <3>. QED
        BY <2>1, <2>2 DEF Calls, Abstract!Calls
    <2>4. call' = [call EXCEPT ![w] = c]
      BY <1>3 DEF Peek
    <2>5. Abstract!Begin(w, c)
      <3> HIDE DEF c
      <3>. QED
        BY <1>3, <2>4 DEF IndInv, TypeOK, HolderIsCurrent, Peek, Abstract!Begin
    <2>. HIDE DEF c
    <2>. QED
      BY <2>3, <2>5 DEF Abstract!Begin
  <1>4. ASSUME NEW w \in Writer, Lock(w) \/ Read(w)
        PROVE  UNCHANGED Abstract!slotVars
    BY <1>4 DEF IndInv, TypeOK, HolderIsCurrent, Lock, Read, Abstract!slotVars
  <1>5. ASSUME NEW w \in Writer, Replace(w)
        PROVE  Abstract!TakeEffect(w)
    <2>1. call[w] \in Calls /\ file' = After(file, call[w])
      BY <1>5 DEF IndInv, TypeOK, HolderIsCurrent, Replace
    <2>2. Abstract!After(file, call[w]) = After(file, call[w])
      BY DEF Abstract!After, After, Abstract!Owns, Owns
    <2>. QED
      BY <1>5, <2>1, <2>2 DEF IndInv, TypeOK, HolderIsCurrent, Replace, Abstract!TakeEffect
  <1>6. ASSUME NEW w \in Writer, Unlock(w)
        PROVE  Abstract!End(w)
    BY <1>6 DEF IndInv, TypeOK, HolderIsCurrent, Unlock, Abstract!End
  <1>7. ASSUME NEW w \in Writer, Crash(w), pc[w] # "peek"
        PROVE  Abstract!End(w)
    BY <1>7 DEF IndInv, TypeOK, HolderIsCurrent, Crash, Abstract!End
  <1>8. ASSUME NEW w \in Writer, Crash(w), pc[w] = "peek"
        PROVE  UNCHANGED Abstract!slotVars
    BY <1>8 DEF IndInv, TypeOK, HolderIsCurrent, Crash, Abstract!slotVars
  <1>9. CASE UNCHANGED vars
    BY <1>9 DEF vars, Abstract!slotVars
  <1>10. ASSUME NEW w \in Writer, Start(w)
         PROVE  [Abstract!Next]_(Abstract!slotVars)
    <2>1. Calls = Abstract!Calls
      BY DEF Calls, Abstract!Calls
    <2>. QED
      BY <1>10, <1>1, <1>2, <2>1 DEF Start, Abstract!Next
  <1>11. ASSUME NEW w \in Writer, Step(w)
         PROVE  [Abstract!Next]_(Abstract!slotVars)
    <2>1. CASE Peek(w)
      BY <2>1, <1>3 DEF Abstract!Next, Abstract!Begin
    <2>2. CASE Lock(w) \/ Read(w)
      BY <2>2, <1>4
    <2>3. CASE Replace(w)
      BY <2>3, <1>5 DEF Abstract!Next
    <2>4. CASE Unlock(w)
      BY <2>4, <1>6 DEF Abstract!Next
    <2>. QED
      BY <1>11, <2>1, <2>2, <2>3, <2>4 DEF Step
  <1>12. ASSUME NEW w \in Writer, Crash(w)
         PROVE  [Abstract!Next]_(Abstract!slotVars)
    BY <1>12, <1>7, <1>8 DEF Abstract!Next
  <1>. QED
    BY <1>9, <1>10, <1>11, <1>12 DEF Next

\* Lock, copy and rename are one atomic step per call, whatever other writers do and
\* wherever a process dies.
THEOREM SpecImplementsLiveSlots == Spec => ImplementsLiveSlots
  <1>1. IndInv /\ [Next]_vars => [Abstract!Next]_(Abstract!slotVars)
    BY StepRefines
  <1>. QED
    BY SpecInv, InitRefines, <1>1, PTL DEF Spec, ImplementsLiveSlots, Abstract!Spec
=============================================================================
