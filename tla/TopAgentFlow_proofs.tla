------------------------ MODULE TopAgentFlow_proofs ------------------------
(* Theorems about TopAgentFlow, for any number of stages and any requests.  *)
(* The lists of open requests are built with folds and filters, about which *)
(* the provers know nothing: no proof here looks into them.                 *)
EXTENDS TopAgentFlow, TLAPS

-----------------------------------------------------------------------------
(* What is reused passed, and what the flow went on from is still fresh.   *)

\* The parts of the type the proof needs: stages, and the versions of files.
FilesOK ==
    /\ task \in Nat
    /\ writes \in Nat
    /\ states = [s \in Stage |-> states[s]]
    /\ report = [s \in Stage |-> report[s]]
    /\ ckpt = [s \in Stage |-> ckpt[s]]
    /\ outcome = [s \in Stage |-> outcome[s]]
    /\ basis = [s \in Stage |-> basis[s]]
    /\ ahead \in BOOLEAN /\ misled \in BOOLEAN
    /\ ahead => misled

PlaceOK ==
    /\ stage \in Nat /\ carried \in Stage /\ result.next \in Stage
    /\ pc \in {"pick", "saved", "checkpoint", "route"} => stage \in Stage
    /\ pc = "validate" => stage > LastStage
    /\ pc \in {"saved", "checkpoint", "route"} /\ result.reused =>
           Resume /\ result.passed /\ stage # DebugLoop

\* No file and no checkpoint has a version that was not handed out yet, so that what is
\* written next changes the input of the stage that reads it.
VersionsOK ==
    /\ \A s \in Stage : states[s].version \in 0 .. writes
    /\ \A s \in Stage : ckpt[s].input \in 0 .. (IF s = 0 THEN task ELSE writes)

\* A state file descends from its own run, and after a pass its latest transition is
\* promoted.
StatesOK ==
    \A s \in Stage :
        /\ states[s].log \in Seq(BOOLEAN)
        /\ states[s].line = [x \in Stage |-> states[s].line[x]]
        /\ states[s].line[s] = states[s].version
        /\ outcome[s] = "pass" /\ s # DebugLoop => Last(states[s].log)

\* A checkpoint and a report that invite to reuse s.
Inviting(s) == ckpt[s].status = "pass" /\ report[s].status = "ready"

Passed(s) == outcome[s] \in {"pass", "revalidated"} /\ (misled \/ FreshAt(s))

\* As long as the input is that of the checkpoint, what is invited to be reused passed.
\* In the middle of a run the old checkpoint and the old report may still invite, but
\* the stage runs because its input has changed.
InvitedIsGood ==
    /\ \A s \in Stage \ {DebugLoop} : Inviting(s) /\ Unchanged(s) => Passed(s)
    /\ pc = "saved" /\ stage # DebugLoop => ~(Inviting(stage) /\ Unchanged(stage))

\* What the router takes for a pass is one on the present input, and the state it hands on
\* descends from it.
PassedInv ==
    /\ pc \in {"saved", "checkpoint", "route"} /\ result.passed =>
           Passed(stage) /\ states[result.next].line[stage] = LastRun(stage)
    /\ pc = "checkpoint" /\ result.passed => report[stage].status = "ready"
    /\ pc = "route" /\ result.passed => Inviting(stage) /\ Unchanged(stage)

\* Behind the stage at work everything passed on the present input and would be reused, if
\* the flow got there by passes alone.
BehindInv ==
    ~ahead /\ pc \in {"pick", "saved", "checkpoint", "route", "validate"} =>
        \A s \in Stage : s < stage => Passed(s) /\ Inviting(s) /\ Unchanged(s)

\* The stages whose last runs a state handed to t must descend from.  With resuming the flow
\* goes back by reuse, so that only the stage before counts, and the one before the debug
\* loop, the only stage that runs again.
Needed(t) ==
    IF Resume THEN {IF t > DebugLoop THEN DebugLoop - 1 ELSE t - 1} \cap Stage
              ELSE 0 .. t - 1

\* So does what is handed on, to a stage that runs and by one that ran.
HandedInv ==
    ~misled =>
        /\ pc \in {"pick", "saved"} =>
               \/ Current(carried, Needed(stage))
               \/ pc = "pick" /\ Resume /\ stage # DebugLoop /\ Inviting(stage) /\ Unchanged(stage)
        /\ pc \in {"saved", "checkpoint", "route"} /\ ~result.reused =>
               Current(result.next, Needed(stage))

FlowInv ==
    /\ FilesOK
    /\ PlaceOK
    /\ VersionsOK
    /\ StatesOK
    /\ Resume => InvitedIsGood
    /\ PassedInv
    /\ BehindInv
    /\ HandedInv

LEMMA Earlier ==
    ASSUME NEW s \in Stage
    PROVE  /\ s \in Nat
           /\ s # 0 => s - 1 \in Stage
           /\ \A x \in 0 .. s - 1 : x \in Stage /\ x < s
<1>1. LastStage \in Nat
  BY FlowAssumption
<1>. QED
  BY <1>1 DEF Stage

\* What a state must descend from lies behind the stage it is handed to.
LEMMA NeededIsBehind ==
    ASSUME NEW t \in Stage
    PROVE  /\ Needed(t) \subseteq 0 .. t - 1 /\ Needed(t) \subseteq Stage
           /\ t = 0 \/ t - 1 \in Needed(t) \/ (Resume /\ t = DebugLoop + 1)
           /\ t = 0 => Needed(t) = {}
<1>1. /\ t \in Nat /\ t <= DebugLoop + 1 /\ DebugLoop \in Nat \ {0}
      /\ DebugLoop - 1 \in Nat /\ LastStage = DebugLoop + 1
  BY FlowAssumption DEF Stage
<1>2. CASE ~Resume
  BY <1>1, <1>2 DEF Needed, Stage
<1>3. CASE Resume /\ t > DebugLoop
  <2>1. Needed(t) = {DebugLoop - 1} \cap Stage /\ t = DebugLoop + 1
    BY <1>1, <1>3 DEF Needed
  <2>. QED
    BY <1>1, <1>3, <2>1
<1>4. CASE Resume /\ ~(t > DebugLoop)
  <2>1. Needed(t) = {t - 1} \cap Stage
    BY <1>4 DEF Needed
  <2>2. t = 0 => t - 1 \notin Stage
    BY DEF Stage
  <2>3. t # 0 => t - 1 \in Stage /\ t - 1 \in 0 .. t - 1
    BY <1>1 DEF Stage
  <2>. QED
    BY <1>1, <1>4, <2>1, <2>2, <2>3
<1>. QED
  BY <1>2, <1>3, <1>4

LEMMA FlowInvInit == Init => FlowInv
<1> SUFFICES ASSUME Init
             PROVE  FlowInv
  OBVIOUS
<1>0. 0 \in Stage
  BY FlowAssumption DEF Stage
<1>1. FilesOK
  BY DEF Init, FilesOK
<1>2. PlaceOK /\ VersionsOK
  BY <1>0 DEF Init, PlaceOK, VersionsOK, NoResult, NoState
<1>3. StatesOK
  <2>1. \A s \in Stage : states[s] = NoState /\ outcome[s] = "none"
    BY DEF Init
  <2>2. NoState.log \in Seq(BOOLEAN) /\ NoState.version = 0 /\ NoState.line = NoLine
    BY DEF NoState
  <2>3. NoLine = [x \in Stage |-> NoLine[x]] /\ \A s \in Stage : NoLine[s] = 0
    BY DEF NoLine
  <2>. QED
    BY <2>1, <2>2, <2>3 DEF StatesOK
<1>4. InvitedIsGood /\ PassedInv /\ BehindInv /\ HandedInv
  BY DEF Init, InvitedIsGood, Inviting, PassedInv, BehindInv, HandedInv
<1>. QED
  BY <1>1, <1>2, <1>3, <1>4 DEF FlowInv

LEMMA Updated ==
    ASSUME NEW f, f = [s \in Stage |-> f[s]], NEW x \in Stage, NEW e
    PROVE  /\ [f EXCEPT ![x] = e] = [s \in Stage |-> [f EXCEPT ![x] = e][s]]
           /\ [f EXCEPT ![x] = e][x] = e
           /\ \A s \in Stage \ {x} : [f EXCEPT ![x] = e][s] = f[s]
OBVIOUS

\* While the files stay, inputs do.
LEMMA InputsStay ==
    ASSUME UNCHANGED <<task, states>>
    PROVE  \A s \in Stage : Upstream(s)' = Upstream(s) /\ HashedInput(s)' = HashedInput(s)
BY DEF Upstream, HashedInput

\* While the history of a stage and its input stay, so does what is known of it.
LEMMA PassedStays ==
    ASSUME UNCHANGED <<task, states, verified>>, misled => misled', NEW s \in Stage,
           outcome'[s] = outcome[s], basis'[s] = basis[s], Passed(s)
    PROVE  Passed(s)'
BY DEF Passed, FreshAt, LastRun

\* While the files stay, so does what their states descend from.
LEMMA CurrentStays ==
    ASSUME UNCHANGED <<states, verified>>, NEW c, NEW S, Current(c, S)
    PROVE  Current(c, S)'
BY DEF Current, LastRun

\* Nothing behind the stage at work reads what it writes.
LEMMA BehindStays ==
    ASSUME FlowInv, pc \in {"pick", "saved", "checkpoint", "route"},
           stage' = stage, ahead' = ahead, task' = task, misled => misled',
           verified' = verified \/ stage = DebugLoop,
           \A s \in Stage \ {stage} : /\ states'[s] = states[s]
                                      /\ outcome'[s] = outcome[s]
                                      /\ basis'[s] = basis[s]
                                      /\ report'[s] = report[s]
                                      /\ ckpt'[s] = ckpt[s]
    PROVE  BehindInv'
<1>1. stage \in Stage /\ \A s \in Stage : s \in Nat
  BY DEF FlowInv, PlaceOK, Stage
<1>2. ASSUME NEW s \in Stage, s < stage, Passed(s), Inviting(s), Unchanged(s)
      PROVE  (Passed(s) /\ Inviting(s) /\ Unchanged(s))'
  <2>1. s # stage /\ (s # 0 => s - 1 \in Stage \ {stage} /\ s - 1 < stage)
    BY <1>1, <1>2, Earlier
  <2>2. s # 0 => LastRun(s - 1)' = LastRun(s - 1)
    BY <1>1, <2>1 DEF LastRun
  <2>3. Passed(s)'
    BY <1>2, <2>1, <2>2 DEF Passed, FreshAt
  <2>4. Inviting(s)' /\ Unchanged(s)'
    BY <1>2, <2>1 DEF Inviting, Unchanged, HashedInput, Upstream
  <2>. QED
    BY <2>3, <2>4
<1>. QED
  BY <1>2 DEF FlowInv, BehindInv

-----------------------------------------------------------------------------
(* The steps.                                                              *)

\* The router goes on by a pass, not ahead, or the flow was led ahead.
LEMMA GotoStep ==
    ASSUME FlowInv, pc = "route", NEW s \in Nat, Goto(s),
           ahead' \in BOOLEAN, misled' \in BOOLEAN, ahead' => misled', misled => misled',
           ~ahead' => ~ahead /\ (s <= stage \/ (s = stage + 1 /\ result.passed)),
           s = stage + 1 \/ ~result.reused
    PROVE  FlowInv'
<1>0. /\ UNCHANGED <<task, states, report, ckpt, writes, result, outcome, basis, verified>>
      /\ stage' = s /\ pc' = IF s > LastStage THEN "validate" ELSE "pick"
      /\ carried' = result.next
  BY DEF Goto, files
<1>1. FilesOK' /\ PlaceOK' /\ VersionsOK' /\ StatesOK'
  BY <1>0, FlowAssumption DEF FlowInv, FilesOK, PlaceOK, VersionsOK, StatesOK, Stage
<1>2. \A x \in Stage : /\ Inviting(x)' = Inviting(x) /\ Unchanged(x)' = Unchanged(x)
                       /\ Passed(x) => Passed(x)'
  BY <1>0, PassedStays, InputsStay DEF Inviting, Unchanged
<1>3. (Resume => InvitedIsGood)'
  BY <1>0, <1>2 DEF FlowInv, InvitedIsGood
<1>4. PassedInv'
  BY <1>0 DEF PassedInv
<1>5. BehindInv'
  <2>1. ASSUME ~ahead', NEW x \in Stage, x < s
        PROVE  Passed(x) /\ Inviting(x) /\ Unchanged(x)
    <3>1. x \in Nat /\ stage \in Nat
      BY DEF FlowInv, PlaceOK, Stage
    <3>2. x < stage \/ (x = stage /\ result.passed)
      BY <2>1, <3>1
    <3>. QED
      BY <2>1, <3>2 DEF FlowInv, PassedInv, BehindInv
  <2>. QED
    BY <1>0, <1>2, <2>1 DEF BehindInv
<1>6. ASSUME ~misled', s \in Stage
      PROVE  \/ Current(result.next, Needed(s))
             \/ Resume /\ s # DebugLoop /\ Inviting(s) /\ Unchanged(s)
  <2>0. /\ stage \in Stage /\ stage \in Nat /\ ~misled /\ ~ahead
        /\ s <= stage \/ (s = stage + 1 /\ result.passed)
        /\ stage <= DebugLoop + 1 /\ s <= DebugLoop + 1 /\ DebugLoop \in Nat
    BY <1>6, FlowAssumption DEF FlowInv, PlaceOK, FilesOK, Stage
  <2>1. CASE s = stage + 1 /\ result.passed
    <3>1. states[result.next].line[stage] = LastRun(stage)
      BY <2>1 DEF FlowInv, PassedInv
    <3>2. ~result.reused => Current(result.next, Needed(stage))
      BY <2>0 DEF FlowInv, HandedInv
    <3>3. \A x \in Needed(s) : x = stage \/ (~result.reused /\ x \in Needed(stage))
      <4>1. CASE ~Resume
        BY <2>0, <2>1, <4>1 DEF Needed, FlowInv, PlaceOK
      <4>2. CASE Resume /\ s > DebugLoop
        BY <2>0, <2>1, <4>2 DEF Needed, FlowInv, PlaceOK
      <4>3. CASE Resume /\ ~(s > DebugLoop)
        BY <2>0, <2>1, <4>3 DEF Needed
      <4>. QED
        BY <4>1, <4>2, <4>3
    <3>. QED
      BY <3>1, <3>2, <3>3 DEF Current
  <2>2. CASE s <= stage
    <3>1. Current(result.next, Needed(stage))
      BY <2>0, <2>2 DEF FlowInv, HandedInv
    <3>2. CASE ~Resume
      <4>1. Needed(s) \subseteq Needed(stage)
        BY <2>0, <2>2, <3>2 DEF Needed
      <4>. QED
        BY <3>1, <4>1 DEF Current
    <3>3. CASE s = stage \/ (s = DebugLoop /\ Resume)
      <4>1. s = stage \/ (Resume /\ s = DebugLoop /\ stage = DebugLoop + 1)
        BY <2>0, <2>2, <3>3
      <4>2. Resume /\ s = DebugLoop /\ stage = DebugLoop + 1 => Needed(s) = Needed(stage)
        BY <2>0 DEF Needed
      <4>3. Needed(s) = Needed(stage)
        BY <4>1, <4>2
      <4>. QED
        BY <3>1, <4>3
    <3>4. CASE s < stage /\ s # DebugLoop /\ Resume
      BY <1>6, <2>0, <3>4 DEF FlowInv, BehindInv
    <3>. QED
      BY <2>0, <2>2, <3>2, <3>3, <3>4
  <2>. QED
    BY <2>0, <2>1, <2>2
<1>7. HandedInv'
  <2>1. CASE s > LastStage
    BY <1>0, <2>1 DEF HandedInv
  <2>2. CASE ~(s > LastStage)
    <3>1. s \in Stage
      BY <2>2, FlowAssumption DEF Stage
    <3>2. Current(result.next, Needed(s)) => Current(result.next, Needed(s))'
      BY <1>0, CurrentStays DEF Current, LastRun, Needed
    <3>3. ASSUME ~misled'
          PROVE  \/ Current(carried, Needed(stage))'
                 \/ Resume /\ stage' # DebugLoop /\ Inviting(stage)' /\ Unchanged(stage)'
      <4>1. CASE Current(result.next, Needed(s))
        BY <1>0, <4>1 DEF Current, LastRun, Needed
      <4>2. CASE Resume /\ s # DebugLoop /\ Inviting(s) /\ Unchanged(s)
        BY <1>0, <4>2 DEF Inviting, Unchanged, HashedInput, Upstream
      <4>. QED
        BY <1>6, <3>1, <3>3, <4>1, <4>2
    <3>. QED
      BY <1>0, <2>2, <3>3 DEF HandedInv
  <2>. QED
    BY <2>1, <2>2
<1>. QED
  BY <1>1, <1>3, <1>4, <1>5, <1>7 DEF FlowInv

LEMMA StutterStep ==
    ASSUME FlowInv, UNCHANGED vars
    PROVE  FlowInv'
<1>0. UNCHANGED <<task, states, report, ckpt, writes, events, pc, stage, carried, result,
                  owed, outcome, basis, verified, ahead, misled>>
  BY DEF vars, files, agent, history
<1>1. FilesOK' /\ PlaceOK' /\ VersionsOK' /\ StatesOK'
  BY <1>0 DEF FlowInv, FilesOK, PlaceOK, VersionsOK, StatesOK
<1>2. \A x \in Stage : /\ Inviting(x)' = Inviting(x) /\ Unchanged(x)' = Unchanged(x)
                       /\ Passed(x) => Passed(x)'
  BY <1>0, PassedStays, InputsStay DEF Inviting, Unchanged
<1>3. (Resume => InvitedIsGood)'
  BY <1>0, <1>2 DEF FlowInv, PlaceOK, InvitedIsGood
<1>4. PassedInv'
  BY <1>0, <1>2 DEF FlowInv, PlaceOK, PassedInv, LastRun
<1>5. BehindInv'
  BY <1>0, <1>2 DEF FlowInv, PlaceOK, BehindInv
<1>6. HandedInv'
  BY <1>0, <1>2 DEF FlowInv, PlaceOK, HandedInv, Current, LastRun, Needed
<1>. QED
  BY <1>1, <1>3, <1>4, <1>5, <1>6 DEF FlowInv

\* A kill and the final validation leave everything as it is; a restart without resuming
\* forgets every checkpoint.
LEMMA QuietStep ==
    ASSUME FlowInv, Start \/ Validate \/ Crash
    PROVE  FlowInv'
<1>0. /\ UNCHANGED <<task, states, report, writes, outcome, basis, verified>>
      /\ pc' \in {"pick", "done", "down"}
      /\ stage' \in Nat /\ carried' \in Stage /\ result'.next \in Stage
      /\ pc' = "pick" => stage' = 0
      /\ ahead' \in BOOLEAN /\ misled' \in BOOLEAN /\ (ahead' => misled')
      /\ Resume => ckpt' = ckpt /\ misled' = misled
      /\ ckpt' = ckpt \/ ckpt' = [s \in Stage |-> [status |-> "none", input |-> 0]]
  <2>1. /\ stage \in Nat /\ carried \in Stage /\ result.next \in Stage /\ 0 \in Stage
        /\ ahead \in BOOLEAN /\ misled \in BOOLEAN /\ (ahead => misled) /\ Resume \in BOOLEAN
    BY FlowAssumption DEF FlowInv, FilesOK, PlaceOK, Stage
  <2>2. CASE Start
    BY <2>1, <2>2 DEF Start, NoResult
  <2>3. CASE Validate \/ Crash
    BY <2>1, <2>3 DEF Validate, Crash, files, history
  <2>. QED
    BY <2>2, <2>3
<1>1. FilesOK' /\ PlaceOK' /\ StatesOK'
  BY <1>0, FlowAssumption DEF FlowInv, FilesOK, PlaceOK, StatesOK, Stage
<1>2. VersionsOK'
  <2>1. CASE ckpt' = ckpt
    BY <1>0, <2>1 DEF FlowInv, VersionsOK
  <2>2. CASE ckpt' = [s \in Stage |-> [status |-> "none", input |-> 0]]
    <3>1. \A s \in Stage : ckpt'[s].input = 0
      BY <2>2
    <3>2. 0 \in 0 .. task' /\ 0 \in 0 .. writes'
      BY <1>0 DEF FlowInv, FilesOK
    <3>. QED
      BY <1>0, <3>1, <3>2 DEF FlowInv, VersionsOK
  <2>. QED
    BY <1>0, <2>1, <2>2
<1>3. ASSUME Resume PROVE InvitedIsGood'
  <2>1. \A x \in Stage : /\ Inviting(x)' = Inviting(x) /\ Unchanged(x)' = Unchanged(x)
                         /\ Passed(x) => Passed(x)'
    BY <1>0, <1>3, InputsStay, PassedStays DEF Inviting, Unchanged
  <2>. QED
    BY <1>0, <1>3, <2>1 DEF FlowInv, InvitedIsGood
<1>4. PassedInv' /\ BehindInv'
  <2>1. \A s \in Stage : ~(s < 0)
    BY DEF Stage
  <2>. QED
    BY <1>0, <2>1 DEF PassedInv, BehindInv
<1>5. HandedInv'
  <2>1. Needed(0) = {}
    BY FlowAssumption, NeededIsBehind DEF Stage
  <2>2. pc' = "pick" => Current(carried, Needed(stage))'
    <3>1. ASSUME stage' = 0 PROVE Needed(stage)' = {}
      BY <2>1, <3>1 DEF Needed
    <3>. QED
      BY <1>0, <3>1 DEF Current
  <2>. QED
    BY <1>0, <2>2 DEF HandedInv
<1>. QED
  BY <1>1, <1>2, <1>3, <1>4, <1>5 DEF FlowInv

LEMMA ReuseStep ==
    ASSUME FlowInv, Reuse
    PROVE  FlowInv'
<1>0. /\ UNCHANGED <<task, states, report, ckpt, writes, stage, carried, verified, ahead>>
      /\ pc = "pick" /\ pc' = "checkpoint" /\ stage \in Stage
      /\ result' = [passed |-> TRUE, reused |-> TRUE, next |-> stage]
      /\ Resume /\ stage # DebugLoop /\ Inviting(stage)
  BY DEF FlowInv, PlaceOK, Reuse, Reusable, Inviting, files
<1>1. /\ outcome' = [s \in Stage |-> outcome'[s]]
      /\ basis' = [s \in Stage |-> basis'[s]]
      /\ \A s \in Stage \ {stage} : outcome'[s] = outcome[s] /\ basis'[s] = basis[s]
      /\ outcome'[stage] # outcome[stage] => outcome'[stage] = "revalidated"
      /\ misled' \in BOOLEAN /\ (misled => misled')
      /\ Passed(stage)'
  <2>0. misled \in BOOLEAN
    BY DEF FlowInv, FilesOK
  <2>1. CASE Unchanged(stage) /\ UNCHANGED <<outcome, basis, misled>>
    <3>1. Passed(stage)
      BY <1>0, <2>1 DEF FlowInv, InvitedIsGood
    <3>. QED
      BY <1>0, <2>0, <2>1, <3>1, PassedStays DEF FlowInv, FilesOK
  <2>2. CASE /\ stage < DebugLoop
             /\ outcome' = [outcome EXCEPT ![stage] = "revalidated"]
             /\ basis' = [basis EXCEPT ![stage] = DescendsFrom(stage, report[stage].source)]
             /\ misled' = (misled \/ basis'[stage] # Upstream(stage))
    <3>1. /\ outcome' = [s \in Stage |-> outcome'[s]] /\ outcome'[stage] = "revalidated"
          /\ \A s \in Stage \ {stage} : outcome'[s] = outcome[s]
      BY <1>0, <2>2, Updated DEF FlowInv, FilesOK
    <3>2. /\ basis' = [s \in Stage |-> basis'[s]]
          /\ \A s \in Stage \ {stage} : basis'[s] = basis[s]
      BY <1>0, <2>2, Updated DEF FlowInv, FilesOK
    <3>3. ~misled' => FreshAt(stage)'
      <4>1. stage # 0 => stage - 1 # DebugLoop
        BY <1>0, <2>2, Earlier, FlowAssumption
      <4>. QED
        BY <1>0, <2>2, <4>1 DEF FreshAt, Upstream, LastRun
    <3>4. Passed(stage)'
      BY <1>0, <3>1, <3>3 DEF Passed
    <3>. QED
      BY <2>0, <2>2, <3>1, <3>2, <3>4
  <2>. QED
    BY <2>1, <2>2 DEF Reuse
<1>2. FilesOK' /\ PlaceOK' /\ VersionsOK'
  BY <1>0, <1>1 DEF FlowInv, FilesOK, PlaceOK, VersionsOK
<1>3. StatesOK'
  BY <1>0, <1>1 DEF FlowInv, StatesOK
<1>4. InvitedIsGood'
  <2>1. \A x \in Stage : Inviting(x)' = Inviting(x) /\ Unchanged(x)' = Unchanged(x)
    BY <1>0, InputsStay DEF Inviting, Unchanged
  <2>2. ASSUME NEW x \in Stage \ {DebugLoop}, Inviting(x)', Unchanged(x)'
        PROVE  Passed(x)'
    <3>1. CASE x = stage
      BY <1>1, <3>1, <1>0 DEF Passed, FreshAt, LastRun
    <3>2. CASE x # stage
      <4>1. Passed(x)
        BY <1>0, <2>1, <2>2 DEF FlowInv, InvitedIsGood
      <4>. QED
        BY <1>0, <1>1, <2>2, <3>2, <4>1, PassedStays
    <3>. QED
      BY <3>1, <3>2
  <2>. QED
    BY <1>0, <2>2 DEF InvitedIsGood
<1>5. PassedInv'
  <2>1. states[stage].line[stage] = LastRun(stage)
    BY <1>0 DEF FlowInv, StatesOK, LastRun
  <2>2. states'[result'.next].line[stage'] = LastRun(stage)'
    BY <1>0, <2>1 DEF LastRun
  <2>. QED
    BY <1>0, <1>1, <2>2 DEF PassedInv, Inviting
<1>6. BehindInv'
  BY <1>0, <1>1, BehindStays
<1>7. HandedInv'
  BY <1>0 DEF HandedInv
<1>. QED
  BY <1>2, <1>3, <1>4, <1>5, <1>6, <1>7 DEF FlowInv

LEMMA Appended ==
    ASSUME NEW q \in Seq(BOOLEAN), NEW b \in BOOLEAN
    PROVE  Append(q, b) \in Seq(BOOLEAN) /\ Last(Append(q, b)) = b
BY DEF Last

\* A stage that runs is handed a state that descends from what it must.
LEMMA RunIsHanded ==
    ASSUME FlowInv, MustRun, ~misled
    PROVE  Current(carried, Needed(stage))
BY DEF FlowInv, HandedInv, MustRun, Reusable, Inviting

\* What it is then built on is the last run of the stage before.
LEMMA BuiltOnLast ==
    ASSUME FlowInv, stage \in Stage, ~misled, Current(carried, Needed(stage))
    PROVE  \/ DescendsFrom(stage, carried) = IF stage = 0 THEN task ELSE LastRun(stage - 1)
           \/ Resume /\ stage = DebugLoop + 1
BY NeededIsBehind DEF Current, DescendsFrom

\* The stage that runs is not invited on its input; the stage behind it, if it is, is
\* no longer invited on its input, which has a version of its own.
LEMMA StageSavesStep ==
    ASSUME FlowInv, NEW passed \in BOOLEAN, NEW names, StageSaves(passed, names)
    PROVE  FlowInv'
<1> DEFINE new == [version |-> writes + 1,
                   line |-> [Inherited(stage).line EXCEPT ![stage] = writes + 1],
                   log |-> Append(Inherited(stage).log, passed),
                   certified |-> IF stage = DebugLoop THEN passed ELSE Inherited(stage).certified,
                   open |-> Recorded(stage, passed, names)]
           verdict == IF passed THEN "pass" ELSE "fail"
<1>0. /\ stage \in Stage /\ stage \in Nat /\ carried \in Stage /\ writes \in Nat
      /\ UNCHANGED <<task, report, ckpt, stage, carried, ahead, misled>>
      /\ MustRun /\ pc = "pick" /\ pc' = "saved"
      /\ result' = [passed |-> passed, reused |-> FALSE, next |-> stage]
      /\ writes' = writes + 1
      /\ states' = [states EXCEPT ![stage] = new]
      /\ outcome' = [outcome EXCEPT ![stage] = verdict]
      /\ basis' = [basis EXCEPT ![stage] = DescendsFrom(stage, carried)]
      /\ verified' = IF stage = DebugLoop THEN writes + 1 ELSE verified
      /\ ~(Reusable(stage) /\ Unchanged(stage))
  BY DEF FlowInv, FilesOK, PlaceOK, StageSaves, MustRun
<1>1. /\ new.version = writes + 1 /\ new.log \in Seq(BOOLEAN) /\ Last(new.log) = passed
      /\ new.line = [x \in Stage |-> new.line[x]] /\ new.line[stage] = writes + 1
      /\ \A x \in Stage \ {stage} : new.line[x] = Inherited(stage).line[x]
  <2>1. /\ Inherited(stage).log \in Seq(BOOLEAN)
        /\ Inherited(stage).line = [x \in Stage |-> Inherited(stage).line[x]]
    <3>1. CASE stage = 0
      <4>1. Inherited(stage) = NoState
        BY <3>1 DEF Inherited
      <4>2. NoState.log = <<>> /\ NoState.line = NoLine
        BY DEF NoState
      <4>3. NoLine = [x \in Stage |-> NoLine[x]]
        BY DEF NoLine
      <4>. QED
        BY <4>1, <4>2, <4>3
    <3>2. CASE stage # 0
      BY <1>0, <3>2 DEF Inherited, FlowInv, StatesOK
    <3>. QED
      BY <3>1, <3>2
  <2>2. new.log \in Seq(BOOLEAN) /\ Last(new.log) = passed
    BY <2>1, Appended
  <2>3. /\ new.line = [x \in Stage |-> new.line[x]] /\ new.line[stage] = writes + 1
        /\ \A x \in Stage \ {stage} : new.line[x] = Inherited(stage).line[x]
    BY <1>0, <2>1, Updated
  <2>. QED
    BY <2>2, <2>3
<1> HIDE DEF new
<1>2. /\ states' = [s \in Stage |-> states'[s]] /\ states'[stage] = new
      /\ \A s \in Stage \ {stage} : states'[s] = states[s]
  BY <1>0, Updated DEF FlowInv, FilesOK
<1>3. /\ outcome' = [s \in Stage |-> outcome'[s]] /\ outcome'[stage] = verdict
      /\ \A s \in Stage \ {stage} : outcome'[s] = outcome[s]
  BY <1>0, Updated DEF FlowInv, FilesOK
<1>4. /\ basis' = [s \in Stage |-> basis'[s]]
      /\ basis'[stage] = DescendsFrom(stage, carried)
      /\ \A s \in Stage \ {stage} : basis'[s] = basis[s]
  BY <1>0, Updated DEF FlowInv, FilesOK
<1>5. FilesOK' /\ PlaceOK'
  BY <1>0, <1>2, <1>3, <1>4 DEF FlowInv, FilesOK, PlaceOK
<1>6. VersionsOK'
  BY <1>0, <1>1, <1>2 DEF FlowInv, FilesOK, VersionsOK
<1>7. StatesOK'
  <2>1. ASSUME NEW s \in Stage
        PROVE  /\ states'[s].log \in Seq(BOOLEAN)
               /\ states'[s].line = [x \in Stage |-> states'[s].line[x]]
               /\ states'[s].line[s] = states'[s].version
               /\ outcome'[s] = "pass" /\ s # DebugLoop => Last(states'[s].log)
    <3>1. CASE s = stage
      BY <1>1, <1>2, <1>3, <3>1
    <3>2. CASE s # stage
      BY <1>2, <1>3, <3>2 DEF FlowInv, StatesOK
    <3>. QED
      BY <3>1, <3>2
  <2>. QED
    BY <2>1 DEF StatesOK
\* What lies behind keeps its last runs, and the new state descends from what it read.
<1>8. \A x \in Stage : x < stage => LastRun(x)' = LastRun(x)
  BY <1>0, <1>2 DEF LastRun
<1>9. ASSUME ~misled
      PROVE  /\ Current(carried, Needed(stage))'
             /\ Current(stage, Needed(stage))'
             /\ FreshAt(stage)'
  <2>1. Current(carried, Needed(stage)) /\ \A x \in Needed(stage) : x \in Stage /\ x < stage
    BY <1>0, <1>9, RunIsHanded, NeededIsBehind
  <2>2. \A x \in Needed(stage) : Inherited(stage).line[x] = states[carried].line[x]
    <3>1. stage = 0 => Needed(stage) = {}
      BY <1>0, NeededIsBehind
    <3>. QED
      BY <3>1 DEF Inherited
  <2>3. \A x \in Needed(stage) : /\ states'[stage].line[x] = LastRun(x)'
                                 /\ states'[carried].line[x] = LastRun(x)'
    <3>1. ASSUME NEW x \in Needed(stage)
          PROVE  new.line[x] = LastRun(x)'
      <4>0. x \in Stage /\ x < stage
        BY <2>1
      <4>1. x \in Stage \ {stage}
        BY <1>0, <4>0
      <4>3. LastRun(x)' = LastRun(x)
        BY <1>8, <4>0
      <4>2. new.line[x] = states[carried].line[x]
        BY <1>1, <2>2, <4>1
      <4>. QED
        BY <2>1, <4>3, <4>2 DEF Current
    <3>2. \A x \in Needed(stage) : states[carried].line[x] = LastRun(x)'
      BY <1>8, <2>1 DEF Current
    <3>. QED
      BY <1>0, <1>2, <3>1, <3>2
  <2>4. Needed(stage)' = Needed(stage)
    BY <1>0 DEF Needed
  <2>5. FreshAt(stage)'
    <3>1. stage # 0 => stage - 1 \in Stage /\ stage - 1 < stage
      BY <1>0, Earlier
    <3>2. stage # 0 => LastRun(stage - 1)' = LastRun(stage - 1)
      BY <1>0, <1>8, <3>1 DEF LastRun
    <3>. QED
      BY <1>0, <1>4, <1>9, <2>1, <3>2, BuiltOnLast DEF FreshAt, LastRun
  <2>. QED
    BY <1>0, <2>3, <2>4, <2>5 DEF Current, LastRun
<1>10. passed => Passed(stage)'
  BY <1>0, <1>3, <1>9 DEF Passed, FlowInv, FilesOK
<1>11. ASSUME Resume PROVE InvitedIsGood'
  <2>1. \A x \in Stage : Inviting(x)' = Inviting(x)
    BY <1>0 DEF Inviting
  <2>2. ASSUME NEW x \in Stage \ {stage}, Unchanged(x)'
        PROVE  Unchanged(x) /\ (x = 0 \/ LastRun(x - 1)' = LastRun(x - 1) \/ x = DebugLoop + 1)
    <3>0. x \in Nat /\ DebugLoop \in Nat
      BY Earlier, FlowAssumption
    <3>1. CASE x = 0 \/ x - 1 # stage
      <4>1. x # 0 => x - 1 \in Stage \ {stage}
        BY <3>1, Earlier
      <4>2. Unchanged(x)
        BY <1>0, <1>2, <2>2, <4>1 DEF Unchanged, HashedInput, Upstream
      <4>3. x = 0 \/ LastRun(x - 1)' = LastRun(x - 1) \/ x - 1 = DebugLoop
        BY <1>2, <4>1 DEF LastRun
      <4>. QED
        BY <3>0, <4>2, <4>3
    <3>2. CASE x # 0 /\ x - 1 = stage
      <4>1. CASE stage = DebugLoop
        BY <1>0, <2>2, <3>0, <3>2, <4>1 DEF Unchanged, HashedInput
      <4>2. CASE stage # DebugLoop
        <5>1. ckpt[x].input = writes + 1
          BY <1>0, <1>1, <1>2, <2>2, <3>2, <4>2 DEF Unchanged, HashedInput, Upstream
        <5>2. ckpt[x].input \in 0 .. writes
          BY <3>2 DEF FlowInv, VersionsOK
        <5>. QED
          BY <1>0, <5>1, <5>2
      <4>. QED
        BY <4>1, <4>2
    <3>. QED
      BY <3>1, <3>2
  <2>3. Upstream(stage)' = Upstream(stage)
    BY <1>0, <1>2 DEF Upstream, Stage
  <2>4. ASSUME stage # DebugLoop
        PROVE  ~(Inviting(stage) /\ Unchanged(stage)')
    BY <1>0, <1>11, <2>3, <2>4 DEF Reusable, Inviting, Unchanged, HashedInput
  <2>5. ASSUME NEW x \in Stage \ {DebugLoop}, Inviting(x)', Unchanged(x)'
        PROVE  Passed(x)'
    <3>1. x # stage
      BY <2>1, <2>4, <2>5, <1>0 DEF Unchanged, HashedInput, Upstream
    <3>2. Passed(x) /\ (x = 0 \/ LastRun(x - 1)' = LastRun(x - 1) \/ x = DebugLoop + 1)
      BY <1>11, <2>1, <2>2, <2>5, <3>1 DEF FlowInv, InvitedIsGood
    <3>. QED
      BY <1>0, <1>3, <1>4, <1>11, <3>1, <3>2 DEF Passed, FreshAt
  <2>6. stage # DebugLoop => ~(Inviting(stage)' /\ Unchanged(stage)')
    BY <1>0, <2>4 DEF Inviting
  <2>. QED
    BY <1>0, <2>5, <2>6 DEF InvitedIsGood
<1>12. PassedInv'
  <2>1. states'[stage].line[stage] = LastRun(stage)'
    BY <1>0, <1>1, <1>2 DEF LastRun
  <2>. QED
    BY <1>0, <1>10, <2>1 DEF PassedInv, LastRun
<1>13. BehindInv'
  BY <1>0, <1>2, <1>3, <1>4, BehindStays
<1>14. HandedInv'
  <2>1. ASSUME ~misled
        PROVE  Current(carried, Needed(stage))' /\ Current(result.next, Needed(stage))'
    BY <1>0, <1>9, <2>1 DEF Current, LastRun
  <2>. QED
    BY <1>0, <2>1 DEF HandedInv
<1>. QED
  BY <1>5, <1>6, <1>7, <1>11, <1>12, <1>13, <1>14 DEF FlowInv

LEMMA StageReportsStep ==
    ASSUME FlowInv, StageReports
    PROVE  FlowInv'
<1> DEFINE new == [status |-> IF result.passed THEN "ready" ELSE "incomplete",
                   source |-> carried, transition |-> Len(states[stage].log)]
<1>0. /\ stage \in Stage
      /\ UNCHANGED <<task, states, ckpt, writes, stage, carried, result, outcome, basis,
                     verified, ahead, misled>>
      /\ pc = "saved" /\ pc' = "checkpoint"
      /\ report' = [report EXCEPT ![stage] = new]
  BY DEF FlowInv, PlaceOK, StageReports, history
<1>1. /\ report' = [s \in Stage |-> report'[s]]
      /\ report'[stage].status = IF result.passed THEN "ready" ELSE "incomplete"
      /\ \A s \in Stage \ {stage} : report'[s] = report[s]
  <2>1. /\ report' = [s \in Stage |-> report'[s]] /\ report'[stage] = new
        /\ \A s \in Stage \ {stage} : report'[s] = report[s]
    BY <1>0, Updated DEF FlowInv, FilesOK
  <2>. QED
    BY <2>1
<1>2. FilesOK' /\ PlaceOK' /\ VersionsOK' /\ StatesOK'
  BY <1>0, <1>1 DEF FlowInv, FilesOK, PlaceOK, VersionsOK, StatesOK
<1>3. \A x \in Stage : Passed(x) => Passed(x)'
  BY <1>0, PassedStays
<1>4. ASSUME Resume PROVE InvitedIsGood'
  <2>1. \A x \in Stage : Unchanged(x)' = Unchanged(x)
    BY <1>0, InputsStay DEF Unchanged
  <2>2. \A x \in Stage \ {stage} : Inviting(x)' = Inviting(x)
    BY <1>0, <1>1 DEF Inviting
  <2>3. report'[stage].status = "ready" => Passed(stage)
    BY <1>0, <1>1 DEF FlowInv, PassedInv
  <2>4. ASSUME NEW x \in Stage \ {DebugLoop}, Inviting(x)', Unchanged(x)'
        PROVE  Passed(x)
    <3>1. CASE x = stage
      BY <2>3, <2>4, <3>1 DEF Inviting
    <3>2. CASE x # stage
      BY <1>4, <2>1, <2>2, <2>4, <3>2 DEF FlowInv, InvitedIsGood
    <3>. QED
      BY <3>1, <3>2
  <2>. QED
    BY <1>0, <1>3, <2>4 DEF InvitedIsGood
<1>5. PassedInv'
  <2>1. result.passed => Passed(stage) /\ states[result.next].line[stage] = LastRun(stage)
    BY <1>0 DEF FlowInv, PassedInv
  <2>2. Passed(stage) => Passed(stage)'
    BY <1>0 DEF Passed, FreshAt, LastRun
  <2>. QED
    BY <1>0, <1>1, <2>1, <2>2 DEF PassedInv, LastRun
<1>6. BehindInv'
  BY <1>0, <1>1, BehindStays
<1>7. HandedInv'
  BY <1>0 DEF FlowInv, HandedInv, Current, LastRun, Needed
<1>. QED
  BY <1>2, <1>4, <1>5, <1>6, <1>7 DEF FlowInv

LEMMA StageDiesStep ==
    ASSUME FlowInv, StageDies
    PROVE  FlowInv'
<1>0. /\ stage \in Stage /\ carried \in Stage /\ misled \in BOOLEAN /\ misled' \in BOOLEAN
      /\ UNCHANGED <<task, states, report, ckpt, writes, stage, carried, basis, verified, ahead>>
      /\ pc \in {"pick", "saved"} /\ pc' = "checkpoint"
      /\ ~result'.passed /\ ~result'.reused
      /\ result'.next = carried \/ result'.next = stage
      /\ outcome' = [outcome EXCEPT ![stage] = "fail"]
      /\ misled' = (misled \/ (result'.next = stage /\ ~Current(stage, 0 .. stage - 1)))
      /\ Resume /\ stage # DebugLoop => ~(Inviting(stage) /\ Unchanged(stage))
      /\ pc = "pick" => MustRun
  BY DEF FlowInv, FilesOK, PlaceOK, InvitedIsGood, StageDies, MustRun, Reusable, Inviting, files
<1>1. /\ outcome' = [s \in Stage |-> outcome'[s]] /\ outcome'[stage] = "fail"
      /\ \A s \in Stage \ {stage} : outcome'[s] = outcome[s]
  BY <1>0, Updated DEF FlowInv, FilesOK
<1>2. FilesOK' /\ PlaceOK' /\ VersionsOK' /\ StatesOK'
  BY <1>0, <1>1 DEF FlowInv, FilesOK, PlaceOK, VersionsOK, StatesOK
<1>3. ASSUME Resume PROVE InvitedIsGood'
  <2>1. \A x \in Stage : Inviting(x)' = Inviting(x) /\ Unchanged(x)' = Unchanged(x)
    BY <1>0, InputsStay DEF Inviting, Unchanged
  <2>2. \A x \in Stage \ {stage} : Passed(x) => Passed(x)'
    BY <1>0, <1>1, PassedStays
  <2>3. ASSUME NEW x \in Stage \ {DebugLoop}, Inviting(x)', Unchanged(x)'
        PROVE  Passed(x)'
    BY <1>0, <1>3, <2>1, <2>2, <2>3 DEF FlowInv, InvitedIsGood
  <2>. QED
    BY <1>0, <2>3 DEF InvitedIsGood
<1>4. PassedInv'
  BY <1>0 DEF PassedInv
<1>5. BehindInv'
  BY <1>0, <1>1, BehindStays
<1>6. HandedInv'
  <2>1. ASSUME ~misled'
        PROVE  Current(result'.next, Needed(stage))
    <3>1. CASE result'.next = stage
      BY <1>0, <2>1, <3>1, NeededIsBehind DEF Current
    <3>2. CASE result'.next = carried
      BY <1>0, <2>1, <3>2, RunIsHanded DEF FlowInv, HandedInv
    <3>. QED
      BY <1>0, <3>1, <3>2
  <2>. QED
    BY <1>0, <2>1 DEF HandedInv, Current, LastRun, Needed
<1>. QED
  BY <1>2, <1>3, <1>4, <1>5, <1>6 DEF FlowInv

LEMMA PassesThroughStep ==
    ASSUME FlowInv, PassesThrough
    PROVE  FlowInv'
<1> DEFINE new == [status |-> "ready", source |-> carried,
                   transition |-> Len(states[carried].log)]
<1>0. /\ stage \in Stage /\ stage = DebugLoop /\ carried \in Stage /\ MustRun
      /\ UNCHANGED <<task, states, ckpt, writes, stage, carried, ahead, misled>>
      /\ pc = "pick" /\ pc' = "checkpoint"
      /\ result' = [passed |-> TRUE, reused |-> FALSE, next |-> carried]
      /\ report' = [report EXCEPT ![stage] = new]
      /\ outcome' = [outcome EXCEPT ![stage] = "pass"]
      /\ basis' = [basis EXCEPT ![stage] = DescendsFrom(stage, carried)]
      /\ verified' = states[carried].line[DebugLoop]
  BY DEF FlowInv, PlaceOK, PassesThrough, MustRun
<1>1. /\ report' = [s \in Stage |-> report'[s]] /\ report'[stage].status = "ready"
      /\ \A s \in Stage \ {stage} : report'[s] = report[s]
  <2>1. /\ report' = [s \in Stage |-> report'[s]] /\ report'[stage] = new
        /\ \A s \in Stage \ {stage} : report'[s] = report[s]
    BY <1>0, Updated DEF FlowInv, FilesOK
  <2>. QED
    BY <2>1
<1>2. /\ outcome' = [s \in Stage |-> outcome'[s]] /\ outcome'[stage] = "pass"
      /\ \A s \in Stage \ {stage} : outcome'[s] = outcome[s]
  BY <1>0, Updated DEF FlowInv, FilesOK
<1>3. /\ basis' = [s \in Stage |-> basis'[s]]
      /\ basis'[stage] = DescendsFrom(stage, carried)
      /\ \A s \in Stage \ {stage} : basis'[s] = basis[s]
  BY <1>0, Updated DEF FlowInv, FilesOK
<1>4. FilesOK' /\ PlaceOK' /\ VersionsOK' /\ StatesOK'
  BY <1>0, <1>1, <1>2, <1>3 DEF FlowInv, FilesOK, PlaceOK, VersionsOK, StatesOK
<1>5. stage \in Nat /\ stage # 0 /\ \A x \in Stage : x # DebugLoop => LastRun(x)' = LastRun(x)
  BY <1>0, FlowAssumption DEF LastRun
<1>6. ASSUME Resume PROVE InvitedIsGood'
  <2>1. ASSUME NEW x \in Stage \ {DebugLoop}
        PROVE  /\ Inviting(x)' = Inviting(x) /\ Unchanged(x)' = Unchanged(x)
               /\ Passed(x) => Passed(x)'
    <3>1. x \in Nat /\ (x = DebugLoop + 1 \/ (x # 0 => x - 1 \in Stage /\ x - 1 # DebugLoop))
      BY <1>0, <1>5, Earlier
    <3>2. FreshAt(x) => FreshAt(x)'
      BY <1>0, <1>3, <1>5, <1>6, <3>1 DEF FreshAt
    <3>. QED
      BY <1>0, <1>1, <1>2, <3>2, InputsStay DEF Inviting, Unchanged, Passed
  <2>. QED
    BY <1>0, <1>6, <2>1 DEF FlowInv, InvitedIsGood
<1>7. PassedInv'
  <2>1. stage - 1 \in Stage /\ stage - 1 # DebugLoop
    BY <1>0, <1>5, Earlier
  <2>2. ~misled => DescendsFrom(stage, carried) = LastRun(stage - 1)
    BY <1>0, <1>5, RunIsHanded, BuiltOnLast
  <2>3. ~misled => FreshAt(stage)'
    BY <1>0, <1>3, <1>5, <2>1, <2>2 DEF FreshAt, LastRun
  <2>4. Passed(stage)'
    BY <1>0, <1>2, <2>3 DEF Passed
  <2>5. states'[result'.next].line[stage'] = LastRun(stage)'
    BY <1>0 DEF LastRun
  <2>. QED
    BY <1>0, <1>1, <2>4, <2>5 DEF PassedInv
<1>8. BehindInv'
  BY <1>0, <1>1, <1>2, <1>3, BehindStays
<1>9. HandedInv'
  <2>1. ASSUME ~misled
        PROVE  Current(carried, Needed(stage))'
    <3>1. Current(carried, Needed(stage)) /\ \A x \in Needed(stage) : x \in Stage /\ x # DebugLoop
      BY <1>0, <1>5, <2>1, RunIsHanded, NeededIsBehind
    <3>2. \A x \in Needed(stage) : states[carried].line[x] = LastRun(x)'
      BY <1>5, <3>1 DEF Current
    <3>. QED
      BY <1>0, <3>2 DEF Current, LastRun, Needed
  <2>. QED
    BY <1>0, <2>1 DEF HandedInv, Current, LastRun, Needed
<1>. QED
  BY <1>4, <1>6, <1>7, <1>8, <1>9 DEF FlowInv

LEMMA CheckpointStep ==
    ASSUME FlowInv, Checkpoint
    PROVE  FlowInv'
<1>0. /\ stage \in Stage
      /\ UNCHANGED <<task, states, report, writes, stage, carried, result, outcome, basis,
                     verified, ahead, misled>>
      /\ pc = "checkpoint" /\ pc' = "route"
      /\ ckpt' = [ckpt EXCEPT ![stage] = [status |-> IF result.passed THEN "pass" ELSE "fail",
                                          input |-> HashedInput(stage)]]
  BY DEF FlowInv, PlaceOK, Checkpoint, history
<1>1. /\ ckpt' = [s \in Stage |-> ckpt'[s]]
      /\ ckpt'[stage].status = IF result.passed THEN "pass" ELSE "fail"
      /\ ckpt'[stage].input = HashedInput(stage)
      /\ \A s \in Stage \ {stage} : ckpt'[s] = ckpt[s]
  BY <1>0, Updated DEF FlowInv, FilesOK
<1>2. HashedInput(stage) \in 0 .. (IF stage = 0 THEN task ELSE writes)
  BY <1>0, FlowAssumption DEF FlowInv, FilesOK, VersionsOK, HashedInput, Upstream, Stage
<1>3. FilesOK' /\ PlaceOK' /\ StatesOK'
  BY <1>0, <1>1 DEF FlowInv, FilesOK, PlaceOK, StatesOK
<1>4. VersionsOK'
  BY <1>0, <1>1, <1>2 DEF FlowInv, VersionsOK
<1>5. \A x \in Stage : Passed(x) => Passed(x)'
  BY <1>0, PassedStays
<1>6. ASSUME Resume PROVE InvitedIsGood'
  <2>1. \A x \in Stage \ {stage} :
           Inviting(x)' = Inviting(x) /\ Unchanged(x)' = Unchanged(x)
    BY <1>0, <1>1, InputsStay DEF Inviting, Unchanged
  <2>2. ckpt'[stage].status = "pass" => Passed(stage)
    BY <1>0, <1>1 DEF FlowInv, PassedInv
  <2>3. ASSUME NEW x \in Stage \ {DebugLoop}, Inviting(x)', Unchanged(x)'
        PROVE  Passed(x)
    <3>1. CASE x = stage
      BY <2>2, <2>3, <3>1 DEF Inviting
    <3>2. CASE x # stage
      BY <1>6, <2>1, <2>3, <3>2 DEF FlowInv, InvitedIsGood
    <3>. QED
      BY <3>1, <3>2
  <2>. QED
    BY <1>0, <1>5, <2>3 DEF InvitedIsGood
<1>7. PassedInv'
  <2>1. result.passed => /\ Passed(stage) /\ states[result.next].line[stage] = LastRun(stage)
                         /\ report[stage].status = "ready"
    BY <1>0 DEF FlowInv, PassedInv
  <2>2. Passed(stage) => Passed(stage)'
    BY <1>0 DEF Passed, FreshAt, LastRun
  <2>3. Unchanged(stage)'
    BY <1>0, <1>1 DEF Unchanged, HashedInput, Upstream
  <2>. QED
    BY <1>0, <1>1, <2>1, <2>2, <2>3 DEF PassedInv, Inviting, LastRun
<1>8. BehindInv'
  BY <1>0, <1>1, BehindStays
<1>9. HandedInv'
  BY <1>0 DEF FlowInv, HandedInv, Current, LastRun, Needed
<1>. QED
  BY <1>3, <1>4, <1>6, <1>7, <1>8, <1>9 DEF FlowInv

\* An edited task invites nobody to reuse stage 0.
LEMMA ChangeTaskStep ==
    ASSUME FlowInv, ChangeTask
    PROVE  FlowInv'
<1>0. /\ UNCHANGED <<states, report, ckpt, writes, stage, carried, result, outcome, basis,
                     verified, ahead, misled>>
      /\ pc' = "down" /\ task' = task + 1 /\ task \in Nat
  BY DEF FlowInv, FilesOK, ChangeTask, history
<1>1. FilesOK' /\ PlaceOK' /\ StatesOK'
  BY <1>0 DEF FlowInv, FilesOK, PlaceOK, StatesOK
<1>2. VersionsOK'
  <2>1. 0 .. task \subseteq 0 .. task'
    BY <1>0
  <2>. QED
    BY <1>0, <2>1 DEF FlowInv, VersionsOK
<1>3. ASSUME NEW s \in Stage, Unchanged(s)'
      PROVE  s # 0 /\ Unchanged(s)
  <2>1. s # 0
    <3>1. ASSUME s = 0 PROVE FALSE
      <4>1. ckpt[0].input = task + 1
        BY <1>0, <1>3, <3>1 DEF Unchanged, HashedInput, Upstream
      <4>2. ckpt[0].input \in 0 .. task
        BY <3>1 DEF FlowInv, VersionsOK
      <4>. QED
        BY <1>0, <4>1, <4>2
    <3>. QED
      BY <3>1
  <2>. QED
    BY <1>0, <1>3, <2>1 DEF Unchanged, HashedInput, Upstream
<1>4. (Resume => InvitedIsGood)'
  BY <1>0, <1>3 DEF FlowInv, InvitedIsGood, Inviting, Passed, FreshAt, LastRun
<1>5. PassedInv' /\ BehindInv' /\ HandedInv'
  BY <1>0 DEF PassedInv, BehindInv, HandedInv
<1>. QED
  BY <1>1, <1>2, <1>4, <1>5 DEF FlowInv

\* A bootstrap stage that passed, a reused one and one without an open request go on; what
\* a request names is taken, and noted if it is ahead.
LEMMA RouteStep ==
    ASSUME FlowInv, ProceedUnreviewed \/ Proceed \/ RetryStage \/ ControllerFails
                    \/ Backtrack \/ Reroute
    PROVE  FlowInv'
<1>0. /\ stage \in Nat /\ stage + 1 \in Nat /\ stage <= stage
      /\ ahead \in BOOLEAN /\ misled \in BOOLEAN /\ (ahead => misled)
      /\ \A s \in Stage : s \in Nat
      /\ pc = "route" /\ (result.reused => result.passed)
  BY DEF FlowInv, FilesOK, PlaceOK, Stage, ProceedUnreviewed, Proceed, RetryStage,
         ControllerFails, Backtrack, Reroute
<1>1. CASE ProceedUnreviewed \/ Proceed
  BY <1>0, <1>1, GotoStep DEF ProceedUnreviewed, Proceed, Unreviewed
<1>2. CASE RetryStage \/ ControllerFails
  BY <1>0, <1>2, GotoStep DEF RetryStage, ControllerFails, Unreviewed
<1>3. CASE Backtrack \/ Reroute
  <2>0. ~result.reused
    BY <1>0, <1>3 DEF Backtrack, Reroute, Unreviewed
  <2>1. CASE Goto(stage) /\ UNCHANGED <<ahead, misled>>
    BY <1>0, <2>0, <2>1, GotoStep
  <2>2. ASSUME NEW s \in Stage, Follow(s)
        PROVE  FlowInv'
    <3>1. s \in Nat /\ (s > stage \/ s <= stage)
      BY <1>0
    <3>2. /\ ahead' \in BOOLEAN /\ misled' \in BOOLEAN /\ (ahead' => misled')
          /\ misled => misled'
          /\ ~ahead' => ~ahead /\ s <= stage
      BY <1>0, <2>2, <3>1 DEF Follow
    <3>. QED
      BY <1>0, <2>0, <2>2, <3>1, <3>2, GotoStep DEF Follow
  <2>. QED
    BY <1>3, <2>1, <2>2 DEF Backtrack, Reroute
<1>. QED
  BY <1>1, <1>2, <1>3

LEMMA FlowInvStep ==
    ASSUME FlowInv, [Next]_vars
    PROVE  FlowInv'
<1>1. CASE Start \/ Validate \/ Crash
  BY <1>1, QuietStep
<1>2. CASE Reuse
  BY <1>2, ReuseStep
<1>3. CASE \E passed \in BOOLEAN : \E names \in Asks(passed) : StageSaves(passed, names)
  BY <1>3, StageSavesStep
<1>4. CASE StageReports \/ StageDies
  BY <1>4, StageReportsStep, StageDiesStep
<1>5. CASE PassesThrough \/ Checkpoint
  BY <1>5, PassesThroughStep, CheckpointStep
<1>6. CASE ProceedUnreviewed \/ Proceed \/ RetryStage \/ ControllerFails \/ Backtrack \/ Reroute
  BY <1>6, RouteStep
<1>7. CASE ChangeTask
  BY <1>7, ChangeTaskStep
<1>8. CASE UNCHANGED vars
  BY <1>8, StutterStep
<1>. QED
  BY <1>1, <1>2, <1>3, <1>4, <1>5, <1>6, <1>7, <1>8 DEF Next

LEMMA SpecFlowInv == Spec => []FlowInv
<1>1. FlowInv /\ [Next]_vars => FlowInv'
  BY FlowInvStep
<1>. QED
  BY FlowInvInit, <1>1, PTL DEF Spec

\* What the default flow reuses on an unchanged input was left by a run that passed and
\* promoted its transition, or was revalidated, for any number of stages and of kills,
\* errors, edits and backtracks; without resuming there is no reuse at all
\* (reusable_stage_result, only_reuse_passed_stage).
THEOREM SpecReuseIsOfAPass == Spec => ReuseIsOfAPass
<1> DEFINE Justified == \/ outcome[stage] = "pass" /\ Last(states[stage].log)
                        \/ outcome[stage] = "revalidated"
<1>1. ASSUME FlowInv, Reuse, Unchanged(stage)
      PROVE  Justified
  <2>1. Resume /\ stage \in Stage \ {DebugLoop} /\ Inviting(stage)
    BY <1>1 DEF FlowInv, PlaceOK, Reuse, Reusable, Inviting
  <2>2. outcome[stage] \in {"pass", "revalidated"}
    BY <1>1, <2>1 DEF FlowInv, InvitedIsGood, Passed
  <2>3. outcome[stage] = "pass" => Last(states[stage].log)
    BY <1>1, <2>1 DEF FlowInv, StatesOK
  <2>. QED
    BY <2>2, <2>3
<1>2. FlowInv /\ [Next]_vars => [Reuse /\ Unchanged(stage) => Justified]_vars
  BY <1>1
<1>. QED
  BY <1>2, SpecFlowInv, PTL DEF Spec, ReuseIsOfAPass

\* A flow ends on stages each of which last ran, or was revalidated, on a state that
\* descends from the last run of the stage before it, whichever state file it was handed
\* after a backtrack, a retry, an error or a kill, unless it was misled (stage_input_hash,
\* choose_next_stage).
THEOREM SpecFreshUnlessMisled == Spec => []FreshUnlessMisled
<1>1. FlowInv => FreshUnlessMisled
  <2>1. ASSUME FlowInv, pc = "validate", ~misled, NEW s \in Stage
        PROVE  FreshAt(s)
    <3>1. s < stage
      BY <2>1, FlowAssumption DEF FlowInv, PlaceOK, Stage
    <3>2. ~ahead
      BY <2>1 DEF FlowInv, FilesOK
    <3>. QED
      BY <2>1, <3>1, <3>2 DEF FlowInv, BehindInv, Passed
  <2>. QED
    BY <2>1 DEF FreshUnlessMisled
<1>. QED
  BY <1>1, SpecFlowInv, PTL

\* A step that writes a state file is a run of the stage at work.
LEMMA OnlyRunsWrite ==
    ASSUME FlowInv, [Next]_vars, NEW s \in Stage, states'[s] # states[s]
    PROVE  /\ s = stage /\ pc = "pick"
           /\ \E passed \in BOOLEAN : \E names \in Asks(passed) : StageSaves(passed, names)
<1>1. CASE \E passed \in BOOLEAN : \E names \in Asks(passed) : StageSaves(passed, names)
  <2>1. /\ stage \in Stage /\ pc = "pick"
        /\ \A x \in Stage \ {stage} : states'[x] = states[x]
    BY <1>1, Updated DEF StageSaves, MustRun, FlowInv, FilesOK, PlaceOK
  <2>. QED
    BY <1>1, <2>1
<1>2. CASE UNCHANGED states
  BY <1>2
<1>. QED
  BY <1>1, <1>2
  DEF Next, Start, Reuse, StageReports, PassesThrough, StageDies, Checkpoint,
      ProceedUnreviewed, Backtrack, Proceed, RetryStage, Reroute, ControllerFails, Goto,
      Follow, Validate, Crash, ChangeTask, files, vars

\* No stage runs while the latest run of one before it failed, with reuse or without and
\* however stages die, unless a request led the flow past a stage (choose_next_stage).
THEOREM SpecFailedStageBlocksLater == Spec => FailedStageBlocksLater
<1> DEFINE Blocked == \A s \in Stage : states'[s] # states[s] /\ ~ahead =>
                         \A earlier \in 0 .. s - 1 : outcome[earlier] # "fail"
<1>1. ASSUME FlowInv, [Next]_vars, ~ahead, NEW s \in Stage, states'[s] # states[s],
             NEW earlier \in 0 .. s - 1
      PROVE  outcome[earlier] # "fail"
  <2>1. s = stage /\ pc = "pick"
    BY <1>1, OnlyRunsWrite
  <2>2. earlier \in Stage /\ earlier < s
    BY <1>1, Earlier
  <2>3. outcome[earlier] \in {"pass", "revalidated"}
    BY <1>1, <2>1, <2>2 DEF FlowInv, BehindInv, Passed
  <2>. QED
    BY <2>3
<1>2. FlowInv /\ [Next]_vars => [Blocked]_vars
  BY <1>1
<1>. QED
  BY <1>2, SpecFlowInv, PTL DEF Spec, FailedStageBlocksLater

-----------------------------------------------------------------------------
(* A backtrack is honoured.                                                *)

\* Until the stage the flow went back to has run, the flow is not past it.
OwedInv ==
    owed # NoStage =>
        /\ owed \in Stage
        /\ ~ahead =>
              /\ pc \in {"pick", "saved", "checkpoint", "route", "validate"} => stage <= owed
              /\ pc \in {"saved", "checkpoint", "route"} /\ result.passed => stage # owed

LEMMA OwedInvStep ==
    ASSUME ~Resume, FlowInv, OwedInv, [Next]_vars
    PROVE  OwedInv'
<1>0. /\ stage \in Nat /\ NoStage \notin Stage /\ \A s \in Stage : s \in Nat
      /\ pc \in {"pick", "saved", "checkpoint", "route"} => stage \in Stage
  <2>1. NoStage \notin Stage
    BY FlowAssumption DEF Stage
  <2>. QED
    BY <2>1, Earlier DEF FlowInv, PlaceOK
\* Where the flow goes by a pass it has run the stage owed, elsewhere it stays behind it.
<1>1. ASSUME NEW s \in Nat, Goto(s), pc = "route", UNCHANGED owed,
             ~ahead' => ~ahead /\ (s <= stage \/ (s = stage + 1 /\ result.passed))
      PROVE  OwedInv'
  <2>1. stage' = s /\ pc' \in {"pick", "validate"} /\ owed' = owed
    BY <1>1 DEF Goto
  <2>2. ASSUME owed # NoStage, ~ahead'
        PROVE  s <= owed
    <3>1. owed \in Nat /\ stage <= owed /\ (result.passed => stage # owed)
      BY <1>0, <1>1, <2>2 DEF OwedInv
    <3>. QED
      BY <1>0, <1>1, <2>2, <3>1
  <2>. QED
    BY <2>1, <2>2 DEF OwedInv
<1>2. CASE Start
  BY <1>0, <1>2 DEF Start, OwedInv
<1>3. CASE Crash \/ ChangeTask \/ Validate
  BY <1>3 DEF Crash, ChangeTask, Validate, history, OwedInv
<1>4. CASE Reuse
  BY <1>4 DEF Reuse, Reusable
<1>5. CASE \E passed \in BOOLEAN : \E names \in Asks(passed) : StageSaves(passed, names)
  BY <1>5 DEF StageSaves, MustRun, OwedInv
<1>6. CASE StageReports \/ Checkpoint
  BY <1>6 DEF StageReports, Checkpoint, history, OwedInv
<1>7. CASE PassesThrough \/ StageDies
  BY <1>7 DEF PassesThrough, StageDies, MustRun, OwedInv
<1>8. CASE ProceedUnreviewed \/ Proceed
  BY <1>0, <1>1, <1>8 DEF ProceedUnreviewed, Proceed, Unreviewed
<1>9. CASE RetryStage \/ ControllerFails
  BY <1>0, <1>1, <1>9 DEF RetryStage, ControllerFails
<1>10. CASE Backtrack
  <2>1. CASE Goto(stage) /\ UNCHANGED <<owed, ahead>>
    BY <1>0, <1>1, <1>10, <2>1 DEF Backtrack
  <2>2. ASSUME NEW s \in Stage, Goto(s), owed' = s
        PROVE  OwedInv'
    <3>1. stage' = s /\ pc' \in {"pick", "validate"} /\ s <= s
      BY <1>0, <2>2 DEF Goto
    <3>. QED
      BY <2>2, <3>1 DEF OwedInv
  <2>. QED
    BY <1>10, <2>1, <2>2 DEF Backtrack, Follow
<1>11. CASE Reroute
  <2>1. PICK s \in Stage : Goto(s) /\ ahead' = (ahead \/ s > stage)
    BY <1>11 DEF Reroute, Follow
  <2>2. ~ahead' => ~ahead /\ ~(s > stage)
    BY <2>1, Zenon
  <2>3. s \in Nat /\ (~(s > stage) => s <= stage)
    BY <1>0
  <2>. QED
    BY <1>1, <1>11, <2>1, <2>2, <2>3 DEF Reroute
<1>12. CASE UNCHANGED vars
  BY <1>12 DEF vars, agent, history, OwedInv
<1>. QED
  BY <1>2, <1>3, <1>4, <1>5, <1>6, <1>7, <1>8, <1>9, <1>10, <1>11, <1>12 DEF Next

\* Without reuse nothing runs behind the stage the flow was sent back to before that stage
\* has, whatever dies, raises or is killed, unless a request leads past a stage
\* (choose_next_stage: honour open backtrack requests before downstream progress).
THEOREM SpecBacktrackIsHonoured ==
    ASSUME ~Resume
    PROVE  Spec => BacktrackIsHonoured
<1> DEFINE Honoured == \A s \in Stage :
                          states'[s] # states[s] /\ owed # NoStage /\ ~ahead => s <= owed
<1>1. Init => OwedInv
  BY DEF Init, OwedInv
<1>2. FlowInv /\ OwedInv /\ [Next]_vars => OwedInv'
  BY OwedInvStep
<1>3. ASSUME FlowInv, OwedInv, [Next]_vars, NEW s \in Stage, states'[s] # states[s],
             owed # NoStage, ~ahead
      PROVE  s <= owed
  BY <1>3, OnlyRunsWrite DEF OwedInv
<1>4. FlowInv /\ OwedInv /\ [Next]_vars => [Honoured]_vars
  BY <1>3
<1>. QED
  BY <1>1, <1>2, <1>4, SpecFlowInv, PTL DEF Spec, BacktrackIsHonoured
=============================================================================
