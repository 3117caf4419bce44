-------------------------- MODULE FastReplay_proofs --------------------------
(***************************************************************************)
(* Proofs about FastReplay, for any models, events and bounds: what is     *)
(* ready was restored, what is restored is of the board, and a restore is  *)
(* counted once.                                                           *)
(***************************************************************************)
EXTENDS FastReplay, TLAPS

Passed(r) == r.mode = "native_exact_model" /\ r.artifact

Quiet(m) == remote[m].restore \in {"none", "fail"}

\* No snapshot of m is left, or it was restored.
Confirmed(m) == remote[m].snapshot => m \in restored

\* What is recorded of report r is true of the remote host and of the counters.
Sound(r) ==
    /\ r.model = NoModel => r.mode = "none" /\ ~r.complete
    /\ r.mode = "native_exact_model" => r.execution = launches[r.model]
    /\ Passed(r) => Confirmed(r.model)
    /\ r.model # NoModel /\ ~Passed(r) /\ ~r.acknowledged => Quiet(r.model)
    /\ r.acknowledged => r.mode = "cold_capture" /\ r.artifact

\* The path the runner is on fits the state and the board, which only change between runs.
PathInv ==
    /\ pc = "run" /\ plan = "cold" => state.model # board
    /\ pc = "run" /\ plan = "recapture" =>
          /\ state.model = board
          /\ state.status = "repair_required"
          /\ state.tried \/ ~state.manifest
    /\ pc = "run" /\ plan = "restore" => state.model = board
    /\ pc = "restoring" => state.model = board
    /\ pc \in {"collect", "publish", "finalize", "acknowledge", "update", "continue"} =>
          result.model \in {NoModel, board}
    /\ pc = "continue" /\ result.complete => state.model = board

\* The report about to be written and the one written in this step are sound, and a step
\* that goes on to a restore has only acknowledged a capture so far.
ReportInv ==
    /\ pc \in {"collect", "publish", "finalize", "acknowledge", "update"} =>
          /\ Sound(result)
          /\ result.complete => result.mode = "cold_capture" /\ result.artifact
    /\ pc \in {"collect", "publish", "finalize", "acknowledge"} => ~result.acknowledged
    /\ pc \in {"acknowledge", "update", "continue"} => report = result /\ fresh
    /\ pc = "run" /\ fresh => plan = "restore"
    /\ pc \in {"collect", "publish"} => ~fresh
    /\ pc \in {"run", "restoring", "finalize"} /\ fresh => report.acknowledged
    /\ pc \in {"update", "continue"} /\ result.complete => result.acknowledged
    /\ fresh => Sound(report) /\ (report.acknowledged => store[report.model] = "acknowledged")

\* The snapshot of a failed state is not being restored, and one that passed was restored.
SnapshotInv ==
    /\ \A m \in Model : remote[m].restore = "pass" => Confirmed(m)
    /\ state.status = "repair_required" /\ (state.tried \/ ~state.manifest)
          => Quiet(state.model)

\* A restore is counted when it was the last one launched.
CountInv ==
    state.model # NoModel =>
        /\ state.reuse <= state.last
        /\ state.last <= launches[state.model]

IInv ==
    /\ TypeOK
    /\ PathInv
    /\ ReportInv
    /\ SnapshotInv
    /\ CountInv
    /\ ReadySnapshotWasRestored

-----------------------------------------------------------------------------
LEMMA PrepareInv ==
  ASSUME IInv, Prepare
  PROVE  IInv'
  <1> USE FastReplayAssumption DEF IInv, disk, local, ghost, budget
  <1>1. TypeOK'
    <2>1. plan' \in {"cold", "recapture", "restore"}
      BY DEF Prepare
    <2>. QED
      BY <2>1 DEF TypeOK, Prepare
  <1>2. PathInv'
    BY DEF PathInv, Prepare, Lifecycle, Pursued, Replays
  <1>3. ReportInv'
    BY DEF ReportInv, Prepare
  <1>4. SnapshotInv' /\ ReadySnapshotWasRestored'
    BY DEF SnapshotInv, ReadySnapshotWasRestored, Quiet, Confirmed, Prepare
  <1>5. CountInv'
    BY DEF CountInv, Prepare
  <1>. QED
    BY <1>1, <1>2, <1>3, <1>4, <1>5

LEMMA ReplaceBoardInv ==
  ASSUME IInv, ReplaceBoard
  PROVE  IInv'
  <1> USE FastReplayAssumption DEF IInv, disk, local, ghost, budget
  <1>1. TypeOK'
    BY DEF TypeOK, ReplaceBoard, Event
  <1>2. PathInv'
    BY DEF PathInv, ReplaceBoard
  <1>3. ReportInv'
    BY DEF ReportInv, Sound, Quiet, Confirmed, ReplaceBoard
  <1>4. SnapshotInv' /\ ReadySnapshotWasRestored'
    BY DEF SnapshotInv, ReadySnapshotWasRestored, Quiet, Confirmed, ReplaceBoard
  <1>5. CountInv'
    BY DEF CountInv, ReplaceBoard
  <1>. QED
    BY <1>1, <1>2, <1>3, <1>4, <1>5

LEMMA TransferFailsInv ==
  ASSUME IInv, TransferFails
  PROVE  IInv'
  <1> USE FastReplayAssumption DEF IInv, disk, local, ghost, budget
  <1>1. TypeOK'
    BY DEF TypeOK, Reports, TransferFails, Event, Ends, Bare
  <1>2. PathInv'
    BY DEF PathInv, TransferFails, Ends, Bare
  <1>3. ReportInv'
    BY DEF ReportInv, Sound, Passed, TransferFails, Ends, Bare
  <1>4. SnapshotInv' /\ ReadySnapshotWasRestored'
    BY DEF SnapshotInv, ReadySnapshotWasRestored, Quiet, Confirmed, TransferFails
  <1>5. CountInv'
    BY DEF CountInv, TransferFails
  <1>. QED
    BY <1>1, <1>2, <1>3, <1>4, <1>5

LEMMA ColdRunInv ==
  ASSUME IInv, NEW kept \in SUBSET (Model \ {board}), NEW compiled \in BOOLEAN,
         NEW saved \in BOOLEAN, NEW complete \in BOOLEAN, ColdRun(kept, compiled, saved, complete)
  PROVE  IInv'
  <1> USE FastReplayAssumption DEF IInv, disk, local, ghost, budget
  <1>1. TypeOK'
    <2>1. remote' \in [Model -> WorkDir]
      <3>1. \A m \in Model : remote[m] \in WorkDir /\ Stopped(remote[m].restore) \in {"none", "pass", "fail"}
        BY DEF TypeOK, WorkDir, Stopped
      <3>2. \A m \in Model : [remote[m] EXCEPT !.restore = Stopped(@)] \in WorkDir
        BY <3>1 DEF WorkDir
      <3>. QED
        BY <3>2 DEF ColdRun, WorkDir
    <2>2. events' \in 0 .. MaxEvents /\ disturbed' \in BOOLEAN
      <3>1. CASE compiled /\ complete
        BY <3>1 DEF TypeOK, ColdRun, Outcome
      <3>2. CASE ~(compiled /\ complete)
        <4>1. \E e \in {"capture", "compile"} : Event(e)
          BY <3>2 DEF ColdRun, Outcome
        <4>. QED
          BY <4>1 DEF TypeOK, Event
      <3>. QED
        BY <3>1, <3>2
    <2>3. result' \in Reports
      BY DEF TypeOK, ColdRun, CaptureReport, Reports
    <2>. QED
      BY <2>1, <2>2, <2>3 DEF TypeOK, ColdRun
  <1>2. PathInv'
    BY DEF PathInv, ColdRun, CaptureReport
  <1>3. ReportInv'
    BY DEF TypeOK, ReportInv, Sound, Passed, Quiet, ColdRun, CaptureReport
  <1>4. SnapshotInv' /\ ReadySnapshotWasRestored'
    BY DEF TypeOK, PathInv, SnapshotInv, ReadySnapshotWasRestored, Quiet, Confirmed, States,
       ColdRun, Stopped
  <1>5. CountInv'
    BY DEF CountInv, ColdRun
  <1>. QED
    BY <1>1, <1>2, <1>3, <1>4, <1>5

LEMMA RecaptureRefusedInv ==
  ASSUME IInv, RecaptureRefused
  PROVE  IInv'
  <1> USE FastReplayAssumption DEF IInv, disk, local, ghost, budget
  <1>1. TypeOK'
    BY DEF TypeOK, Reports, RecaptureRefused, Ends, Bare
  <1>2. PathInv'
    BY DEF PathInv, RecaptureRefused, Ends, Bare
  <1>3. ReportInv'
    BY DEF ReportInv, Sound, Passed, RecaptureRefused, Ends, Bare
  <1>4. SnapshotInv' /\ ReadySnapshotWasRestored'
    BY DEF SnapshotInv, ReadySnapshotWasRestored, Quiet, Confirmed, RecaptureRefused
  <1>5. CountInv'
    BY DEF CountInv, RecaptureRefused
  <1>. QED
    BY <1>1, <1>2, <1>3, <1>4, <1>5

LEMMA RecaptureInv ==
  ASSUME IInv, NEW saved \in BOOLEAN, NEW complete \in BOOLEAN, Recapture(saved, complete)
  PROVE  IInv'
  <1> USE FastReplayAssumption DEF IInv, disk, local, ghost, budget
  <1>1. TypeOK'
    BY DEF TypeOK, Reports, WorkDir, Recapture, Recapturable, CaptureReport, Outcome, Event
  <1>2. PathInv'
    BY DEF PathInv, Recapture, CaptureReport
  <1>3. ReportInv'
    BY DEF TypeOK, PathInv, ReportInv, SnapshotInv, Sound, Passed, Quiet, Recapture,
       CaptureReport
  <1>4. SnapshotInv' /\ ReadySnapshotWasRestored'
    BY DEF PathInv, SnapshotInv, ReadySnapshotWasRestored, Quiet, Confirmed, Recapture
  <1>5. CountInv'
    BY DEF CountInv, Recapture
  <1>. QED
    BY <1>1, <1>2, <1>3, <1>4, <1>5

LEMMA CollectInv ==
  ASSUME IInv, Collect
  PROVE  IInv'
  <1> USE FastReplayAssumption DEF IInv, disk, local, ghost, budget
  <1>1. TypeOK'
    BY DEF TypeOK, Collect
  <1>2. PathInv'
    BY DEF PathInv, Collect
  <1>3. ReportInv'
    BY DEF ReportInv, Sound, Quiet, Confirmed, Collect
  <1>4. SnapshotInv' /\ ReadySnapshotWasRestored'
    BY DEF SnapshotInv, ReadySnapshotWasRestored, Quiet, Confirmed, Collect
  <1>5. CountInv'
    BY DEF CountInv, Collect
  <1>. QED
    BY <1>1, <1>2, <1>3, <1>4, <1>5

LEMMA PublishInv ==
  ASSUME IInv, Publish
  PROVE  IInv'
  <1> USE FastReplayAssumption DEF IInv, disk, local, ghost, budget
  <1>1. TypeOK'
    BY DEF TypeOK, Publish
  <1>2. PathInv'
    BY DEF PathInv, Publish
  <1>3. ReportInv'
    BY DEF ReportInv, Sound, Quiet, Confirmed, Publish
  <1>4. SnapshotInv' /\ ReadySnapshotWasRestored'
    BY DEF SnapshotInv, ReadySnapshotWasRestored, Quiet, Confirmed, Publish
  <1>5. CountInv'
    BY DEF CountInv, Publish
  <1>. QED
    BY <1>1, <1>2, <1>3, <1>4, <1>5

LEMMA RestoreRefusedInv ==
  ASSUME IInv, RestoreRefused
  PROVE  IInv'
  <1> USE FastReplayAssumption DEF IInv, disk, local, ghost, budget
  <1>1. TypeOK'
    BY DEF TypeOK, Reports, RestoreRefused, Ends, Bare
  <1>2. PathInv'
    BY DEF PathInv, RestoreRefused, Ends, Bare
  <1>3. ReportInv'
    BY DEF ReportInv, Sound, Passed, RestoreRefused, Ends, Bare
  <1>4. SnapshotInv' /\ ReadySnapshotWasRestored'
    BY DEF SnapshotInv, ReadySnapshotWasRestored, Quiet, Confirmed, RestoreRefused
  <1>5. CountInv'
    BY DEF CountInv, RestoreRefused
  <1>. QED
    BY <1>1, <1>2, <1>3, <1>4, <1>5

LEMMA RestoreInv ==
  ASSUME IInv, Restore
  PROVE  IInv'
  <1> USE FastReplayAssumption DEF IInv, disk, local, ghost, budget
  <1>1. TypeOK'
    BY DEF TypeOK, States, WorkDir, Restore, Restorable, Next1
  <1>2. PathInv'
    BY DEF PathInv, Restore
  <1>3. ReportInv'
    BY DEF ReportInv, Sound, Passed, Restore
  <1>4. SnapshotInv' /\ ReadySnapshotWasRestored'
    BY DEF TypeOK, SnapshotInv, ReadySnapshotWasRestored, Confirmed, WorkDir, Restore,
       Restorable, RestoreInputs
  <1>5. CountInv'
    BY DEF TypeOK, CountInv, States, Restore, Next1
  <1>. QED
    BY <1>1, <1>2, <1>3, <1>4, <1>5

LEMMA RestoreEndsInv ==
  ASSUME IInv, NEW m \in Model, NEW good \in BOOLEAN, RestoreEnds(m, good)
  PROVE  IInv'
  <1> USE FastReplayAssumption DEF IInv, disk, local, ghost, budget
  <1>1. TypeOK'
    <2>1. remote' \in [Model -> WorkDir]
      BY DEF TypeOK, RestoreEnds, WorkDir
    <2>2. events' \in 0 .. MaxEvents /\ disturbed' \in BOOLEAN
      <3>1. CASE good
        BY <3>1 DEF TypeOK, RestoreEnds, Outcome
      <3>2. CASE ~good
        BY <3>2 DEF TypeOK, RestoreEnds, Outcome, Event
      <3>. QED
        BY <3>1, <3>2
    <2>. QED
      BY <2>1, <2>2 DEF TypeOK, RestoreEnds
  <1>2. PathInv'
    BY DEF PathInv, RestoreEnds
  <1>3. ReportInv'
    BY DEF ReportInv, Sound, Quiet, Confirmed, RestoreEnds
  <1>4. SnapshotInv' /\ ReadySnapshotWasRestored'
    BY DEF SnapshotInv, ReadySnapshotWasRestored, Quiet, Confirmed, RestoreEnds
  <1>5. CountInv'
    BY DEF CountInv, RestoreEnds
  <1>. QED
    BY <1>1, <1>2, <1>3, <1>4, <1>5

LEMMA RestoreCollectedInv ==
  ASSUME IInv, RestoreCollected
  PROVE  IInv'
  <1> USE FastReplayAssumption DEF IInv, disk, local, ghost, budget
  <1>1. TypeOK'
    BY DEF TypeOK, PathInv, Reports, RestoreCollected, Ends
  <1>2. PathInv'
    BY DEF PathInv, RestoreCollected, Ends
  <1>3. ReportInv'
    <2>1. result'.model = board /\ board \in Model
      BY DEF TypeOK, PathInv, RestoreCollected, Ends
    <2>2. Sound(result)'
      BY <2>1 DEF SnapshotInv, Sound, Passed, Quiet, Confirmed, RestoreCollected, Ends
    <2>3. fresh => Sound(report)'
      BY DEF ReportInv, Sound, Confirmed, RestoreCollected
    <2>. QED
      BY <2>2, <2>3 DEF ReportInv, RestoreCollected, Ends
  <1>4. SnapshotInv' /\ ReadySnapshotWasRestored'
    BY DEF SnapshotInv, ReadySnapshotWasRestored, Quiet, Confirmed, RestoreCollected
  <1>5. CountInv'
    BY DEF CountInv, RestoreCollected
  <1>. QED
    BY <1>1, <1>2, <1>3, <1>4, <1>5

LEMMA WriteReportInv ==
  ASSUME IInv, WriteReport
  PROVE  IInv'
  <1> USE FastReplayAssumption DEF IInv, disk, local, ghost, budget
  <1>1. TypeOK'
    BY DEF TypeOK, WriteReport
  <1>2. PathInv'
    BY DEF PathInv, WriteReport
  <1>3. ReportInv'
    BY DEF ReportInv, Sound, Quiet, Confirmed, WriteReport
  <1>4. SnapshotInv' /\ ReadySnapshotWasRestored'
    BY DEF SnapshotInv, ReadySnapshotWasRestored, Quiet, Confirmed, WriteReport
  <1>5. CountInv'
    BY DEF CountInv, WriteReport
  <1>. QED
    BY <1>1, <1>2, <1>3, <1>4, <1>5

LEMMA AcknowledgeInv ==
  ASSUME IInv, Acknowledge
  PROVE  IInv'
  <1> USE FastReplayAssumption DEF IInv, disk, local, ghost, budget
  <1>1. TypeOK'
    <2>1. store' \in [Model -> {"none", "pending", "acknowledged"}]
      BY DEF TypeOK, Acknowledge
    <2>2. [result EXCEPT !.acknowledged = TRUE] \in Reports
      BY DEF TypeOK, Reports
    <2>3. result' \in Reports /\ report' \in Reports
      BY <2>2 DEF TypeOK, Acknowledge
    <2>. QED
      BY <2>1, <2>3 DEF TypeOK, Acknowledge
  <1>2. PathInv'
    BY DEF TypeOK, PathInv, Reports, Acknowledge
  <1>3. ReportInv'
    BY DEF TypeOK, ReportInv, Sound, Passed, Quiet, Confirmed, Reports, Acknowledge
  <1>4. SnapshotInv' /\ ReadySnapshotWasRestored'
    BY DEF SnapshotInv, ReadySnapshotWasRestored, Quiet, Confirmed, Acknowledge
  <1>5. CountInv'
    BY DEF CountInv, Acknowledge
  <1>. QED
    BY <1>1, <1>2, <1>3, <1>4, <1>5

\* What the update of the replay state keeps, whoever does it: the runner or the controller.
LEMMA RecordKeeps ==
  ASSUME IInv, NEW r \in Reports, Sound(r), Record(r), UNCHANGED <<remote, ghost>>,
         r.acknowledged => store[r.model] = "acknowledged"
  PROVE  /\ state' \in States
         /\ state'.status = "none" <=> state'.model = NoModel
         /\ request' \in BOOLEAN
         /\ SnapshotInv'
         /\ CountInv'
         /\ ReadySnapshotWasRestored'
  <1> USE FastReplayAssumption DEF ghost, Record
  <1> DEFINE own == IF state.model = r.model THEN state
                    ELSE [state EXCEPT !.tried = FALSE, !.manifest = FALSE,
                                       !.reuse = 0, !.last = 0]
  <1>0. state \in States /\ own \in States /\ request \in BOOLEAN
    <2>1. state \in States /\ request \in BOOLEAN
      BY DEF IInv, TypeOK
    <2>2. 0 \in 0 .. MaxCount
      OBVIOUS
    <2>3. [state EXCEPT !.tried = FALSE, !.manifest = FALSE, !.reuse = 0, !.last = 0] \in States
      BY <2>1, <2>2 DEF States
    <2>. QED
      BY <2>1, <2>3
  <1>1. CASE r.model = NoModel
    <2>1. state' = state
      BY <1>1 DEF Updated
    <2>2. r.mode = "none"
      BY <1>1 DEF Sound
    <2>. QED
      BY <1>0, <2>1, <2>2 DEF IInv, TypeOK, SnapshotInv, CountInv, ReadySnapshotWasRestored,
           Quiet, Confirmed, Captured
  <1>2. CASE r.model # NoModel
    <2> DEFINE named == [own EXCEPT !.model = r.model,
                             !.manifest = @ \/ (r.mode = "cold_capture" /\ r.artifact)]
    <2>1. r.model \in Model
      BY <1>2 DEF Reports
    <2>2. /\ named \in States /\ named.model = r.model
          /\ named.reuse = own.reuse /\ named.last = own.last
      BY <1>0, <2>1 DEF States
    <2>3. own.reuse <= own.last /\ own.last <= launches[r.model] /\ launches[r.model] \in 0 .. MaxCount
      BY <1>0, <1>2, <2>1 DEF IInv, TypeOK, CountInv
    <2>4. Captured(r) \in BOOLEAN /\ RestoreReady(state, r) \in BOOLEAN
      BY DEF Captured, RestoreReady
    <2>5. \A m \in Model : Confirmed(m)' = Confirmed(m) /\ Quiet(m)' = Quiet(m)
      BY DEF Confirmed, Quiet
    <2>6. CASE Captured(r)
      <3>1. state' = [named EXCEPT !.status = "captured", !.tried = FALSE]
        BY <1>2, <2>6 DEF Updated
      <3>2. /\ state' \in States
            /\ state'.status = "captured" /\ state'.model = r.model
            /\ state'.reuse = own.reuse /\ state'.last = own.last
        <4> HIDE DEF own, named
        <4>1. "captured" \in Status
          BY DEF Status
        <4>2. state' \in States
          BY <3>1, <4>1, <2>2 DEF States
        <4>. QED
          BY <3>1, <4>2, <2>2 DEF States
      <3>. QED
        BY <3>2, <2>1, <2>3, <1>0, <2>4 DEF IInv, SnapshotInv, CountInv,
           ReadySnapshotWasRestored, Confirmed
    <2>7. CASE ~Captured(r) /\ RestoreReady(state, r)
      <3>0. r.execution \in 0 .. MaxCount /\ r.execution = launches[r.model] /\ Confirmed(r.model)
        BY <2>7 DEF RestoreReady, Sound, Passed, Reports
      <3>1. state' = [named EXCEPT !.status = "ready", !.tried = TRUE,
                                   !.reuse = Counted(own, r), !.last = r.execution]
        BY <1>2, <2>7 DEF Updated
      <3>2. Counted(own, r) \in 0 .. MaxCount /\ Counted(own, r) <= r.execution
        BY <3>0, <2>3, <1>0 DEF Counted, Next1, States
      <3>3. /\ state' \in States
            /\ state'.status = "ready" /\ state'.model = r.model
            /\ state'.reuse = Counted(own, r) /\ state'.last = r.execution
        <4> HIDE DEF own, named
        <4>1. "ready" \in Status
          BY DEF Status
        <4>2. state' \in States
          BY <3>0, <3>1, <3>2, <4>1, <2>2 DEF States
        <4>. QED
          BY <3>1, <4>2, <2>2 DEF States
      <3>. QED
        BY <3>0, <3>2, <3>3, <2>1, <1>0, <2>4 DEF IInv, SnapshotInv, CountInv,
           ReadySnapshotWasRestored, Confirmed
    <2>8. CASE ~Captured(r) /\ ~RestoreReady(state, r)
      <3>0. Quiet(r.model)
        BY <1>2, <2>8 DEF Captured, RestoreReady, Sound, Passed
      <3>1. state' = [named EXCEPT !.status = "repair_required",
                                   !.tried = @ \/ r.mode = "native_exact_model"]
        BY <1>2, <2>8 DEF Updated
      <3>2. /\ state' \in States
            /\ state'.status = "repair_required" /\ state'.model = r.model
            /\ state'.reuse = own.reuse /\ state'.last = own.last
        <4> HIDE DEF own, named
        <4>1. "repair_required" \in Status
          BY DEF Status
        <4>2. (named.tried \/ r.mode = "native_exact_model") \in BOOLEAN
          OBVIOUS
        <4>3. state' = [named EXCEPT !.status = "repair_required",
                                     !.tried = named.tried \/ r.mode = "native_exact_model"]
          BY <3>1, <2>2 DEF States
        <4>4. state' \in States
          BY <4>1, <4>2, <4>3, <2>2 DEF States
        <4>. QED
          BY <4>3, <4>4, <2>2 DEF States
      <3>. QED
        BY <3>0, <3>2, <2>1, <2>3, <1>0, <2>4 DEF IInv, SnapshotInv, CountInv,
           ReadySnapshotWasRestored, Confirmed, Quiet
    <2>. QED
      BY <2>6, <2>7, <2>8
  <1>. QED
    BY <1>1, <1>2

LEMMA UpdateStateInv ==
  ASSUME IInv, UpdateState
  PROVE  IInv'
  <1> USE FastReplayAssumption DEF IInv, disk, local, ghost, budget
  <1>1. /\ result \in Reports /\ Sound(result)
        /\ result.acknowledged => store[result.model] = "acknowledged"
    BY DEF UpdateState, TypeOK, ReportInv
  <1>2. /\ state' \in States
        /\ state'.status = "none" <=> state'.model = NoModel
        /\ request' \in BOOLEAN
        /\ SnapshotInv' /\ CountInv' /\ ReadySnapshotWasRestored'
    BY <1>1, RecordKeeps DEF UpdateState
  <1>3. TypeOK'
    BY <1>2 DEF TypeOK, UpdateState, Record
  <1>4. PathInv'
    BY DEF PathInv, ReportInv, Sound, UpdateState, Record, Updated
  <1>5. ReportInv'
    BY DEF ReportInv, Sound, Quiet, Confirmed, UpdateState, Record
  <1>. QED
    BY <1>2, <1>3, <1>4, <1>5

LEMMA ContinueInv ==
  ASSUME IInv, Continue
  PROVE  IInv'
  <1> USE FastReplayAssumption DEF IInv, disk, local, ghost, budget
  <1>1. TypeOK'
    BY DEF TypeOK, Continue
  <1>2. PathInv'
    BY DEF PathInv, Continue
  <1>3. ReportInv'
    BY DEF ReportInv, Sound, Quiet, Confirmed, Continue
  <1>4. SnapshotInv' /\ ReadySnapshotWasRestored'
    BY DEF SnapshotInv, ReadySnapshotWasRestored, Quiet, Confirmed, Continue
  <1>5. CountInv'
    BY DEF CountInv, Continue
  <1>. QED
    BY <1>1, <1>2, <1>3, <1>4, <1>5

LEMMA ObserveInv ==
  ASSUME IInv, Observe
  PROVE  IInv'
  <1> USE FastReplayAssumption DEF IInv, disk, local, ghost, budget
  <1>1. CASE fresh
    <2>1. /\ report \in Reports /\ Sound(report) /\ Record(report)
          /\ report.acknowledged => store[report.model] = "acknowledged"
      BY <1>1 DEF Observe, TypeOK, ReportInv
    <2>2. /\ state' \in States
          /\ state'.status = "none" <=> state'.model = NoModel
          /\ request' \in BOOLEAN
          /\ SnapshotInv' /\ CountInv' /\ ReadySnapshotWasRestored'
      BY <2>1, RecordKeeps DEF Observe
    <2>3. TypeOK'
      BY <2>1, <2>2 DEF TypeOK, Observe, Record
    <2>4. PathInv' /\ ReportInv'
      BY <2>1 DEF PathInv, ReportInv, Sound, Quiet, Confirmed, Observe, Record
    <2>. QED
      BY <2>2, <2>3, <2>4
  <1>2. CASE ~fresh
    BY <1>2 DEF Observe, TypeOK, PathInv, ReportInv, SnapshotInv, CountInv,
       ReadySnapshotWasRestored, Quiet, Confirmed
  <1>. QED
    BY <1>1, <1>2

LEMMA CrashInv ==
  ASSUME IInv, NEW to \in {"observe", "idle"}, Crash(to)
  PROVE  IInv'
  <1> USE FastReplayAssumption DEF IInv, disk, local, ghost, budget
  <1>1. TypeOK'
    BY DEF TypeOK, Crash, Event
  <1>2. PathInv'
    BY DEF PathInv, Crash
  <1>3. ReportInv'
    BY DEF ReportInv, Sound, Quiet, Confirmed, Crash
  <1>4. SnapshotInv' /\ ReadySnapshotWasRestored'
    BY DEF SnapshotInv, ReadySnapshotWasRestored, Quiet, Confirmed, Crash
  <1>5. CountInv'
    BY DEF CountInv, Crash
  <1>. QED
    BY <1>1, <1>2, <1>3, <1>4, <1>5

LEMMA InitInv == Init => IInv
  <1> SUFFICES ASSUME Init PROVE IInv
    OBVIOUS
  <1> USE FastReplayAssumption DEF Init
  <1>1. /\ state.status = "none" /\ state.model = NoModel
        /\ 0 \in 0 .. MaxCount /\ 0 \in 0 .. MaxEvents
    OBVIOUS
  <1>2. state \in States
    BY <1>1 DEF States, Status
  <1>3. report \in Reports /\ result \in Reports
    BY <1>1 DEF Reports, Bare
  <1>4. remote \in [Model -> WorkDir]
    BY DEF WorkDir
  <1>5. TypeOK
    BY <1>1, <1>2, <1>3, <1>4 DEF TypeOK
  <1>6. PathInv /\ ReportInv
    BY DEF PathInv, ReportInv
  <1>7. SnapshotInv /\ CountInv /\ ReadySnapshotWasRestored
    BY <1>1 DEF SnapshotInv, CountInv, ReadySnapshotWasRestored
  <1>. QED
    BY <1>5, <1>6, <1>7 DEF IInv

LEMMA StepInv == IInv /\ [Next]_vars => IInv'
  <1> SUFFICES ASSUME IInv, [Next]_vars
               PROVE  IInv'
    OBVIOUS
  <1>1. CASE Work
    <2>1. CASE \E kept \in SUBSET (Model \ {board}),
                  compiled \in BOOLEAN, saved \in BOOLEAN, complete \in BOOLEAN :
                    ColdRun(kept, compiled, saved, complete)
      BY <2>1, ColdRunInv
    <2>2. CASE \E saved \in BOOLEAN, complete \in BOOLEAN : Recapture(saved, complete)
      BY <2>2, RecaptureInv
    <2>. QED
      BY <1>1, <2>1, <2>2, PrepareInv, RecaptureRefusedInv, CollectInv, PublishInv,
         RestoreRefusedInv, RestoreInv, RestoreCollectedInv, WriteReportInv, AcknowledgeInv,
         UpdateStateInv, ContinueInv, ObserveInv DEF Work
  <1>2. CASE RemoteEnds
    BY <1>2, RestoreEndsInv DEF RemoteEnds
  <1>3. CASE ReplaceBoard
    BY <1>3, ReplaceBoardInv
  <1>4. CASE TransferFails
    BY <1>4, TransferFailsInv
  <1>5. CASE \E to \in {"observe", "idle"} : Crash(to)
    BY <1>5, CrashInv
  <1>6. CASE UNCHANGED vars
    BY <1>6 DEF vars, disk, local, ghost, budget, IInv, TypeOK, PathInv, ReportInv, Sound,
       Passed, SnapshotInv, Quiet, Confirmed, CountInv, ReadySnapshotWasRestored
  <1>. QED
    BY <1>1, <1>2, <1>3, <1>4, <1>5, <1>6 DEF Next

LEMMA SpecInv == Spec => []IInv
  BY InitInv, StepInv, PTL DEF Spec

-----------------------------------------------------------------------------
\* The replay state, the checkpoints, the work directories and the reports keep their types.
THEOREM SpecTypeOK == Spec => []TypeOK
  <1>1. IInv => TypeOK
    BY DEF IInv
  <1>. QED
    BY SpecInv, <1>1, PTL

\* A snapshot is called ready only after this very snapshot was restored: neither a capture
\* over it, nor a pruned directory, nor a report seen twice carries an older confirmation
\* over (fast_replay.py, update_fast_replay_state).
THEOREM SpecReadySnapshotWasRestored == Spec => []ReadySnapshotWasRestored
  <1>1. IInv => ReadySnapshotWasRestored
    BY DEF IInv
  <1>. QED
    BY SpecInv, <1>1, PTL

\* The runner restores what the saved record names and never looks at the board, yet that
\* is the board as it is now, however runs, repairs and crashes follow each other
\* (fast_replay.py, restore_inputs).
THEOREM SpecRestoreIsOfTheBoard == Spec => []RestoreIsOfTheBoard
  <1>1. IInv => RestoreIsOfTheBoard
    BY DEF IInv, PathInv, RestoreIsOfTheBoard
  <1>. QED
    BY SpecInv, <1>1, PTL

\* The reuse counter never exceeds the restores that were launched, although the runner and
\* the controller both record the report of a restore.
THEOREM SpecReuseCountsRestores == Spec => []ReuseCountsRestores
  <1>1. IInv => ReuseCountsRestores
    <2>1. SUFFICES ASSUME IInv, state.model # NoModel
                   PROVE  state.reuse <= launches[state.model]
      BY DEF ReuseCountsRestores
    <2>2. state.model \in Model /\ state.reuse \in Nat /\ state.last \in Nat
      BY <2>1, FastReplayAssumption DEF IInv, TypeOK, States
    <2>3. launches[state.model] \in Nat
      BY <2>1, <2>2, FastReplayAssumption DEF IInv, TypeOK
    <2>. QED
      BY <2>1, <2>2, <2>3 DEF IInv, CountInv
  <1>. QED
    BY SpecInv, <1>1, PTL
=============================================================================
