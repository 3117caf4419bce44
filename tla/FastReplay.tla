------------------------------ MODULE FastReplay ------------------------------
(***************************************************************************)
(* The saved simulator: a board simulation is stopped once after the       *)
(* weights are loaded, its native snapshot is kept on the remote host, and *)
(* later runs of the same compiled model restore it instead of compiling   *)
(* and loading again.                                                      *)
(*                                                                         *)
(*   src/accagent/framework/fast_replay.py            the replay state     *)
(*   src/accagent/framework/stage_repair_execute.py   the controller       *)
(*   scripts/verification/case_board_vcs_functional.py   the runner        *)
(*   src/accagent/framework/simulation_checkpoint.py  requests             *)
(*                                                                         *)
(* One controller starts one runner at a time.  It picks the action from   *)
(* the replay state; the runner captures, recaptures or restores, writes   *)
(* its report, acknowledges the checkpoint, updates the state, and after a *)
(* complete capture goes straight on to the restore check; the controller  *)
(* then looks at the report once more.  Each of these is a step, and the   *)
(* runner alone or both may die between any two.  The detached simulation  *)
(* of a cold run is that of ExactBoardJob and is one step here; outputs,   *)
(* probes and the verdict on the hardware are left out.                    *)
(***************************************************************************)
EXTENDS Naturals

CONSTANTS
    Model,      \* compiled model and workload, the identity of a snapshot
    NoModel,    \* a report or a state without an identity
    Events,     \* what may go wrong in the instance
    MaxEvents,  \* bound: events in one behaviour
    MaxCount    \* bound: restores told apart

Hard == {"crash", "transfer", "compile"}

ASSUME FastReplayAssumption ==
    /\ NoModel \notin Model
    /\ Events \subseteq Hard \cup {"replace", "capture", "restore"}
    /\ MaxEvents \in Nat
    /\ MaxCount \in Nat

VARIABLES
    board,      \* identity of the current board manifest
    state,      \* fast_replay_state.json
    request,    \* fast_replay_request.json exists
    store,      \* local checkpoint directory of each model
    remote,     \* remote work directory of each model
    report,     \* case_board_vcs_functional.json
    fresh,      \* the report is newer than the start of the controller's step
    pc, plan,   \* progress and chosen path of the controller and its runner
    result,     \* the report the runner is about to write
    restored,   \* history: the models whose present snapshot has been restored
    launches,   \* history: restores launched of each model
    events, disturbed   \* events so far; whether one of them was a hard one

disk   == <<state, request, store, report>>
local  == <<fresh, pc, plan, result>>
ghost  == <<restored, launches>>
budget == <<events, disturbed>>
vars   == <<board, disk, remote, local, ghost, budget>>

-----------------------------------------------------------------------------
Status == {"none", "captured", "ready", "repair_required"}

States == [status : Status, model : Model \cup {NoModel}, tried : BOOLEAN,
           manifest : BOOLEAN, reuse : 0 .. MaxCount, last : 0 .. MaxCount]

Reports == [model : Model \cup {NoModel}, compiled : BOOLEAN,
            mode : {"none", "cold_capture", "native_exact_model"},
            artifact : BOOLEAN, acknowledged : BOOLEAN, complete : BOOLEAN,
            execution : 0 .. MaxCount]

WorkDir == [simv : BOOLEAN, snapshot : BOOLEAN, restore : {"none", "running", "pass", "fail"}]

TypeOK ==
    /\ board \in Model
    /\ state \in States
    /\ state.status = "none" <=> state.model = NoModel
    /\ request \in BOOLEAN
    /\ store \in [Model -> {"none", "pending", "acknowledged"}]
    /\ remote \in [Model -> WorkDir]
    /\ report \in Reports
    /\ result \in Reports
    /\ fresh \in BOOLEAN
    /\ pc \in {"idle", "run", "collect", "publish", "restoring", "finalize", "acknowledge",
               "update", "continue", "observe"}
    /\ plan \in {"cold", "recapture", "restore"}
    /\ restored \subseteq Model
    /\ launches \in [Model -> 0 .. MaxCount]
    /\ events \in 0 .. MaxEvents
    /\ disturbed \in BOOLEAN

\* A report that names no identity: every refusal before the remote tool is started.
Bare == [model |-> NoModel, compiled |-> FALSE, mode |-> "none", artifact |-> FALSE,
         acknowledged |-> FALSE, complete |-> FALSE, execution |-> 0]

Init ==
    /\ board \in Model
    /\ state = [status |-> "none", model |-> NoModel, tried |-> FALSE, manifest |-> FALSE,
                reuse |-> 0, last |-> 0]
    /\ request = FALSE
    /\ store = [m \in Model |-> "none"]
    /\ remote = [m \in Model |-> [simv |-> FALSE, snapshot |-> FALSE, restore |-> "none"]]
    /\ report = Bare
    /\ result = Bare
    /\ fresh = FALSE
    /\ pc = "idle"
    /\ plan = "cold"
    /\ restored = {}
    /\ launches = [m \in Model |-> 0]
    /\ events = 0
    /\ disturbed = FALSE

Event(e) ==
    /\ e \in Events
    /\ events < MaxEvents
    /\ events' = events + 1
    /\ disturbed' = (disturbed \/ e \in Hard)

\* The step goes well, or event e spoils it.
Outcome(e, good) == IF good THEN UNCHANGED budget ELSE Event(e)

Next1(n) == IF n < MaxCount THEN n + 1 ELSE n

-----------------------------------------------------------------------------
(* The controller: stable_checkpoint_lifecycle and the environment of the   *)
(* runner.                                                                  *)

\* What the state of this very model asks for.
Pursued(s) ==
    CASE s.status = "repair_required" ->
            IF ~s.tried /\ s.manifest THEN "restore_check_required" ELSE "recapture_required"
      [] s.status = "captured" -> "restore_check_required"
      [] OTHER -> "ready"

\* Mutant: the state is trusted whatever model it is about.
LifecycleOfAnyModel(s, b) == IF s.model = NoModel THEN "capture_required" ELSE Pursued(s)

\* Mutant: a snapshot that failed its restore is restored again.
LifecycleRestoring(s, b) ==
    IF s.model # b THEN "capture_required"
    ELSE IF s.manifest THEN "restore_check_required" ELSE Pursued(s)

\* A state of a model always names its work directory and simulator, so a failed attempt
\* of the same model leads to the recapture and never to another cold run.
Lifecycle(s, b) == IF s.model # b THEN "capture_required" ELSE Pursued(s)

Replays(lifecycle) == lifecycle \in {"restore_check_required", "ready"}

\* prepare_stage3_checkpoint_probe_environment: without the saved request a replay is
\* refused and no tool starts.
Prepare ==
    LET lifecycle == Lifecycle(state, board) IN
    /\ pc = "idle"
    /\ Replays(lifecycle) => request
    /\ plan' = CASE Replays(lifecycle) -> "restore"
                 [] lifecycle = "recapture_required" -> "recapture"
                 [] OTHER -> "cold"
    /\ pc' = "run"
    /\ fresh' = FALSE
    /\ UNCHANGED <<board, disk, remote, result, ghost, budget>>

\* A repair changes the sources, or is rolled back.
ReplaceBoard ==
    /\ pc = "idle"
    /\ Event("replace")
    /\ \E m \in Model \ {board} : board' = m
    /\ UNCHANGED <<disk, remote, local, ghost>>

-----------------------------------------------------------------------------
(* Capture and recapture.                                                   *)

Ends(r) == result' = r /\ pc' = "finalize" /\ UNCHANGED <<fresh, plan>>

\* An upload or a download fails before a tool starts.
TransferFails ==
    /\ pc = "run"
    /\ Event("transfer")
    /\ Ends(Bare)
    /\ UNCHANGED <<board, disk, remote, ghost>>

CaptureReport(compiled, artifact, complete) ==
    [model |-> board, compiled |-> compiled, mode |-> "cold_capture", artifact |-> artifact,
     acknowledged |-> FALSE, complete |-> complete, execution |-> 0]

\* The cleanup before a compile stops what still runs on the remote host.
Stopped(restore) == IF restore = "running" THEN "none" ELSE restore

\* The cold run prunes older work directories, compiles, loads the weights and saves a
\* snapshot.
ColdRun(kept, compiled, saved, complete) ==
    /\ pc = "run" /\ plan = "cold"
    /\ complete => saved
    /\ saved => compiled
    /\ IF compiled THEN Outcome("capture", complete) ELSE Event("compile")
    /\ remote' = [m \in Model |->
            IF m = board
            THEN [simv |-> compiled, snapshot |-> saved, restore |-> "none"]
            ELSE IF m \in kept THEN [remote[m] EXCEPT !.restore = Stopped(@)]
            ELSE [simv |-> FALSE, snapshot |-> FALSE, restore |-> "none"]]
    /\ restored' = (restored \cap kept) \ {board}
    /\ result' = CaptureReport(compiled, saved, complete)
    /\ pc' = IF saved THEN "collect" ELSE "finalize"
    /\ UNCHANGED <<board, disk, fresh, plan, launches>>

\* What the recapture asks of the saved state and of the runner's last report.
Recapturable ==
    /\ state.model = board
    /\ state.status = "repair_required"
    /\ report.model = board
    /\ report.compiled
    /\ remote[board].simv

RecaptureRefused ==
    /\ pc = "run" /\ plan = "recapture"
    /\ ~Recapturable
    /\ Ends(Bare)
    /\ UNCHANGED <<board, disk, remote, ghost, budget>>

\* The saved simulator loads the weights again and saves over the bad snapshot; its run may
\* end badly after the snapshot was saved.
Recapture(saved, complete) ==
    /\ pc = "run" /\ plan = "recapture"
    /\ Recapturable
    /\ complete => saved
    /\ Outcome("capture", complete)
    /\ remote' = [remote EXCEPT ![board].snapshot = saved]
    /\ restored' = restored \ {board}
    /\ result' = CaptureReport(TRUE, saved, complete)
    /\ pc' = IF saved THEN "collect" ELSE "finalize"
    /\ UNCHANGED <<board, disk, fresh, plan, launches>>

\* The checkpoint directory is named by model and work directory, so the one of an earlier
\* capture is removed before the new one is renamed into place.
Collect ==
    /\ pc = "collect"
    /\ store' = [store EXCEPT ![board] = "none"]
    /\ pc' = "publish"
    /\ UNCHANGED <<board, state, request, report, remote, fresh, plan, result, ghost, budget>>

Publish ==
    /\ pc = "publish"
    /\ store' = [store EXCEPT ![board] = "pending"]
    /\ pc' = "finalize"
    /\ UNCHANGED <<board, state, request, report, remote, fresh, plan, result, ghost, budget>>

-----------------------------------------------------------------------------
(* Restore.                                                                 *)

\* restore_inputs: a saved, acknowledged checkpoint that is captured, ready, or failed
\* without a restore of its own.
RestoreInputs ==
    /\ \/ state.status \in {"captured", "ready"}
       \/ state.status = "repair_required" /\ ~state.tried
    /\ state.manifest
    /\ store[state.model] = "acknowledged"

Restorable ==
    /\ RestoreInputs
    /\ remote[state.model].simv
    /\ remote[state.model].snapshot

RestoreRefused ==
    /\ pc = "run" /\ plan = "restore"
    /\ ~Restorable
    /\ Ends(Bare)
    /\ UNCHANGED <<board, disk, remote, ghost, budget>>

\* A restore that still runs is attached to; the marker of one that ended is cleared and
\* the snapshot is restored again.
Restore ==
    LET m == state.model IN
    /\ pc = "run" /\ plan = "restore"
    /\ Restorable
    /\ pc' = "restoring"
    /\ IF remote[m].restore = "running"
       THEN UNCHANGED <<remote, launches>>
       ELSE /\ remote' = [remote EXCEPT ![m].restore = "running"]
            /\ launches' = [launches EXCEPT ![m] = Next1(@)]
    /\ UNCHANGED <<board, disk, fresh, plan, result, restored, budget>>

\* The detached simulator prints its restore marker, or does not.
RestoreEnds(m, good) ==
    /\ remote[m].restore = "running"
    /\ Outcome("restore", good)
    /\ remote' = [remote EXCEPT ![m].restore = IF good THEN "pass" ELSE "fail"]
    /\ restored' = IF good THEN restored \cup {m} ELSE restored
    /\ UNCHANGED <<board, disk, local, launches>>

RestoreCollected ==
    LET m == state.model
        good == remote[m].restore = "pass" IN
    /\ pc = "restoring"
    /\ remote[m].restore \in {"pass", "fail"}
    /\ Ends([model |-> m, compiled |-> TRUE, mode |-> "native_exact_model",
             artifact |-> good, acknowledged |-> FALSE, complete |-> FALSE,
             execution |-> launches[m]])
    /\ UNCHANGED <<board, disk, remote, ghost, budget>>

-----------------------------------------------------------------------------
(* The report, the acknowledgment and the replay state.                     *)

WriteReport ==
    /\ pc = "finalize"
    /\ report' = result
    /\ fresh' = TRUE
    /\ pc' = "acknowledge"
    /\ UNCHANGED <<board, state, request, store, remote, plan, result, ghost, budget>>

Acknowledge ==
    /\ pc = "acknowledge"
    /\ pc' = "update"
    /\ IF result.mode = "cold_capture" /\ result.artifact
       THEN /\ store' = [store EXCEPT ![result.model] = "acknowledged"]
            /\ result' = [result EXCEPT !.acknowledged = TRUE]
            /\ report' = result'
       ELSE UNCHANGED <<store, result, report>>
    /\ UNCHANGED <<board, state, request, remote, fresh, plan, ghost, budget>>

Captured(r) ==
    /\ r.mode = "cold_capture"
    /\ r.artifact /\ r.acknowledged
    /\ store[r.model] = "acknowledged"

\* Mutant: a restore confirms the snapshot if it left its marker or the state was captured.
RestoreReadyFor(s, r) ==
    r.mode = "native_exact_model" /\ (r.artifact \/ s.status = "captured")

RestoreReady(s, r) == r.mode = "native_exact_model" /\ r.artifact

\* Mutant: every observation of a restore counts.
CountedAgain(s, r) == Next1(s.reuse)

\* The runner and the controller both see the report of a restore: it counts once.
Counted(s, r) == IF s.last = r.execution THEN s.reuse ELSE Next1(s.reuse)

\* update_fast_replay_state: counters are those of the model, a new snapshot is untried, a
\* failure waits for repair or recapture.
Updated(s, r) ==
    LET own == IF s.model = r.model THEN s
               ELSE [s EXCEPT !.tried = FALSE, !.manifest = FALSE, !.reuse = 0, !.last = 0]
        named == [own EXCEPT !.model = r.model,
                             !.manifest = @ \/ (r.mode = "cold_capture" /\ r.artifact)]
    IN  IF r.model = NoModel THEN s
        ELSE IF Captured(r) THEN [named EXCEPT !.status = "captured", !.tried = FALSE]
        ELSE IF RestoreReady(s, r)
             THEN [named EXCEPT !.status = "ready", !.tried = TRUE,
                                !.reuse = Counted(own, r), !.last = r.execution]
        ELSE [named EXCEPT !.status = "repair_required",
                           !.tried = @ \/ r.mode = "native_exact_model"]

Record(r) ==
    /\ state' = Updated(state, r)
    /\ request' = (request \/ Captured(r))
    /\ UNCHANGED <<store, report>>

UpdateState ==
    /\ pc = "update"
    /\ Record(result)
    /\ pc' = "continue"
    /\ UNCHANGED <<board, remote, fresh, plan, result, ghost, budget>>

\* A complete capture is followed by its restore check in the same process.
Continue ==
    /\ pc = "continue"
    /\ IF result.complete /\ state.status = "captured" /\ request
       THEN plan' = "restore" /\ pc' = "run"
       ELSE pc' = "observe" /\ UNCHANGED plan
    /\ UNCHANGED <<board, disk, remote, fresh, result, ghost, budget>>

\* run_rerun_step looks at the report again if this step wrote it.
Observe ==
    /\ pc = "observe"
    /\ IF fresh THEN Record(report) ELSE UNCHANGED disk
    /\ pc' = "idle"
    /\ UNCHANGED <<board, remote, fresh, plan, result, ghost, budget>>

\* The runner dies and the controller goes on, or both die.
Crash(to) ==
    /\ pc \notin {"idle", to}
    /\ Event("crash")
    /\ pc' = to
    /\ UNCHANGED <<board, disk, remote, fresh, plan, result, ghost>>

-----------------------------------------------------------------------------
Work ==
    \/ Prepare
    \/ RecaptureRefused \/ Collect \/ Publish
    \/ RestoreRefused \/ Restore \/ RestoreCollected
    \/ WriteReport \/ Acknowledge \/ UpdateState \/ Continue \/ Observe
    \/ \E kept \in SUBSET (Model \ {board}),
          compiled \in BOOLEAN, saved \in BOOLEAN, complete \in BOOLEAN :
            ColdRun(kept, compiled, saved, complete)
    \/ \E saved \in BOOLEAN, complete \in BOOLEAN : Recapture(saved, complete)

RemoteEnds == \E m \in Model, good \in BOOLEAN : RestoreEnds(m, good)

Next ==
    \/ Work
    \/ RemoteEnds
    \/ ReplaceBoard
    \/ TransferFails
    \/ \E to \in {"observe", "idle"} : Crash(to)

Spec == Init /\ [][Next]_vars

\* The controller asks for the next run as long as the loop goes on, a runner that is not
\* killed goes on, and a simulation that was started ends.
FairSpec == Spec /\ WF_vars(Work) /\ WF_vars(RemoteEnds)

-----------------------------------------------------------------------------
(* Correctness.                                                            *)

\* A snapshot is ready for reuse only when this very snapshot was restored once: a capture
\* over it, or a pruned directory, is never covered by an older confirmation.
ReadySnapshotWasRestored ==
    state.status = "ready" /\ remote[state.model].snapshot => state.model \in restored

\* The simulator that is restored is the one of the board as it is now, although the runner
\* does not look at the board (restore_inputs reads the saved record only).
RestoreIsOfTheBoard == pc = "restoring" => state.model = board

\* Each restore is counted once, although the runner and the controller report it both.
ReuseCountsRestores ==
    state.model # NoModel => state.reuse <= launches[state.model]

\* A failed attempt is repaired or recaptured by the next run: with nothing but failing
\* captures and restores and changing boards, a snapshot of the board gets ready.
ReadyForTheBoard == state.status = "ready" /\ state.model = board
SnapshotGetsReady == <>[](disturbed \/ ReadyForTheBoard)
=============================================================================
