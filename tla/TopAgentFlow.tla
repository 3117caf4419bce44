---------------------------- MODULE TopAgentFlow ----------------------------
(***************************************************************************)
(* The top-level flow: TopAgent.run of src/accagent/framework/agent.py and *)
(* the stage wrappers of stage_agent.py.  Stages run one after the other,  *)
(* each in a process of its own that reads the shared design state handed  *)
(* on by the stage before it and writes a state file, then a report.  The  *)
(* agent writes a checkpoint and routes: on to the next stage, back to the *)
(* stage an open backtrack request names, or to the same stage again.      *)
(* With resume enabled (the default) a stage with a passing checkpoint, a  *)
(* ready report and an unchanged input is reused instead of run.           *)
(*                                                                         *)
(* The agent and the stage process it waits for may be killed between any  *)
(* two writes; the agent then starts again at stage 0.  Of the content of  *)
(* a state file the model keeps a version, unique per write (it stands for *)
(* the hash), the run of each stage it descends from, the verdicts of its  *)
(* transitions (one per run), whether it carries the certificates of a     *)
(* debug loop that passed, and the open requests.  Stage 0 stands for the  *)
(* stages up to the constraint graph, which read fixed files; each later   *)
(* one reads the state handed on, whoever wrote it.  The code hash of a    *)
(* stage does not change; attempt counters, events and reviews are         *)
(* observability only.                                                     *)
(***************************************************************************)
EXTENDS Naturals, Sequences, SequencesExt

CONSTANTS
    LastStage,      \* the stages are 0 .. LastStage
    Bootstrap,      \* the first stages, which a pass leaves without a review
    DebugLoop,      \* the stage that keeps its state outside its own directory, last but one
    Recording,      \* stages that record a retry request when they fail
    Closing,        \* stages whose ready outcome closes the requests addressed to them
    FailAsks,       \* stage -> the lists of stages it may ask to go back to when it fails
    PassAsks,       \* stage -> the same when it passes
    Alias,          \* other names of stages that requests use: name -> stage
    NoStage,        \* a target no stage answers to
    Resume,         \* resume_enabled
    Events,         \* environment events the instance allows
    MaxWrites,      \* bound: state files written in one behaviour
    MaxEvents       \* bound: environment events in one behaviour

Stage == 0 .. LastStage

ASSUME FlowAssumption ==
    /\ LastStage \in Nat
    /\ DebugLoop \in Nat \ {0}
    /\ LastStage = DebugLoop + 1
    /\ Bootstrap \in 1 .. DebugLoop
    /\ Recording \subseteq Stage
    /\ Closing \subseteq Recording
    /\ NoStage \notin 0 .. LastStage + 1
    /\ DOMAIN Alias \cap (Stage \cup {NoStage}) = {}
    /\ \A name \in DOMAIN Alias : Alias[name] \in Stage
    /\ \A s \in Stage : FailAsks[s] \cup PassAsks[s] \subseteq Seq(Stage \cup DOMAIN Alias \cup {NoStage})
    /\ Resume \in BOOLEAN
    /\ Events \subseteq {"crash", "command", "controller", "task", "revalidate"}
    /\ MaxWrites \in Nat
    /\ MaxEvents \in Nat

VARIABLES
    task,       \* version of the task and model files, the input of stage 0
    states,     \* the state file of each stage
    report,     \* the report of each stage
    ckpt,       \* agent/checkpoints/<stage>.json
    writes,     \* versions handed out so far
    events,     \* environment events so far
    pc,         \* progress of the agent process
    stage,      \* stage_index
    carried,    \* sacg_state: the stage whose state file is handed on
    result,     \* the StageResult at hand and the state its report names
    owed,       \* history: target of a backtrack decision that has not run since
    outcome,    \* history: the verdict of the latest run or revalidation of each stage
    basis,      \* history: the run of the stage before that the latest run or revalidation
                \* of each stage rests on
    verified,   \* history: the run of the debug loop whose outcome the flow last took
    ahead,      \* history: since the start a request led on past a stage without its pass
    misled,     \* history: a request led on past a stage, a dying stage left an outdated
                \* state to build on, or a stage was revalidated against one
    asked       \* history: stages asked, since the start, to run again and still to pass

files   == <<task, states, report, ckpt>>
agent   == <<pc, stage, carried, result>>
history == <<owed, outcome, basis, verified, ahead, misled, asked>>
vars    == <<files, writes, events, agent, history>>

-----------------------------------------------------------------------------
Version == 0 .. MaxWrites + MaxEvents

Name == Stage \cup DOMAIN Alias \cup {NoStage}

Request == [kind : {"retry", "backtrack"}, by : Stage, target : Name]

State == [version : Version, line : [Stage -> Version], log : Seq(BOOLEAN),
          certified : BOOLEAN, open : Seq(Request)]

Report == [status : {"none", "ready", "incomplete"}, source : Stage, transition : Nat]

FlowTypeOK ==
    /\ task \in Version
    /\ states \in [Stage -> State]
    /\ report \in [Stage -> Report]
    /\ ckpt \in [Stage -> [status : {"none", "pass", "fail"}, input : Version]]
    /\ writes \in 0 .. MaxWrites
    /\ events \in 0 .. MaxEvents
    /\ pc \in {"down", "pick", "saved", "checkpoint", "route", "validate", "done"}
    /\ stage \in 0 .. LastStage + 1
    /\ carried \in Stage
    /\ result \in [passed : BOOLEAN, reused : BOOLEAN, next : Stage]
    /\ owed \in Stage \cup {NoStage}
    /\ outcome \in [Stage -> {"none", "pass", "revalidated", "fail"}]
    /\ basis \in [Stage -> Version]
    /\ verified \in Version
    /\ ahead \in BOOLEAN
    /\ misled \in BOOLEAN
    /\ asked \subseteq Stage

NoLine == [s \in Stage |-> 0]

NoState == [version |-> 0, line |-> NoLine, log |-> <<>>, certified |-> FALSE, open |-> <<>>]

NoResult == [passed |-> FALSE, reused |-> FALSE, next |-> 0]

Init ==
    /\ task = 0
    /\ states = [s \in Stage |-> NoState]
    /\ report = [s \in Stage |-> [status |-> "none", source |-> 0, transition |-> 0]]
    /\ ckpt = [s \in Stage |-> [status |-> "none", input |-> 0]]
    /\ writes = 0
    /\ events = 0
    /\ pc = "down"
    /\ stage = 0
    /\ carried = 0
    /\ result = NoResult
    /\ owed = NoStage
    /\ outcome = [s \in Stage |-> "none"]
    /\ basis = [s \in Stage |-> 0]
    /\ verified = 0
    /\ ahead = FALSE
    /\ misled = FALSE
    /\ asked = {}

Event(kind) ==
    /\ kind \in Events
    /\ events < MaxEvents
    /\ events' = events + 1

-----------------------------------------------------------------------------
(* Inputs, checkpoints and requests.                                       *)

\* What a stage builds on: the files of the task or the state of the stage before.
Upstream(s) == IF s = 0 THEN task ELSE states[s - 1].version

\* Mutant: the hash covers the path of the input, not its content.
HashedPath(s) == 0

\* stage_input_hash.  The input of the stage after the debug loop is looked for in
\* debug_loop/, where no state file is ever written.
HashedInput(s) == IF s # 0 /\ s - 1 = DebugLoop THEN 0 ELSE Upstream(s)

\* Mutant: a checkpoint is reused although resuming is switched off.
ReusableInAnyRun(s) ==
    /\ s # DebugLoop
    /\ ckpt[s].status = "pass"
    /\ report[s].status = "ready"

\* reusable_stage_result, up to the hashes; expected_stage_sacg_state of the debug
\* loop does not exist.
Reusable(s) ==
    /\ Resume
    /\ s # DebugLoop
    /\ ckpt[s].status = "pass"
    /\ report[s].status = "ready"

Unchanged(s) == ckpt[s].input = HashedInput(s)

OfKind(kind, reqs) == SelectSeq(reqs, LAMBDA r : r.kind = kind)

\* stage_key_for_target
Key(name) == IF name \in DOMAIN Alias THEN Alias[name] ELSE name

Latest(reqs) == Key(Last(reqs).target)

\* record_retry_request and record_backtrack_request are idempotent.
Record(reqs, r) == IF \E i \in DOMAIN reqs : reqs[i] = r THEN reqs ELSE Append(reqs, r)

\* Mutant: a run starts from the state of the stage before.
InheritedFromBefore(s) == IF s = 0 THEN NoState ELSE states[s - 1]

\* What a run of s read: the state file handed on.
Inherited(s) == IF s = 0 THEN NoState ELSE states[carried]

\* The run of the stage before s that the state file of stage c descends from.
DescendsFrom(s, c) == IF s = 0 THEN task ELSE states[c].line[s - 1]

\* The run that is the last word of a stage; a debug loop that passes on what it is handed
\* takes the word of an earlier run.
LastRun(s) == IF s = DebugLoop THEN verified ELSE states[s].version

\* Whether the state file of c descends from the last runs of the stages in S.
Current(c, S) == \A x \in S : states[c].line[x] = LastRun(x)

\* reqs with a backtrack request by s to each of the stages named.
Asked(reqs, s, names) ==
    FoldLeft(LAMBDA acc, t : Record(acc, [kind |-> "backtrack", by |-> s, target |-> t]),
             reqs, names)

\* resolve_open_requests_for_stage: the requests that use the stage's own name.
Resolved(reqs, s) == SelectSeq(reqs, LAMBDA r : r.target # s)

\* The requests in the state a run of s saves: its retry request if it failed, the
\* backtracks it asks for, then record_stage_outcome.
Recorded(s, passed, names) ==
    LET retried == IF ~passed /\ s \in Recording
                   THEN Record(Inherited(s).open, [kind |-> "retry", by |-> s, target |-> s])
                   ELSE Inherited(s).open
        base    == Asked(retried, s, names)
    IN  IF passed /\ s \in Closing THEN Resolved(base, s) ELSE base

\* The requests choose_next_stage reads: of the state the result names.
OpenBacktracks == OfKind("backtrack", states[result.next].open)
OpenRetries    == OfKind("retry", states[result.next].open)

-----------------------------------------------------------------------------
(* The agent process.                                                      *)

\* initialize_run_counters.
Start ==
    /\ pc = "down"
    /\ pc' = "pick"
    /\ stage' = 0
    /\ carried' = 0
    /\ result' = NoResult
    /\ ckpt' = IF Resume THEN ckpt ELSE [s \in Stage |-> [status |-> "none", input |-> 0]]
    /\ ahead' = FALSE
    /\ misled' = (Resume /\ misled)
    /\ asked' = {}
    /\ UNCHANGED <<task, states, report, writes, events, owed, outcome, basis, verified>>

\* What a finished flow can promise of a stage: it ran, or was revalidated, on a state that
\* descends from the last run of the stage before it, whichever file it read.  With
\* resuming the stage after the debug loop has no input hash.
FreshAt(s) ==
    \/ basis[s] = IF s = 0 THEN task ELSE LastRun(s - 1)
    \/ Resume /\ s = DebugLoop + 1

\* The transition the report of s names is promoted in the state file of s.
Promoted(s) ==
    /\ report[s].transition \in DOMAIN states[s].log
    /\ states[s].log[report[s].transition]

\* A stage is reused on the input of its checkpoint, or on any other when the checks of
\* its outputs against the state its report names as its source succeed.
Reuse ==
    /\ pc = "pick"
    /\ Reusable(stage)
    /\ \/ Unchanged(stage) /\ UNCHANGED <<events, outcome, basis, misled>>
       \/ /\ ~Unchanged(stage)
          /\ stage < DebugLoop             \* semantic_revalidation_errors
          /\ stage = 0 \/ Promoted(stage)
          /\ Event("revalidate")
          /\ outcome' = [outcome EXCEPT ![stage] = "revalidated"]
          /\ basis' = [basis EXCEPT ![stage] = DescendsFrom(stage, report[stage].source)]
          /\ misled' = (misled \/ basis'[stage] # Upstream(stage))
    /\ result' = [passed |-> TRUE, reused |-> TRUE, next |-> stage]
    /\ pc' = "checkpoint"
    /\ UNCHANGED <<files, writes, stage, carried, owed, verified, ahead, asked>>

\* What the stage at hand may ask for.
Asks(passed) ==
    IF stage \notin Stage
    THEN {}
    ELSE {<<>>} \cup (IF passed THEN PassAsks[stage] ELSE FailAsks[stage])

MustRun == pc = "pick" /\ ~(Reusable(stage) /\ Unchanged(stage))

\* The stage process: store.save ...
StageSaves(passed, names) ==
    /\ MustRun
    /\ writes < MaxWrites
    /\ writes' = writes + 1
    /\ states' = [states EXCEPT ![stage] =
           [version |-> writes + 1,
            line |-> [Inherited(stage).line EXCEPT ![stage] = writes + 1],
            log |-> Append(Inherited(stage).log, passed),
            certified |-> IF stage = DebugLoop THEN passed ELSE Inherited(stage).certified,
            open |-> Recorded(stage, passed, names)]]
    /\ result' = [passed |-> passed, reused |-> FALSE, next |-> stage]
    /\ pc' = "saved"
    /\ owed' = IF owed = stage THEN NoStage ELSE owed
    /\ outcome' = [outcome EXCEPT ![stage] = IF passed THEN "pass" ELSE "fail"]
    /\ basis' = [basis EXCEPT ![stage] = DescendsFrom(stage, carried)]
    /\ asked' = (asked \ {s \in {stage} : passed}) \cup ({Key(names[i]) : i \in DOMAIN names} \cap Stage)
    /\ verified' = IF stage = DebugLoop THEN writes + 1 ELSE verified
    /\ UNCHANGED <<task, report, ckpt, events, stage, carried, ahead, misled>>

\* ... and then the report.
StageReports ==
    /\ pc = "saved"
    /\ report' = [report EXCEPT ![stage] =
           [status |-> IF result.passed THEN "ready" ELSE "incomplete",
            source |-> carried, transition |-> Len(states[stage].log)]]
    /\ pc' = "checkpoint"
    /\ UNCHANGED <<task, states, ckpt, writes, events, stage, carried, result, history>>

\* The stage process ends with an error before it writes its report; a report that
\* exists from an earlier run is surfaced (GenericStageAgent).
StageDies ==
    /\ MustRun \/ pc = "saved"
    /\ Event("command")
    /\ result' = [passed |-> FALSE, reused |-> FALSE,
                  next |-> IF report[stage].status # "none" THEN stage ELSE carried]
    /\ outcome' = [outcome EXCEPT ![stage] = "fail"]
    /\ misled' = (misled \/ (result'.next = stage /\ ~Current(stage, 0 .. stage - 1)))
    /\ pc' = "checkpoint"
    /\ UNCHANGED <<files, writes, stage, carried, owed, basis, verified, ahead, asked>>

\* A debug loop that is handed a state with certificates for every scope, still valid
\* for the files they bind, passes that state on: it verifies nothing and records no
\* outcome.
PassesThrough ==
    /\ MustRun
    /\ stage = DebugLoop
    /\ states[carried].certified
    /\ report' = [report EXCEPT ![stage] =
           [status |-> "ready", source |-> carried, transition |-> Len(states[carried].log)]]
    /\ result' = [passed |-> TRUE, reused |-> FALSE, next |-> carried]
    /\ owed' = IF owed = stage THEN NoStage ELSE owed
    /\ outcome' = [outcome EXCEPT ![stage] = "pass"]
    /\ basis' = [basis EXCEPT ![stage] = DescendsFrom(stage, carried)]
    /\ verified' = states[carried].line[DebugLoop]
    /\ asked' = asked \ {stage}
    /\ pc' = "checkpoint"
    /\ UNCHANGED <<task, states, ckpt, writes, events, stage, carried, ahead, misled>>

\* Mutant: the checkpoint says what the report says, whoever wrote it.
CheckpointByReport ==
    /\ pc = "checkpoint"
    /\ ckpt' = [ckpt EXCEPT ![stage] =
           [status |-> IF report[stage].status = "ready" THEN "pass" ELSE "fail",
            input |-> HashedInput(stage)]]
    /\ pc' = "route"
    /\ UNCHANGED <<task, states, report, writes, events, stage, carried, result, history>>

\* write_stage_checkpoint; the input is hashed after the stage has run.
Checkpoint ==
    /\ pc = "checkpoint"
    /\ ckpt' = [ckpt EXCEPT ![stage] =
           [status |-> IF result.passed THEN "pass" ELSE "fail", input |-> HashedInput(stage)]]
    /\ pc' = "route"
    /\ UNCHANGED <<task, states, report, writes, events, stage, carried, result, history>>

-----------------------------------------------------------------------------
(* Routing.                                                                *)

Goto(s) ==
    /\ stage' = s
    /\ pc' = IF s > LastStage THEN "validate" ELSE "pick"
    /\ carried' = result.next
    /\ UNCHANGED <<files, writes, result, outcome, basis, verified, asked>>

\* A request is followed wherever it leads, past stages that have not passed too.
Follow(s) ==
    /\ Goto(s)
    /\ ahead' = (ahead \/ s > stage)
    /\ misled' = (misled \/ s > stage)

\* A bootstrap stage that passed and a reused stage are not reviewed.
Unreviewed == result.passed /\ (stage < Bootstrap \/ result.reused)

ProceedUnreviewed ==
    /\ pc = "route"
    /\ Unreviewed
    /\ Goto(stage + 1)
    /\ UNCHANGED <<events, owed, ahead, misled>>

\* The latest open backtrack request is followed; one that names no stage keeps the
\* flow where it is.
Backtrack ==
    /\ pc = "route"
    /\ ~Unreviewed
    /\ OpenBacktracks # <<>>
    /\ LET target == Latest(OpenBacktracks)
       IN  \/ /\ target \in Stage
              /\ Follow(target)
              /\ owed' = target
           \/ target \notin Stage /\ Goto(stage) /\ UNCHANGED <<owed, ahead, misled>>
    /\ UNCHANGED events

\* Mutant: without a request to go back the flow goes on.
ProceedAnyway ==
    /\ pc = "route"
    /\ ~Unreviewed
    /\ OpenBacktracks = <<>>
    /\ Goto(stage + 1)
    /\ UNCHANGED <<events, owed, ahead, misled>>

Proceed ==
    /\ pc = "route"
    /\ ~Unreviewed
    /\ OpenBacktracks = <<>>
    /\ result.passed
    /\ Goto(stage + 1)
    /\ UNCHANGED <<events, owed, ahead, misled>>

\* The stage asked for it, the reviewer chose it, or nothing else is left.
RetryStage ==
    /\ pc = "route"
    /\ ~result.passed
    /\ OpenBacktracks = <<>>
    /\ Goto(stage)
    /\ UNCHANGED <<events, owed, ahead, misled>>

\* A stage that failed without a request of its own yields to the latest request that
\* names another stage.
Reroute ==
    /\ pc = "route"
    /\ ~result.passed
    /\ OpenBacktracks = <<>>
    /\ LET targets == [i \in DOMAIN OpenRetries |-> Key(OpenRetries[i].target)]
       IN  /\ \A i \in DOMAIN targets : targets[i] # stage
           /\ \E i \in DOMAIN targets :
                 /\ targets[i] \in Stage
                 /\ \A j \in DOMAIN targets : j > i => targets[j] \notin Stage
                 /\ Follow(targets[i])
    /\ UNCHANGED <<events, owed>>

\* choose_next_stage raises: the same stage is taken again.
ControllerFails ==
    /\ pc = "route"
    /\ ~Unreviewed
    /\ Event("controller")
    /\ Goto(stage)
    /\ UNCHANGED <<owed, ahead, misled>>

Validate ==
    /\ pc = "validate"
    /\ pc' = "done"
    /\ UNCHANGED <<files, writes, events, stage, carried, result, history>>

-----------------------------------------------------------------------------
(* The environment.                                                        *)

Crash ==
    /\ pc \notin {"down", "done"}
    /\ Event("crash")
    /\ pc' = "down"
    /\ UNCHANGED <<files, writes, stage, carried, result, history>>

\* The task is edited and the flow started again.
ChangeTask ==
    /\ pc \in {"down", "done"}
    /\ Event("task")
    /\ task' = task + 1
    /\ pc' = "down"
    /\ UNCHANGED <<states, report, ckpt, writes, stage, carried, result, history>>

Next ==
    \/ Start
    \/ Reuse
    \/ \E passed \in BOOLEAN : \E names \in Asks(passed) : StageSaves(passed, names)
    \/ StageReports
    \/ PassesThrough
    \/ StageDies
    \/ Checkpoint
    \/ ProceedUnreviewed
    \/ Backtrack
    \/ Proceed
    \/ RetryStage
    \/ Reroute
    \/ ControllerFails
    \/ Validate
    \/ Crash
    \/ ChangeTask

Spec == Init /\ [][Next]_vars

-----------------------------------------------------------------------------
\* An open backtrack request is honoured before downstream progress: after a backtrack
\* decision no stage behind its target runs before the target has run, unless a second
\* request led the flow past a stage (choose_next_stage, flow_policy).
BacktrackIsHonoured ==
    [][\A s \in Stage :
          states'[s] # states[s] /\ owed # NoStage /\ ~ahead => s <= owed]_vars

\* No request is lost on the way to the end: whoever is asked to run again has passed
\* again, however often the controller raised and took the stage that asked again
\* (choose_next_stage, retry_replan).
AskedHavePassed == pc = "validate" => asked = {}

\* Failed or stale artifacts are never promoted (reuse_policy): a finished flow is fresh,
\* whatever was reused, edited, retried or killed, unless a request led it on past a stage
\* (reroute_retry_target, a second backtrack) or a stage rests on an outdated state of its
\* own (GenericStageAgent.run, revalidate_parameter_binding).
FreshUnlessMisled ==
    pc = "validate" /\ ~misled => \A s \in Stage : FreshAt(s)

\* While the latest run of a stage failed no stage behind it runs, unless a request led the
\* flow past a stage: failed artifacts are not consumed downstream.
FailedStageBlocksLater ==
    [][\A s \in Stage : states'[s] # states[s] /\ ~ahead =>
          \A earlier \in 0 .. s - 1 : outcome[earlier] # "fail"]_vars

\* What is reused on the input of its checkpoint was left by a run that passed and promoted
\* its transition, or was revalidated, and no run of the stage has failed or been cut short
\* by an error since, wherever the agent was killed (only_reuse_passed_stage).
ReuseIsOfAPass ==
    [][Reuse /\ Unchanged(stage) =>
          \/ outcome[stage] = "pass" /\ Last(states[stage].log)
          \/ outcome[stage] = "revalidated"]_vars
=============================================================================
