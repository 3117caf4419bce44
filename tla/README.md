# Verification of Accelerator-Agent

Accelerator-Agent is a Python framework that lets language-model agents turn a transformer
model into an FPGA accelerator.  It plans the hardware, generates Chisel, verifies it with
simulators and synthesis tools that run for hours on remote machines, repairs it and
measures it on a board.  This directory holds TLA+ models of the parts that decide what
counts as done and of the files its processes share: the design-state store, the
verification runs and their publication, the remote simulation job, the saved simulator, the
debug loop, the top-level flow, the live status and the calls to the language model.  TLC
checks them on small instances and TLAPS proves the most important properties for all
instances.

Paths below are relative to `src/`; `fw/` stands for `accagent/framework/`.

## 1. The system

| Part | State it keeps | Operations | What is hard | What makes it correct |
|---|---|---|---|---|
| SACG store (`fw/sacg_store.py`) | one JSON file per stage: transitions, artifacts, invariants, evidence, requests, contamination barriers | declare, bind, attach evidence, approve, promote, reject, record requests, reconcile, deduplicate | any order of calls by ten stages; lists cut at 16 items; the same failure observed again and again | nothing is promoted without its evidence, nothing validated is contaminated, obligations are neither lost nor doubled |
| Verification publication (`fw/stage_verification.py`) | the store, a reconciliation contract, certificates | one transition per run and scope, retire predecessors, request retries and backtracks | runs of several scopes share one result artifact | a failure stays on record until its own scope passes |
| Exact board VCS runner (`scripts/verification/case_board_vcs_functional.py`, `fw/active_board_job.py`) | manifest, job contract, report, lease | seal, launch, attach, collect, report | the runner may die at any step while the remote job goes on; ssh fails; two runners | a job of hours is never started twice, lost or forgotten |
| Remote semantic jobs (`fw/semantic_simulator.py`) | remote directories with pid and exit files | probe, clean up, upload, compile, simulate, poll | unknown is not missing; cleanup kills by directory | recovery decides on facts only |
| Top-level flow (`fw/agent.py`, `fw/stage_agent.py`) | checkpoints, reports and state files of nine stages | run or reuse a stage, checkpoint, route | kill between two writes; backtracks forward and back; a controller that raises | the flow ends on artifacts that fit together |
| Verification gates (`fw/stage_verification.py`, `fw/stage_verification_plan.py`, `fw/verification_evidence_contract.py`) | gate plan, results of the tools, certificates with the hashes of their evidence | choose gates, run their tools in order, reuse, judge, bind and certify | gates share tools and results; certificates stand for gates that do not run; tools of killed runs write late | what passes is proved on the design on disk, from below |
| Tool runner (`fw/tool_runner.py`) | log per tool, fingerprints of inputs and outputs | run with a time budget, reuse a logged pass, attach fresh reports | a timeout after the report was written, a report that outlives the sources | a stale report is never a result |
| Debug loop (`fw/stage_debug_loop.py`, `fw/stage_repair.py`, `fw/stage_repair_execute.py`) | certificates, `active_scope.json`, reports, a plan, archived iterations | verify a scope, plan and execute repairs, replan, resume, reuse scopes | killed between any two writes; a resumed plan; the same failure again and again | what is reused is trusted, nothing is waited for again without edits, it returns |
| Flow action handoff (`fw/flow_action_handoff.py`) | flow decisions bound to a state file, a set of those consumed | decide, select, validate, consume | the state is rewritten between the decision and its use | a decision is planned with, then consumed |
| Saved simulator (`fw/fast_replay.py`, `fw/simulation_checkpoint.py` and its runner) | replay state, request, local checkpoint, remote snapshot, report | capture, recapture, restore, acknowledge, observe | five files and a remote directory written one after the other by two processes | what is restored is of the board, what is ready was restored |
| Live state (`fw/live_state.py`) | slots with an owner, file lock, atomic replace | activate, update | concurrent writers that die, an unlocked look | a call touches its slot only, at one instant |
| LLM calls (`fw/stage_llm.py`, `fw/llm_io.py`, `fw/stage_team.py`) | ledger per agent, limiter with a queue and leases, records | call, queue, request, retry, repair the answer, record | processes die in the queue; a request goes on after its client gave up; a ledger without lock | the account's limit is kept, every call ends |
| Repair experience, DSE ledger (`fw/repair_experience.py`, `fw/dse_*.py`) | append-only files | append, load latest | concurrent writers, torn lines | one record per episode or candidate |
| Planning and generation stages (`fw/stage_input.py` ... `fw/stage_verification_plan.py`) | plans, generated code | compute, review, publish | long but sequential | their gates |
| Board contracts, numeric models, progress, observation (`fw/board_*.py`, `fw/numeric_policy.py`, `fw/runtime_observation.py`) | none | pure checks and projections | volume | reference definitions |
| Chisel accelerator (`src/main/scala`) | hardware | stream handshakes | back-pressure | no token lost |

The stages are processes that run one after the other.  Each reads the state file handed to
it, works on it through the store, saves its own state file and writes a report; the agent
reads the report, writes a checkpoint, reads the open requests of the state and chooses the
next stage.  Verification calls the board runner as a tool.  The runner talks to a remote
host over ssh and leaves a detached job behind; runners of one run directory share a file
lock.  The debug loop calls verification, the repair planner and the repair executor in turn;
the executor reruns the board runner.  Every agent's call goes through one limiter of the host.
`PROJECT.json` lists every component with what is left out of it, and under "hazards" the
places where the code can go wrong in a way a test would hardly reach.

## 2. Modules

`SACGStore` is the base.  `VerificationRun` EXTENDS it and adds the sequence of calls of one
stage.  `LiveState` implements the abstract `LiveSlots`.  The others are models of their own,
one level below or above each other: `TopAgentFlow` sees the debug loop as one stage,
`DebugLoop` sees a verification run as its verdict, `GateRun` is the inside of that run and
`VerificationRun` its publication, `ExactBoardJob` is the remote job of one of its tools, which
is one step of `FastReplay`.

Each module has a type invariant, most of which the proofs establish; the runs check the
properties that say more.

**SACGStore.**  `transitions`, `artifacts`, `invariants`, `requests` and `barriers` are the
tables of the JSON state.  One action per method, each the whole method: `BindArtifact`
includes resetting the trust of a bound artifact, `Promote` lifts the barriers it supersedes,
`Reject` marks the artifacts and creates the barriers, `RecordRequest` is the lookup of an
equal open request, the cut to `StoredLimit` items and the append, `RecordStageOutcome`
resolves requests.  Evidence is kept as the set of checkers whose evidence on the transition
passes and the status of the latest evidence per invariant.  Requests never disappear, they
are closed.  Methods may be called in any order, as the ten callers do.

**VerificationRun.**  `update_sacg` step by step: `BeginRun` (contract, declare, required
checkers), `BindResults`, then `PromoteRun` or `RefuseContract` or `RejectRun`, `ReconcileRun`,
`RequestRetry`, `RequestBacktrack`, `FinishRun`.  The verdict and whether the gate plan is
complete are inputs.  A scope of the model is the pair of a verification scope and a debug
layer, which the code both compares (`fw/stage_verification.py:2314`); a pass reported under
another debug layer is a run of another scope.  The store lives in memory until `save`, so a run that dies leaves the
store as it was and needs no action.

**ExactBoardJob.**  `manifest`, `contract`, `report` and `retry` are files; `remote[f]` is the
work directory of the inputs with fingerprint `f`, with the state of its compile and of its
simulation; `lease` is the lock.  Each runner has a program counter: `Acquire`,
`CheckPending`, `Plan`, `Seal`, `Announce`, recovery (`DiscardForRetry`, `ProbeCompile`,
`ProbeSim`, `Indeterminate`), `Upload`, `LaunchCompile`, `WaitCompile`, `LaunchSim`,
`WaitSim`, `Release`, `Finalize`.  Every write of a file and every remote command is a step
of its own.  `Crash` kills a runner anywhere; `RemoteJobLost`, `ReplaceInputs` and `Analyze`
are the environment and the analyzer.  `LaunchCompile` is the whole preparation of the host:
the cleanup below the stage root and then the prune, which deletes finished directories of
other inputs that carry a receipt of persisted evidence (`Pruned`).  Such receipts are written
by `persist_board_remote_artifacts`, which the runner imports and nothing calls at this commit;
`Acknowledge` has them appear, so that the prune is checked with them.  Which of them the prune
keeps as the newest is left open.  Not modelled: hashes and logs (a fingerprint is a
model value), acceptance of outputs, replay of saved checkpoints, and launches whose lost ssh
answer takes effect only after the next probe.  Stall and livelock terminations are remote
jobs that end with a failure.

**TopAgentFlow.**  `states[s]` is the state file of stage `s`: a version that stands for its
content, the run of each stage it descends from (`line`), the verdicts of the transitions in it
(`log`), whether it carries certificates, and its open requests.  A run inherits all of it from
the state handed on (`carried`), whoever wrote that.  `report` names the state it was made from
and its transition; `ckpt` is the third file of a stage.  `pc` is where the
agent stands: `pick` (reuse or run), `saved` (state written, report not), `checkpoint`,
`route`, `validate`.  Requests name stages as the code does, by the stage's own name or by an
alias (`Key` is `stage_key_for_target`): resolution compares names, routing compares stages.
`owed`, `outcome`, `basis`, `verified`, `ahead`, `misled` and `asked` are history variables.
`basis[s]` is the run of the stage before that the latest run of `s` rests on: read off the
state it was handed, or off the source its report names when it was revalidated.  `ahead` says
that since the start an open request led the flow from a stage to one behind it, `misled` that
this happened, or a stage that died left an outdated state of its own to build on, or one was
revalidated against such a state.  Parametric in the number of stages; the
instance has five of the nine (one bootstrap stage, the parameters, the verification plan, the
debug loop, the backend), since the others behave like the second.  A stage process that
outlives a killed agent is not modelled, and the inner iterations of the debug loop are one
run.

**GateRun.**  `design` numbers the versions of the sources; a report, a log and a certificate
are the version they are about, which stands for the hashes the code compares (reports are
assumed to declare the hashes of the sources they are about).  `run` is the
run at work: its scope, the gates certificates cover (`Covered`), the gates selected, the
result of each tool and the status of each gate.  `Start` is the gate plan, `Skip`, `Reuse`,
`ToolPasses`, `ToolFails` and `EndGate` are `run_gate_ordered_tools` and `run_tool`; a tool of
`Silent` may end without writing its report, and if it returns 0 that passes and leaves the
old one (`fw/tool_runner.py:582`).  `Compare`, `Copy` and `Pass` issue certificates: the hashes in the
logs are compared with the reports, the reports are copied, what they declare is compared with
the sources.  `Fail` may take any finished run, since the static, functional, log, environment
and semantic checks (`fw/stage_verification.py:3791`) are not modelled and any of them may say
no; `GatesPass` is the part of the verdict that is about gates and tools.  `Kill` leaves the tool
that was running at work, `LateReport` is its report.  `Edit` is a repair between two runs.  A
gate's own tool carries its name; what else it runs are tools of lower gates.  The approval of
the reviewer is chosen.  A plan that is blocked changes nothing and is no step.  Not modelled:
the sub-certificates of several layers, disabled tools, explicit gate lists, the bridge to
scaffold gates, and runs with `SPATIALACC_RUN_REAL_TOOLS=0`, in which nothing is run.

**DebugLoop.**  `file[p]` is what one of the four state files says: the last certified scope
and whether it is bound to an executed plan.  Verification, planning and execution write one
each, and `current` and `src` are the ones the loop and the repair loop carry on with.
`EnterWith` is the entry (scopes reused on their live files or recovered from
`active_scope.json`, a plan to resume, a decision at hand), `VerifyReady` ... `SkipRepair` an
iteration, `Execute` ... `Blocks` the repair loop with `Disposition` as its judgement on the
results and `Replan` and `Archive` after it.  `Disposition` is the whole verdict in its order: a
completed recheck of a lower layer, a pass, a repeated refusal without edits, a refusal, edits,
failures of real tools, capabilities, a repeated failure.  A refusal comes with edits only when
the patch report it shares with the next step was overwritten (`"overwritten"`); a completed
recheck is judged (`fw/stage_repair_execute.py:34404`) though no executor returns one, so it is
in the model and in the proof and not in the instance.  `Crash` kills the call anywhere, `Raise` and
`ReplanRaises` are exceptions, `Decide` and `Regenerate` are the flow around it.  A decision is
stale after any write to the file it was taken on (`Outdate`).  Not modelled: the inside of an
agent's repair (it ends in one of the results of `Outcomes`), plans with two steps of a kind;
the report of an execution and its state file are written in one step, and a plan without
actions and one that cannot be executed are the same.  The error branches of `debug_loop` at
`fw/stage_debug_loop.py:661` and `:832` are not there, because `run_repair_loop` only returns
complete or blocked.

**FastReplay.**  `state`, `request`, `store`, `report` are the files, `remote[m]` the work
directory of model `m`.  `Prepare` picks the action (`Lifecycle`), then the runner works:
`ColdRun`, `Recapture` with `Collect` and `Publish`, or `Restore` with `RestoreCollected`, and
after it `WriteReport`, `Acknowledge`, `UpdateState`, `Continue` (straight on to the restore
check) and `Observe` by the controller.  `Crash` kills the runner or both.  A model is the
identity of a compiled design with its workload.  Outputs, probes and the verdict on the
hardware are left out.

**LiveState, LiveSlots.**  A call is `Lock`, `Read`, `Replace`, `Unlock`; `BeginObserve` and
`Peek` are the replay bookkeeping, which looks at the owner without the lock first.  `LiveSlots`
has the call take effect at one instant (`TakeEffect`); the refinement maps that to the rename.

**LLMCall.**  `ledger` is one file per agent, `waiters` and `leases` are the limiter.  `Begin`
... `Close` are the steps on the ledger, each read and each write on its own; `Poll`,
`WaitFails` and `Release` are the critical sections of the limiter.  `Tick` is time.  A request
that timed out may go on at the provider (`abandoned`) for up to `Hold` ticks, which is what
the code holds its lease for.

## 3. Runs

| Run | Asks | Bounds |
|---|---|---|
| `store_promotion` | promotion, rejection, barriers in every order | 2 transitions that may bind the same artifact, 1 checker, 4 scope lists; symmetric |
| `store_obligations` | requests recorded, resolved, deduplicated | `StoredLimit` 1, lists of 0, 1 and 2 items: the smallest case of lists that fit and of 16 and 17 items; 4 requests |
| `verification_runs` | publication by successive runs | 4 runs, 2 scopes, 4 requests |
| `board_job_faults` | safety of launches and of finished results | 2 runners, 2 inputs, 4 environment events |
| `board_job_reported` | pending while live, reported in the end | 1 runner, fair, 2 inputs, 5 environment events, no wall-clock limit |
| `flow_fresh` | a flow without reuse | 5 stages, 10 state files, 2 events (kill, raising controller, edited task) |
| `flow_resume` | the default flow | 5 stages, 9 state files, 2 events (these, a dying stage, a revalidation) |
| `live_slots` | refinement of `LiveSlots`, calls that return | 3 processes, 2 slots, 2 owners, any number of kills |
| `fast_replay` | capture, recapture, restore | 2 models, 4 events of six kinds, 3 restores told apart |
| `debug_loop` | calls of the loop, one after another | 2 scopes, 1 observation, 1 iteration per call, 2 events, 1 decision, a plan with an agent's repair and a skipped backtrack and one with regenerated gates and a rerun |
| `gate_runs` | successive verification runs | 4 gates that share tools, one of which may end without a report, 2 levels, 2 designs, 1 kill |
| `llm_calls` | calls of agents by processes | 2 processes, 2 agents, 1 request at a time, 3 calls, 2 faults, 1 kill |

The instances have between 30 thousand and 4 million distinct states. The bounds leave room for
what matters: four transitions allow a failure, a pass of another scope, a pass of the same one
and a further run; four events allow a crash of each runner with a lost job between them; two
allow the flow a kill or an error and an edit or a revalidation; ten state files allow a full
flow, a backtrack, and a flow that fails again where it was sent back to. With larger bounds
(`verification_runs` with 5 runs, `board_job_faults` with 6 events, `board_job_reported` with
8, `flow_resume` with 8 state files and 4 events, `flow_fresh` with 9 state files, 3 events and
dying stages but for `AskedHavePassed`, see below) the same
properties hold. In `gate_runs` two designs are enough for a stale report, log or certificate,
and two levels for a certificate issued on the word of another. In `debug_loop` one
observation is enough to be seen again, and a call that is killed or returns is followed by any
number of others. In `llm_calls` one kill leaves a dead waiter before a living one, or a dead
owner of a ledger.

Deadlock is checked in `live_slots`.  The other models may come to their end: bounds are used
up, a flow is done.

**Where the passing runs stop.**  Some bounds of the passing runs are there because what they
ask does not hold beyond them.  The models contain these behaviours, no run asks about them
yet:

* A list of more than 16 items is stored cut and looked up whole (`fw/sacg_store.py:768`,
  `:733`), so an obligation with a longer list is opened twice, although
  `docs/context_2026-03-27.md:55035` says that recording is idempotent.
  `OneOpenRequestPerWholeKey` is about the lists that fit.
* `record_stage_outcome("ready")` closes every open request addressed to the stage
  (`fw/sacg_store.py:643`): a pass of one verification scope closes the request of another that
  still fails, which `fw/stage_verification.py:2331` rules out.  It also supersedes the barrier
  another scope left on the shared result artifact (`fw/sacg_store.py:958`).
* A retry request of the analyzer counts only while the report has the hash it was bound to
  (`fw/semantic_simulator.py:3026`); the next runner rewrites the report before recovery reads
  the request, so the old failure is collected again.
* `LiveJobIsPending` is checked without `"timeout"` and with one runner.  When the wall-clock
  budget of a runner ends (`BudgetExhausted`, `fw/semantic_simulator.py:2964`) its report is
  final and the job goes on, no longer pending.  With two runners, `Finalize` writes a report
  after `Release` (`case_board_vcs_functional.py:8825`) over the pending one of the next runner.
* Two jobs of different inputs can be live below one stage root: the cleanup runs before a
  compile only (`fw/semantic_simulator.py:3357`), and `ProbeSim` goes on to `LaunchSim` without
  one when the inputs come back to a directory that was compiled earlier.
* A finished job without a checkpoint that a later runner attached to is handed over for
  collection again and again (`case_board_vcs_functional.py:4273`).
* `flow_fresh` does not resume.  With reuse, the target of a backtrack is looked up like any
  stage and reused from its checkpoint (`fw/agent.py:925`; `:654` says that backtracks are
  honoured before downstream progress), and the backend is reused although the debug loop
  before it ran again, since its input hash is of a file nobody writes (`fw/agent.py:415`).
* `flow_fresh` has no `"command"` event.  A stage that dies between its state and its first
  report leaves a request that nobody reads: the agent goes on from the report, the stage is
  retried and passes, and whoever was asked has not run (`fw/stage_agent.py:268`,
  `fw/agent.py:1045`), so `AskedHavePassed` fails.  It also fails with reuse: a controller that
  raises has the stage taken again, it is reused, and a reused stage is not reviewed
  (`fw/agent.py:992`), so the flow ends with its open backtrack request.
* Two backtrack requests of one backend run would be followed latest first and then forward
  (`fw/agent.py:733`), past stages that have not run again; a controller that raises between two
  runs of the backend leaves two such requests, and `flow_fresh` has it.  `ahead` marks it, and
  `FailedStageBlocksLater` and `BacktrackIsHonoured` ask nothing of a flow that is ahead.
* `FreshUnlessMisled` leaves out what `misled` marks, and in a flow that resumes the stage behind
  the debug loop, which has no input hash (`FreshAt`).  There are three ways to be misled.  A request leads the flow past a stage: a debug loop that was sent back dies
  on its next run and surfaces its earlier report, whose open retry request may name the
  backend (`fw/stage_agent.py:268`, `fw/agent.py:808`).  A stage that dies and surfaces its
  earlier report is retried on its own old state (`fw/agent.py:1045`) and passes on an upstream
  that was replaced; a debug loop may even hand its old certified state on.  And the revalidation
  after an edit checks the outputs against the state the report names as its source
  (`fw/stage_params.py:1848`), which after a retry is the stage's own file, so an edited
  upstream is not seen, although `fw/agent.py:469` says that the check proves the same input
  graph.  It also accepts a state whose latest transition was rejected when the one the report
  names is promoted in it (`:1888`), which is why `ReuseIsOfAPass` asks for the promotion of a
  reuse on an unchanged input only.
* `CertificateBindsItsReports` excuses a report that was written while its certificate was being
  issued (`overtook`).  The report a log names is hashed and compared, then copied, then read
  once more for the hashes it declares (`fw/stage_verification.py:3252`, `:3420`, `:3462`).  A
  tool that passed without a report leaves an old one, which is copied; a tool left over from a
  killed run writes the current report before the last reading, and the certificate binds the
  old one.  TLC reaches it with one kill.
* The prune looks for a receipt in a directory, not for the receipt of its present job, so that
  a receipt from an earlier job of the same inputs lets a newer result be deleted
  (`FinishedJobsKept` says "carries a receipt").
* `WaitedOnce` counts a refusal that comes with edits once: with edits the code waits again for
  the same observation (`fw/stage_repair_execute.py:34532`).
* A stage can pass without closing the requests addressed to it: the backend records
  `scope_ready` (`fw/stage_backend.py:3346`), and a debug loop handed valid certificates
  records nothing (`PassesThrough`), after which the flow decides the same backtrack again.
* `ReusedIsTrusted` says that reused scopes are trusted in the state at hand, not that their
  certificates are of the design on disk: scopes recovered from `active_scope.json` skip the
  check of the live files (`fw/stage_debug_loop.py:173`), so after the sources were generated
  again a call can pass on certificates of the old ones.  `docs/context_2026-03-27.md:51328`
  says that stale certificates must not be reused.  `GateRun` keeps these gates apart
  (`excused`).
* `CallReturns` is checked with remote runs.  Without them a rerun is skipped
  (`fw/stage_repair_execute.py:24313`), which is neither a pass nor an observation, and the
  repair loop repeats its plan for ever.
* A planned backtrack to a lower layer (`fw/stage_repair.py:2745`) is skipped without a result
  (`fw/stage_repair_execute.py:33960`); next to steps that pass it counts as done.
* A decision taken on the planner's or the executor's state file is refused once a plan was
  made with it, since that plan rewrote the file (`fw/flow_action_handoff.py:387`), and stale
  decisions on a state file block every later call with it (`:280`).  A resumed plan is not
  compared with the plan the report is about (`fw/stage_debug_loop.py:341`).
* `SnapshotGetsReady` leaves out kills, failing transfers and failing compiles.  The recapture
  wants the last report to name the model and its compile (`case_board_vcs_functional.py:4717`),
  which the bare report of a refusal does not, so `repair_required` can last for ever;
  `fw/fast_replay.py:645` says that a failed attempt stays actionable.  A runner killed
  between report and acknowledgment (`case_board_vcs_functional.py:8781`) has the same effect,
  and so has a pruned snapshot of a ready state.
* `RequestsBounded` is for a timeout on the whole request.  With `urllib` the timeout is per
  read, a streamed answer can outlive its lease, and a second request is admitted.  The lease
  of a killed process is pruned at once although the provider may go on.
* Waiters of the limiter do not expire: a pid that another process took over blocks the head
  of the queue.  Pids are not taken over in the model.

What holds is the larger part: the store keeps its trust and barriers consistent under any
order of calls; launches are safe under every crash and failure modelled; whatever is killed,
the flow reuses only what passed, and while it is not misled it is fresh but for the stage
behind the debug loop of a flow that resumes; the gates of a run pass only on what was proved
on the design on disk.

**Fairness.**  `ExactBoardJob!FairSpec`: a runner that is alive goes on (WF of its own steps),
the flow starts its runner again after it ended (WF of `Acquire`; the flow never terminates a
failing stage), remote jobs end (WF; the code terminates stalled ones).  `LiveState!FairSpec`:
a writer that is not killed goes on (WF), and `flock` does not pass a waiting writer over for
ever (SF of `Lock`).  `FastReplay!FairSpec`: controller and runner go on and the remote
simulator ends (WF).  `DebugLoop!FairSpec`: a call goes on (WF of its own steps; each tool has
a time limit); nothing makes the flow call again.  `LLMCall!FairSpec`: time passes and a
process goes on (WF each), waiting in the queue included, which the code does by polling.
Kills, failures and timeouts are never fair.  `SACGStore`, `VerificationRun`, `TopAgentFlow`
and `GateRun` state no liveness and no fairness.

Every property has a mutant: an operator next to the definition it replaces, changed the way
a plausible bug would, with which TLC finds the property violated.

## 4. Proofs

`SACGStore_proofs` (for any sets of artifacts, transitions, checkers, stages and lists):

* `SpecTypeOK`, by cases on the actions of `Next`.
* `SpecPromotionGate` and `SpecNoContaminatedValidation`.  Both are inductive together with
  `TypeOK`; the step lemmas have one case per action that touches what the property reads
  (`OtherSteps` collects those that do not).
* `SpecValidatedOnEvidence`: no step takes back what a promoted or rejected transition vouches
  for (`VouchesStays`), so the validator an artifact names still stands for it.
* `SpecOneActiveBarrierPerKey`: the barriers of a rejection differ in their artifacts, and one
  whose key is active is not raised.
* `SpecBarrierLiftedOnlyByValidation`, `SpecObligationsNotLost` and
  `SpecDeduplicationRestoresUniqueness` are action properties.  The first two ask the call that
  was made and not its effect: of all calls only the reconciliation may lift a barrier
  without validating, and only it and the passing outcome of the stage addressed may close a
  request without leaving one open for the same obligation.  A deduplication that does either is
  caught.  A deduplication leaves a barrier
  on every artifact that had one (`DeduplicationKeepsBarriers`); of the open requests with one
  key the first is never closed (`KeyStaysOpen`), and there is a first because the natural
  numbers are well founded (`FirstExists`).
* `SpecOneOpenRequestPerWholeKey`, for `CutListsDistinct`: a list longer than what a record
  keeps repeats no item in that part (the lists that can be long are the blockers of a gate
  plan, `fw/stage_verification.py:1708`, which each name another gate).  A request stored
  short of the limit was stored whole, and one that was cut names too many things to look like
  it (`ShorterListDiffers`, on cardinalities).  Without the hypothesis it is false:
  the kept items could repeat one, and the list would look like a shorter one.

`VerificationRun` composes the store with its caller, so its theorems are in `SACGStore_proofs`
too, over `RunSpec` (for any scopes and any number of runs):

* `RunInv` says what the store must look like at each step of `update_sacg`.  `CurInv` is the
  transition at work, `SettledInv` and `OriginInv` the trust of an artifact and the outcome of
  the run that bound it, `ContractInv` what the reconciliation contract was built from,
  `RecordInv` the barrier and the request a failing run has raised by now, and `CleanInv` that
  a scope whose latest run passed has neither.  None is inductive alone: that a promotion
  leaves no barrier of its scope needs the contract to name every one the promotion does not
  lift, and that in turn needs to know whose barriers they are.  One lemma per action.
* `SpecSettledBetweenRuns`, `SpecFailureIsRecorded` and `SpecPassRetiresItsScope` are its
  parts at the moments the properties name.

`ExactBoardJob_proofs` (for any number of runners and inputs):

* `IndInv` strengthens `TypeOK` by what a runner relies on between a remote command and the
  next: the lease is held by whoever works (`LeaseHeld`), it has a fingerprint (`JobBound`),
  only attaching or regular runners recover (`ModeFits`), a directory is staged before it is
  compiled and compiled before it is simulated (`Staged`), and what it saw of its directory
  still fits (`Progress`).  Without the lease, `Progress` is not stable: another runner may
  launch after the probe.  One lemma per action shows that it preserves `IndInv`; of a prune
  they use `PrunedFits`, that it takes whole directories of other inputs with a receipt.
* `SpecLaunchReplacesNothing`, `SpecCompileKillsNoJobOfItsInputs` and `SpecFinishedJobsKept`
  are action properties that follow from `IndInv` at the step in question.
* `SpecLiveJobIsPending`, for one runner that is not cut off by its budget (`SoleRunner`,
  `NeverGivesUp`; both are needed, see above).  `ReportInv` relates the report to the contract
  it was announced for: a pending one stays until the runner that holds the lease ends
  (`LeasedStep`), a retry request is bound to a report that is no longer pending, and who
  launches has announced.  Kills, failing probes, replaced inputs and retries are included.

`TopAgentFlow_proofs` (for any number of stages, aliases and events):

* `SpecReuseIsOfAPass`.  The property looks at the moment of a reuse only; what makes it hold
  is that a stage runs only when its checkpoint, its report or its input does not invite to
  reuse it, so that a run cut short anywhere leaves an old checkpoint that matches no present
  input.  `FlowInv` says so (`InvitedIsGood`), together with the fact that versions are never
  handed out twice (`VersionsOK`), which stands for hashes without collisions.
* `SpecFreshUnlessMisled`, for every value of the constants.  `HandedInv` follows the state that
  is handed on: it descends from the last runs of all stages before the one at hand (with
  resuming, of the one before it, and of the one before the debug loop, as everything else may be
  reused).  `PassedInv` says of a stage that is about to be left that it passed on the present
  input and that its state descends from its own last run, `BehindInv` that every stage the flow
  has gone by since its start did and would be reused.  Going back takes stages out of
  `BehindInv`, reuse and runs keep it (a new version of a stage is written only when nothing
  behind it counts as passed).  Freshness is about the state that was read and not about the
  newest file of the predecessor, so none of this follows from where the flow stands.
* `SpecFailedStageBlocksLater` and `SpecBacktrackIsHonoured` follow from `FlowInv`, the second,
  for a flow that does not resume, with `OwedInv`: what is owed is not behind the stage at hand.

`LiveState_proofs` (for any number of processes, slots, owners):

* `IndInv`: who is in the critical section holds the lock, and the copy it will rename into
  place is the current file with its own call.  `SpecImplementsLiveSlots` maps each step to one
  of `LiveSlots` or to a stutter: `Replace` takes effect, `Unlock` and `Crash` end.

`GateRun_proofs` (for any gates, dependencies, helpers and levels that the assumption allows):

* `IInv` joins three parts.  `EvidenceInv` is about what is on disk: logs are of designs the tool
  passed on, certificates of designs all they stand for was proved on.  `RunInv` is about the
  run at work: the gates certificates cover are proved (`PlanInv`), a result of pass was obtained
  on this design (`ResultInv`), a gate that is blocked has a gate below it with a failed tool
  (`CauseInv`).  `BindingInv` is about the certificate being issued: a copy is of the report on
  disk unless that was written since, so that the last comparison, which reads the report, says
  something of the copy.  The closure of dependencies is the least closed
  set (`ClosureLeast`, `ClosureClosed`); `ScopeClosed` shows that the selected and the covered
  gates of a scope leave no dependency out.
* `SpecPassIsProved`, `SpecCertificateIsProved`, `SpecCertificateBindsItsReports` and
  `SpecFailureHasACause` follow from `IInv`; `SpecLowerGatesFirst` needs in addition that a gate
  whose dependencies pass has everything below it proved (`BelowIsProved`).

`DebugLoop_proofs` (for any number of scopes, observations, plans, iterations and decisions):

* `TrustInv`: of every state file a local variable may go on with, the certified scopes reach
  the reused ones.  `WaitInv`: an observation that was waited for is in the archive, and the loop
  goes on after a refusal without edits only when its observation is not (`FreshWait`).
  `HandoffInv`: the decision at hand is not consumed, and one that is to be marked was planned
  with.  Each is shown for the groups of actions of `Next`.

`LLMCall_proofs` (for any number of processes and agents):

* `SpecOpenTransactionIsAtWork` is inductive with the types of the call.
* `SpecRequestsBounded`, for `TotalTimeout` and `Hold > 0`.  `LimiterInv`: each request under
  way, abandoned ones included, has a lease with as many ticks as the request can last, and the
  leases of living processes are at most `MaxInflight`.

`FastReplay_proofs` (for any models, events and bounds):

* The three properties are about files the runner, the controller and the remote host write at
  different times, so `IInv` follows a claim from where it arises to where it is believed.
  `Sound` is what a report must be for the replay state to record it; `ReportInv` keeps it for
  the report about to be written and for the one this step wrote, also across a kill.
  `PathInv`: the path chosen from the state still fits the state and the board, which change
  between runs only.  `SnapshotInv`: what left its restore marker was restored, and nothing
  runs in the directory of a state that waits for its recapture.  `CountInv`: a counted
  restore is the last one launched.
* `RecordKeeps` shows for any sound report that recording it keeps these parts; the runner's
  update and the controller's second look are its two uses.

The lists of open requests of a flow are built with folds and filters over sequences, about
which nothing can be proved without induction; the proofs do without them.  `FlowTypeOK`, which
types them, is not proved.

The assumptions are those on the constants, in the modules (`FlowAssumption`,
`BoardAssumption`, ...); TLC evaluates them on every run.  The hypotheses of single
theorems are named with them.  Only model-checked: liveness (`FinishedJobIsReported`,
`EveryCallReturns`, `SnapshotGetsReady`, `CallReturns`, `CallEnds`: the prover handles neither
fairness nor ENABLED).  `FlowTypeOK` holds
when given to TLC as an invariant of the two cfgs of `TopAgentFlow`; no run lists it.

## 5. Plan

Done: the modules above, in this order because the store is what everything else trusts, the
remote job is where most time is lost, the flow ties the stages together, and the debug loop
with its gates is where a wrong pass would go unnoticed.

Next, in order:

1. The repair transaction of `fw/stage_repair_execute.py`: snapshot, edit, build, roll back.
2. An abstract `DesignFlow` (stages pass in order on fresh inputs) that `TopAgentFlow` without
   reuse implements, and an abstract job (at most one live execution per fingerprint) that
   `ExactBoardJob` implements, with the proof that every step maps to a step or a stutter.

**Not modelled.**  Nine tenths of the code is sequential: `stage_repair_execute.py`,
`stage_llm.py`, `stage_repair.py`, the board contracts, the numeric models and the drivers of
the vendor tools build prompts, check schemas, parse reports and compute layouts, one function
after another on JSON values.  A model of them would repeat them line by line.  What they do to
shared state (state files, plans, archives, ledgers, the limiter, remote jobs) is in the modules
above; what they decide is chosen there, over all the results they can have.  The append-only
stores have one short critical section or one writer: `repair_experience` appends under `flock`
(a torn last line spoils the next episode), `dse_ledger` without lock or `fsync` (a torn line is
ignored and the candidate measured again).  State files are written in place
(`fw/sacg_store.py:69`), so a kill can leave half a JSON value, on which the reader raises; the
models write a file in one step.
