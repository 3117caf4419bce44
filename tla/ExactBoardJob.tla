---------------------------- MODULE ExactBoardJob ----------------------------
(***************************************************************************)
(* The exact-board simulation job: a VCS compile and a simulation that run *)
(* detached on a remote host for hours, outlive the local runner that      *)
(* started them, and are found again by the fingerprint of their inputs.   *)
(*                                                                         *)
(*   scripts/verification/case_board_vcs_functional.py   the runner        *)
(*   src/accagent/framework/active_board_job.py          the pending job   *)
(*   src/accagent/framework/semantic_simulator.py        the remote side   *)
(*   src/accagent/framework/simulation_checkpoint.py     heavy_job_lease   *)
(*   scripts/verification/case_vcs_evidence_analyzer.py  retry requests    *)
(*                                                                         *)
(* A runner is a process: it takes the lease of the run directory, decides *)
(* whether the sealed job contract is still pending, attaches to the       *)
(* remote job or seals and launches a new one, releases the lease and THEN *)
(* writes the report.  Every file write and every remote command is a step *)
(* of its own and a runner may die between any two.  The remote work       *)
(* directory is a function of the fingerprint; its pid and exit files are  *)
(* the state "missing", "running", "lost", "pass" or "fail" of its compile *)
(* and of its simulation.  Hashes, logs, outputs, acceptance checks and    *)
(* the saved-checkpoint replays are left out.                              *)
(*                                                                         *)
(* A compile first kills what runs below the stage root and then prunes:   *)
(* it deletes directories of other inputs that carry a receipt of          *)
(* persisted evidence, beyond the newest few.  The receipt is uploaded by  *)
(* persist_board_remote_artifacts, which the runner imports and which      *)
(* nothing under src/ calls at this commit: it is an event here, so that   *)
(* the prune is checked with receipts on the host.                         *)
(***************************************************************************)
EXTENDS Naturals, FiniteSets

CONSTANTS
    Runner,         \* local runner processes of one run directory
    Inputs,         \* board inputs, identified by their fingerprint
    Capturing,      \* the inputs whose job captures a checkpoint
    NoJob,          \* "no fingerprint"
    NoRunner,       \* "nobody holds the lease"
    Events,         \* environment events the instance allows
    MaxEvents       \* bound: environment events in one behaviour

ASSUME BoardAssumption ==
    /\ Capturing \subseteq Inputs
    /\ NoJob \notin Inputs
    /\ NoRunner \notin Runner
    /\ Events \subseteq {"crash", "loss", "replace", "ssh", "timeout", "refuse", "retry",
                     "acknowledge"}
    /\ MaxEvents \in Nat

VARIABLES
    manifest,   \* board_simulation_manifest.json: the current inputs
    contract,   \* the job contract in the local stage directory
    report,     \* case_board_vcs_functional.json
    retry,      \* remote_job_retry_request.json
    remote,     \* the remote work directories
    lease,      \* heavy_job.lock
    pc, job, mode, verdict,     \* of each runner: progress, fingerprint, path, result
    events      \* environment events so far

files  == <<manifest, contract, report, retry>>
locals == <<pc, job, mode, verdict>>
vars   == <<files, remote, lease, locals, events>>

-----------------------------------------------------------------------------
JobState == {"missing", "running", "lost", "pass", "fail"}

Verdict == {"none", "pending", "collection", "refused", "indeterminate", "job_lost",
            "compile_failed", "finished", "budget", "transport", "unprepared", "invalid"}

\* The steps a runner takes under the lease.
Working == {"check", "plan", "seal", "announce", "recover", "wait_compile", "probe_sim",
            "launch_sim", "wait_sim", "upload", "launch_compile", "release"}

Absent == [staged |-> FALSE, receipt |-> FALSE, compile |-> "missing", sim |-> "missing"]

TypeOK ==
    /\ manifest \in Inputs
    /\ contract \in Inputs \cup {NoJob}
    /\ report \in [job : Inputs \cup {NoJob}, verdict : Verdict]
    /\ retry \in [job : Inputs \cup {NoJob}, fresh : BOOLEAN]
    /\ remote \in [Inputs -> [staged : BOOLEAN, receipt : BOOLEAN,
                              compile : JobState, sim : JobState]]
    /\ lease \in Runner \cup {NoRunner}
    /\ pc \in [Runner -> Working \cup {"idle", "finalize"}]
    /\ job \in [Runner -> Inputs \cup {NoJob}]
    /\ mode \in [Runner -> {"attach", "regular", "fresh"}]
    /\ verdict \in [Runner -> Verdict]
    /\ events \in 0 .. MaxEvents

Init ==
    /\ manifest \in Inputs
    /\ contract = NoJob
    /\ report = [job |-> NoJob, verdict |-> "none"]
    /\ retry = [job |-> NoJob, fresh |-> FALSE]
    /\ remote = [f \in Inputs |-> Absent]
    /\ lease = NoRunner
    /\ pc = [r \in Runner |-> "idle"]
    /\ job = [r \in Runner |-> NoJob]
    /\ mode = [r \in Runner |-> "regular"]
    /\ verdict = [r \in Runner |-> "none"]
    /\ events = 0

-----------------------------------------------------------------------------
(* Helpers.                                                                *)

Live(f) == remote[f].compile = "running" \/ remote[f].sim = "running"

Gone == {"missing", "lost"}

\* pending_exact_board_job: the contract is bound to the current inputs and the
\* report on its fingerprint, if there is one, is not terminal.
Pending ==
    /\ contract = manifest
    /\ report.job = contract => report.verdict \in {"pending", "collection"}

\* Every write of the report makes an earlier retry request stale: the request is
\* bound to the hash of the report it was issued for.
WriteReport(f, v) ==
    /\ report' = [job |-> f, verdict |-> v]
    /\ retry' = [retry EXCEPT !.fresh = FALSE]

Event(e) == e \in Events /\ events < MaxEvents /\ events' = events + 1

Goto(r, p) == pc' = [pc EXCEPT ![r] = p]

\* The run ends with result v; the lease is still held.
Result(r, v) ==
    /\ pc' = [pc EXCEPT ![r] = "release"]
    /\ verdict' = [verdict EXCEPT ![r] = v]
    /\ UNCHANGED <<job, mode>>

-----------------------------------------------------------------------------
(* The runner: main, _execute_board_vcs, finalize_runner_report.           *)

\* Mutant: the runner does not wait for the lease.
AcquireAnyway(r) ==
    /\ pc[r] = "idle"
    /\ lease' = r
    /\ Goto(r, "check")
    /\ UNCHANGED <<files, remote, job, mode, verdict, events>>

Acquire(r) ==
    /\ pc[r] = "idle"
    /\ lease = NoRunner
    /\ lease' = r
    /\ Goto(r, "check")
    /\ UNCHANGED <<files, remote, job, mode, verdict, events>>

\* A pending job is attached to; its fixed report is replaced first, unless it is
\* the completion handoff of this very job.
CheckPending(r) ==
    /\ pc[r] = "check"
    /\ \/ /\ Pending
          /\ job' = [job EXCEPT ![r] = contract]
          /\ mode' = [mode EXCEPT ![r] = "attach"]
          /\ IF report = [job |-> contract, verdict |-> "collection"]
             THEN UNCHANGED <<report, retry>>
             ELSE WriteReport(contract, "pending")
          /\ Goto(r, "recover")
       \/ /\ ~Pending
          /\ mode' = [mode EXCEPT ![r] = "regular"]
          /\ Goto(r, "plan")
          /\ UNCHANGED <<report, retry, job>>
    /\ UNCHANGED <<manifest, contract, remote, lease, verdict, events>>

\* The contract no longer fits the rest of the manifest or the tool profile.
Refuse(r) ==
    /\ pc[r] = "recover"
    /\ mode[r] = "attach"
    /\ Event("refuse")
    /\ Result(r, "refused")
    /\ UNCHANGED <<files, remote, lease>>

\* The manifest is validated and the stage directory, with the contract in it, is
\* removed; a manifest that fails leaves a report without a fingerprint.
Plan(r) ==
    /\ pc[r] = "plan"
    /\ job' = [job EXCEPT ![r] = manifest]
    /\ contract' = NoJob
    /\ Goto(r, "seal")
    /\ UNCHANGED <<manifest, report, retry, remote, lease, mode, verdict, events>>

RefusePlan(r) ==
    /\ pc[r] = "plan"
    /\ Event("refuse")
    /\ pc' = [pc EXCEPT ![r] = "release"]
    /\ job' = [job EXCEPT ![r] = NoJob]
    /\ verdict' = [verdict EXCEPT ![r] = "invalid"]
    /\ UNCHANGED <<files, remote, lease, mode>>

Seal(r) ==
    /\ pc[r] = "seal"
    /\ contract' = job[r]
    /\ Goto(r, "announce")
    /\ UNCHANGED <<manifest, report, retry, remote, lease, job, mode, verdict, events>>

\* Mutant: the report of an earlier result is left in place.
AnnounceSilently(r) ==
    /\ pc[r] = "announce"
    /\ Goto(r, "recover")
    /\ UNCHANGED <<files, remote, lease, job, mode, verdict, events>>

\* write_pending_exact_board_job_report.
Announce(r) ==
    /\ pc[r] = "announce"
    /\ WriteReport(job[r], "pending")
    /\ Goto(r, "recover")
    /\ UNCHANGED <<manifest, contract, remote, lease, job, mode, verdict, events>>

Release(r) ==
    /\ pc[r] = "release"
    /\ lease' = NoRunner
    /\ Goto(r, "finalize")
    /\ UNCHANGED <<files, remote, job, mode, verdict, events>>

\* Mutant: a report that says pending is kept.
FinalizeKeepsPending(r) ==
    /\ pc[r] = "finalize"
    /\ IF report.verdict = "pending" THEN UNCHANGED <<report, retry>> ELSE WriteReport(job[r], verdict[r])
    /\ pc' = [pc EXCEPT ![r] = "idle"]
    /\ job' = [job EXCEPT ![r] = NoJob]
    /\ mode' = [mode EXCEPT ![r] = "regular"]
    /\ verdict' = [verdict EXCEPT ![r] = "none"]
    /\ UNCHANGED <<manifest, contract, remote, lease, events>>

\* Outside the lease.
Finalize(r) ==
    /\ pc[r] = "finalize"
    /\ WriteReport(job[r], verdict[r])
    /\ pc' = [pc EXCEPT ![r] = "idle"]
    /\ job' = [job EXCEPT ![r] = NoJob]
    /\ mode' = [mode EXCEPT ![r] = "regular"]
    /\ verdict' = [verdict EXCEPT ![r] = "none"]
    /\ UNCHANGED <<manifest, contract, remote, lease, events>>

-----------------------------------------------------------------------------
(* recover_exact_remote_semantic_job.                                      *)

\* A ready request to discard this job, bound to the report as it is now.
RetryReady(r) == retry = [job |-> job[r], fresh |-> TRUE]

\* No remote job is recovered: an attaching runner falls through to the regular
\* path, which asks again with the right to relaunch and then starts afresh.
NotFound(r) ==
    /\ pc' = [pc EXCEPT ![r] = IF mode[r] = "attach" THEN "plan" ELSE "upload"]
    /\ mode' = [mode EXCEPT ![r] = IF mode[r] = "attach" THEN "regular" ELSE "fresh"]
    /\ UNCHANGED <<job, verdict>>

DiscardForRetry(r) ==
    /\ pc[r] = "recover"
    /\ RetryReady(r)
    /\ remote[job[r]].staged
    /\ \/ /\ Live(job[r])
          /\ Result(r, "indeterminate")
          /\ UNCHANGED <<remote, retry>>
       \/ /\ ~Live(job[r])
          /\ remote' = [remote EXCEPT ![job[r]] = Absent]
          /\ retry' = [job |-> NoJob, fresh |-> FALSE]
          /\ NotFound(r)
    /\ UNCHANGED <<manifest, contract, report, lease, events>>

\* A probe of the candidates, of the payload identity or of a job state does not
\* complete before the deadline of the run.
Indeterminate(r) ==
    /\ pc[r] \in {"recover", "probe_sim"}
    /\ Event("timeout")
    /\ Result(r, "indeterminate")
    /\ UNCHANGED <<files, remote, lease>>

\* Mutant: a compile that is still running counts as not found.
ProbeCompileDoneOnly(r) ==
    /\ pc[r] = "recover"
    /\ ~(RetryReady(r) /\ remote[job[r]].staged)
    /\ LET d == remote[job[r]]
       IN  \/ d.staged /\ d.compile = "fail" /\ Result(r, "compile_failed")
           \/ d.staged /\ d.compile = "pass" /\ Goto(r, "probe_sim")
                                             /\ UNCHANGED <<job, mode, verdict>>
           \/ (~d.staged \/ d.compile \in Gone \cup {"running"}) /\ NotFound(r)
    /\ UNCHANGED <<files, remote, lease, events>>

\* The identity of the directory and the state of its compile.
ProbeCompile(r) ==
    /\ pc[r] = "recover"
    /\ ~(RetryReady(r) /\ remote[job[r]].staged)
    /\ LET d == remote[job[r]]
       IN  \/ d.staged /\ d.compile = "running" /\ Goto(r, "wait_compile")
                                                /\ UNCHANGED <<job, mode, verdict>>
           \/ d.staged /\ d.compile = "fail" /\ Result(r, "compile_failed")
           \/ d.staged /\ d.compile = "pass" /\ Goto(r, "probe_sim")
                                             /\ UNCHANGED <<job, mode, verdict>>
           \/ (~d.staged \/ d.compile \in Gone) /\ NotFound(r)
    /\ UNCHANGED <<files, remote, lease, events>>

\* A finished simulation is recovered, a live one attached to.  A missing one is
\* launched; a lost one is launched again on the regular path only.
ProbeSim(r) ==
    /\ pc[r] = "probe_sim"
    /\ LET s == remote[job[r]].sim
       IN  \/ s \in {"running", "pass", "fail"}
              /\ Goto(r, "wait_sim") /\ UNCHANGED <<job, mode, verdict>>
           \/ (s = "missing" \/ (s = "lost" /\ mode[r] = "regular"))
              /\ Goto(r, "launch_sim") /\ UNCHANGED <<job, mode, verdict>>
           \/ s = "lost" /\ mode[r] = "attach" /\ Result(r, "job_lost")
    /\ UNCHANGED <<files, remote, lease, events>>

-----------------------------------------------------------------------------
(* run_remote_background_command and wait_for_existing_remote_job.         *)

\* The stage is archived, copied and extracted into the work directory.
Upload(r) ==
    /\ pc[r] = "upload"
    /\ remote' = [remote EXCEPT ![job[r]].staged = TRUE]
    /\ Goto(r, "launch_compile")
    /\ UNCHANGED <<files, lease, job, mode, verdict, events>>

UploadFails(r) ==
    /\ pc[r] = "upload"
    /\ Event("ssh")
    /\ Result(r, "unprepared")
    /\ UNCHANGED <<files, remote, lease>>

\* remote_stage_cleanup_command: what runs below the stage root is killed before it
\* can write its exit file.
Killed(s) == IF s = "running" THEN "lost" ELSE s

Cleaned ==
    [f \in Inputs |-> [remote[f] EXCEPT !.compile = Killed(@), !.sim = Killed(@)]]

\* Mutant: the receipt of a directory is not looked at.
PrunedUnacknowledged(r) ==
    LET Deletable == {f \in Inputs : f # job[r] /\ remote[f].staged}
    IN  {[f \in Inputs |-> IF f \in S THEN Absent ELSE Cleaned[f]] : S \in SUBSET Deletable}

\* remote_stage_prune_command, after the cleanup: of the other directories with a
\* receipt it keeps the newest, how many is set in the environment, and a prune that
\* fails has deleted some or none.
Pruned(r) ==
    LET Deletable == {f \in Inputs : f # job[r] /\ remote[f].staged /\ remote[f].receipt}
    IN  {[f \in Inputs |-> IF f \in S THEN Absent ELSE Cleaned[f]] : S \in SUBSET Deletable}

\* The cleanup and the prune, then the detached compile.
LaunchCompile(r) ==
    /\ pc[r] = "launch_compile"
    /\ \E dirs \in Pruned(r) : remote' = [dirs EXCEPT ![job[r]].compile = "running"]
    /\ Goto(r, "wait_compile")
    /\ UNCHANGED <<files, lease, job, mode, verdict, events>>

\* The cleanup or the launch fails and the compile does not start.
LaunchCompileFails(r) ==
    /\ pc[r] = "launch_compile"
    /\ Event("ssh")
    /\ remote' \in {remote} \cup Pruned(r)
    /\ Result(r, "compile_failed")
    /\ UNCHANGED <<files, lease>>

WaitCompile(r) ==
    /\ pc[r] = "wait_compile"
    /\ LET s == remote[job[r]].compile
       IN  \/ s = "pass" /\ Goto(r, IF mode[r] = "fresh" THEN "launch_sim" ELSE "probe_sim")
                         /\ UNCHANGED <<job, mode, verdict>>
           \/ s \in {"fail", "lost", "missing"} /\ Result(r, "compile_failed")
    /\ UNCHANGED <<files, remote, lease, events>>

LaunchSim(r) ==
    /\ pc[r] = "launch_sim"
    /\ remote' = [remote EXCEPT ![job[r]].sim = "running"]
    /\ Goto(r, "wait_sim")
    /\ UNCHANGED <<files, lease, job, mode, verdict, events>>

LaunchSimFails(r) ==
    /\ pc[r] = "launch_sim"
    /\ Event("ssh")
    /\ Result(r, "transport")
    /\ UNCHANGED <<files, remote, lease>>

\* A passing job that was attached to is reported as collected; its checkpoint, if
\* it captures one, completes the run.
WaitSim(r) ==
    /\ pc[r] = "wait_sim"
    /\ LET s == remote[job[r]].sim
       IN  \/ s = "pass" /\ mode[r] = "attach" /\ Result(r, "collection")
           \/ s = "pass" /\ mode[r] = "attach" /\ job[r] \in Capturing /\ Result(r, "finished")
           \/ s = "pass" /\ mode[r] # "attach" /\ Result(r, "finished")
           \/ s = "fail" /\ Result(r, "finished")
           \/ s \in Gone /\ Result(r, "transport")
    /\ UNCHANGED <<files, remote, lease, events>>

\* The wall-clock budget of a bounded run ends while the remote job goes on.
BudgetExhausted(r) ==
    /\ \/ pc[r] = "wait_compile" /\ remote[job[r]].compile = "running"
       \/ pc[r] = "wait_sim" /\ remote[job[r]].sim = "running"
    /\ Event("timeout")
    /\ Result(r, "budget")
    /\ UNCHANGED <<files, remote, lease>>

-----------------------------------------------------------------------------
(* The environment.                                                        *)

\* The runner is killed; the kernel drops its lock, the remote job goes on.
Crash(r) ==
    /\ pc[r] # "idle"
    /\ Event("crash")
    /\ lease' = IF lease = r THEN NoRunner ELSE lease
    /\ pc' = [pc EXCEPT ![r] = "idle"]
    /\ job' = [job EXCEPT ![r] = NoJob]
    /\ mode' = [mode EXCEPT ![r] = "regular"]
    /\ verdict' = [verdict EXCEPT ![r] = "none"]
    /\ UNCHANGED <<files, remote>>

RemoteCompileEnds(f) ==
    /\ remote[f].compile = "running"
    /\ \E s \in {"pass", "fail"} : remote' = [remote EXCEPT ![f].compile = s]
    /\ UNCHANGED <<files, lease, locals, events>>

RemoteSimEnds(f) ==
    /\ remote[f].sim = "running"
    /\ \E s \in {"pass", "fail"} : remote' = [remote EXCEPT ![f].sim = s]
    /\ UNCHANGED <<files, lease, locals, events>>

\* The remote host loses the job.
RemoteJobLost(f) ==
    /\ Live(f)
    /\ Event("loss")
    /\ remote' = [remote EXCEPT ![f].compile = Killed(@), ![f].sim = Killed(@)]
    /\ UNCHANGED <<files, lease, locals>>

\* persist_board_remote_artifacts: the evidence of the job that is sealed and reported
\* is archived and acknowledged in its directory.  The report must name the logs of a
\* compile.
Acknowledge(f) ==
    /\ contract = f
    /\ report.job = f
    /\ report.verdict \in {"finished", "compile_failed", "transport", "budget"}
    /\ remote[f].staged
    /\ Event("acknowledge")
    /\ remote' = [remote EXCEPT ![f].receipt = TRUE]
    /\ UNCHANGED <<files, lease, locals>>

\* A repair or a replan binds other board inputs.
ReplaceInputs(f) ==
    /\ f # manifest
    /\ Event("replace")
    /\ manifest' = f
    /\ UNCHANGED <<contract, report, retry, remote, lease, locals>>

\* After its runner ended the flow runs the evidence analyzer on the report.  Where the
\* failure is one of the execution environment it asks for a retry of the unchanged
\* job, else it withdraws its request.
Analyze(r) ==
    /\ pc[r] = "idle"
    /\ report.job # NoJob
    /\ \/ /\ report.verdict \in {"compile_failed", "budget", "job_lost"}
          /\ Event("retry")
          /\ retry' = [job |-> report.job, fresh |-> TRUE]
       \/ /\ retry.job = report.job
          /\ retry' = [job |-> NoJob, fresh |-> FALSE]
          /\ UNCHANGED events
    /\ UNCHANGED <<manifest, contract, report, remote, lease, locals>>

-----------------------------------------------------------------------------
\* What the program does next on its own.
Step(r) ==
    \/ CheckPending(r) \/ Plan(r) \/ Seal(r) \/ Announce(r)
    \/ DiscardForRetry(r) \/ ProbeCompile(r) \/ ProbeSim(r)
    \/ Upload(r) \/ LaunchCompile(r) \/ WaitCompile(r)
    \/ LaunchSim(r) \/ WaitSim(r)
    \/ Release(r) \/ Finalize(r)

Trouble(r) ==
    \/ Refuse(r) \/ RefusePlan(r) \/ Indeterminate(r) \/ UploadFails(r)
    \/ LaunchCompileFails(r) \/ LaunchSimFails(r) \/ BudgetExhausted(r)
    \/ Crash(r)

Remote(f) == RemoteCompileEnds(f) \/ RemoteSimEnds(f)

Next ==
    \/ \E r \in Runner : Acquire(r) \/ Step(r) \/ Trouble(r) \/ Analyze(r)
    \/ \E f \in Inputs : Remote(f) \/ RemoteJobLost(f) \/ Acknowledge(f) \/ ReplaceInputs(f)

Spec == Init /\ [][Next]_vars

\* The flow starts its runner again after it ended, a runner that is alive goes on,
\* and remote jobs end.
FairSpec ==
    /\ Spec
    /\ \A r \in Runner : WF_vars(Acquire(r)) /\ WF_vars(Step(r))
    /\ \A f \in Inputs : WF_vars(Remote(f))

-----------------------------------------------------------------------------
\* The simulation launched by a runner replaces nothing: no simulation of these
\* inputs is running or finished in the work directory, whichever runner launched it
\* and whatever died since the directory was probed (real tool never relaunched).
LaunchReplacesNothing ==
    [][\A r \in Runner : LaunchSim(r) => remote[job[r]].sim \in Gone]_vars

\* A finished simulation keeps its result until a retry request discards it or, once
\* its directory carries a receipt, the prune of the compile of other inputs does: no
\* step of a runner costs a result that nobody has acknowledged.
FinishedJobsKept ==
    [][\A f \in Inputs :
          remote[f].sim \in {"pass", "fail"} =>
             \/ remote'[f].sim = remote[f].sim
             \/ retry.job = f
             \/ /\ remote[f].receipt
                /\ \E r \in Runner : pc[r] = "launch_compile" /\ job[r] # f]_vars

\* The single-instance cleanup of a compile kills no job of the inputs it compiles.
CompileKillsNoJobOfItsInputs ==
    [][\A r \in Runner : LaunchCompile(r) => ~Live(job[r])]_vars

\* While the job of the sealed contract is live it is pending, so that nobody
\* rewrites its inputs (pending_exact_board_job).
LiveJobIsPending ==
    contract = manifest /\ Live(contract) => Pending

\* A job that finished is reported, whatever runner launched it and wherever that one
\* died, unless the inputs are replaced.
FinishedJobIsReported ==
    \A f \in Inputs :
        (contract = f /\ remote[f].sim \in {"pass", "fail"}) ~>
            \/ report.job = f /\ report.verdict # "pending"
            \/ manifest # f
=============================================================================
