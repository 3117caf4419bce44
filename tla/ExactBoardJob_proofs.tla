------------------------ MODULE ExactBoardJob_proofs ------------------------
(***************************************************************************)
(* What a launch may do to the remote jobs, for every number of runners    *)
(* and of inputs: type correctness, and that no runner launches over a     *)
(* running or finished job, kills a job of the inputs it compiles, or      *)
(* loses a result.  The inductive invariant says what a runner that holds  *)
(* the lease may rely on: what it saw of its own work directory can only   *)
(* have changed by the remote job ending or being lost.                    *)
(***************************************************************************)
EXTENDS ExactBoardJob, TLAPS

\* A runner works under the lease (heavy_job_lease).
LeaseHeld ==
    \A r \in Runner : pc[r] \in Working => lease = r

\* Past planning a runner has a fingerprint.
JobBound ==
    \A r \in Runner : pc[r] \in Working \ {"check", "plan", "release"} => job[r] \in Inputs

\* Recovery is never entered by a runner that starts afresh.
ModeFits ==
    \A r \in Runner : pc[r] \in {"plan", "seal", "announce", "recover"} => mode[r] # "fresh"

\* A work directory is staged before it is compiled, compiled before it is simulated.
Staged ==
    \A f \in Inputs :
        /\ ~remote[f].staged => remote[f].compile = "missing"
        /\ remote[f].sim # "missing" => remote[f].compile = "pass"

\* What a runner at p in mode m may rely on about the work directory d.
Fits(p, m, d) ==
    /\ p \in {"upload", "launch_compile"} => d.compile \in Gone /\ d.sim = "missing"
    /\ p \in {"launch_compile", "wait_compile"} => d.staged
    /\ p = "wait_compile" /\ m = "fresh" => d.sim = "missing"
    /\ p = "probe_sim" => d.compile = "pass"
    /\ p = "launch_sim" => d.compile = "pass" /\ d.sim \in Gone
    /\ p = "wait_sim" => d.compile = "pass"

Progress ==
    \A r \in Runner : job[r] \in Inputs => Fits(pc[r], mode[r], remote[job[r]])

IndInv == TypeOK /\ LeaseHeld /\ JobBound /\ ModeFits /\ Staged /\ Progress

WorkDir == [staged : BOOLEAN, receipt : BOOLEAN, compile : JobState, sim : JobState]

\* The single-instance cleanup changes running jobs only, into lost ones.
LEMMA CleanedFits ==
  ASSUME TypeOK
  PROVE  /\ Cleaned \in [Inputs -> WorkDir]
         /\ \A f \in Inputs : /\ Cleaned[f].staged = remote[f].staged
                             /\ Cleaned[f].compile = Killed(remote[f].compile)
                             /\ Cleaned[f].sim = Killed(remote[f].sim)
  <1> DEFINE d(f) == [remote[f] EXCEPT !.compile = Killed(@), !.sim = Killed(@)]
  <1>1. ASSUME NEW f \in Inputs
        PROVE  /\ d(f) \in WorkDir
               /\ d(f).staged = remote[f].staged
               /\ d(f).compile = Killed(remote[f].compile)
               /\ d(f).sim = Killed(remote[f].sim)
    <2>1. remote[f] \in WorkDir
      BY <1>1 DEF TypeOK, WorkDir
    <2>2. \A s \in JobState : Killed(s) \in JobState
      BY DEF JobState, Killed
    <2> QED
      BY <2>1, <2>2 DEF WorkDir
  <1>2. Cleaned = [f \in Inputs |-> d(f)]
    BY DEF Cleaned
  <1> HIDE DEF d
  <1> QED
    BY <1>1, <1>2

\* A directory after the cleanup and the prune of the compile of other inputs.
AfterCleanup(d, e) ==
    \/ e = Absent
    \/ e.staged = d.staged /\ e.compile = Killed(d.compile) /\ e.sim = Killed(d.sim)

\* The prune takes other directories that carry a receipt, and whole.
LEMMA PrunedFits ==
  ASSUME TypeOK, NEW r \in Runner, NEW dirs \in Pruned(r)
  PROVE  /\ dirs \in [Inputs -> WorkDir]
         /\ \A f \in Inputs : AfterCleanup(remote[f], dirs[f])
         /\ \A f \in Inputs : f = job[r] \/ ~remote[f].receipt => dirs[f] = Cleaned[f]
  <1>1. PICK S \in SUBSET Inputs :
           /\ dirs = [f \in Inputs |-> IF f \in S THEN Absent ELSE Cleaned[f]]
           /\ \A f \in S : f # job[r] /\ remote[f].receipt
    BY DEF Pruned
  <1>2. Absent \in WorkDir
    BY DEF Absent, WorkDir, JobState
  <1>3. \A f \in Inputs : dirs[f] = IF f \in S THEN Absent ELSE Cleaned[f]
    BY <1>1
  <1>4. dirs \in [Inputs -> WorkDir]
    BY <1>1, <1>2, CleanedFits
  <1>5. \A f \in Inputs : AfterCleanup(remote[f], dirs[f])
    BY <1>3, CleanedFits DEF AfterCleanup
  <1> QED
    BY <1>1, <1>3, <1>4, <1>5

\* What the cleanup and the prune leave is in order.
LEMMA AfterCleanupStaged ==
  ASSUME TypeOK, Staged, NEW f \in Inputs, NEW e, AfterCleanup(remote[f], e)
  PROVE  /\ ~e.staged => e.compile = "missing"
         /\ e.sim # "missing" => e.compile = "pass"
  <1>1. CASE e = Absent
    BY <1>1 DEF Absent
  <1>2. CASE /\ e.staged = remote[f].staged /\ e.compile = Killed(remote[f].compile)
             /\ e.sim = Killed(remote[f].sim)
    BY <1>2 DEF Staged, Killed
  <1> QED
    BY <1>1, <1>2 DEF AfterCleanup

LEMMA InitIndInv == Init => IndInv
  BY BoardAssumption DEF Init, IndInv, TypeOK, JobState, Verdict, Working, LeaseHeld,
     JobBound, ModeFits, Staged, Progress, Fits, Absent

\* What a step of a runner under the lease owes the invariant: the others do not work.
LEMMA LeasedStep ==
  ASSUME IndInv, NEW r \in Runner, TypeOK', Staged',
         pc[r] \in Working, lease' = lease, job' = job,
         \A q \in Runner \ {r} : pc'[q] = pc[q] /\ mode'[q] = mode[q],
         pc'[r] \in Working \ {"check", "plan", "release"} => job[r] \in Inputs,
         pc'[r] \in {"plan", "seal", "announce", "recover"} => mode'[r] # "fresh",
         job[r] \in Inputs => Fits(pc'[r], mode'[r], remote'[job[r]])
  PROVE  IndInv'
  <1>1. /\ lease = r
        /\ \A q \in Runner \ {r} : pc[q] \notin Working
    BY DEF IndInv, LeaseHeld
  <1>2. LeaseHeld' /\ JobBound' /\ ModeFits'
    BY <1>1 DEF LeaseHeld, JobBound, ModeFits, Working
  <1>3. \A q \in Runner \ {r} : \A m, d : Fits(pc'[q], m, d)
    BY <1>1 DEF Fits, Working
  <1>4. Progress'
    BY <1>3 DEF Progress
  <1> QED
    BY <1>2, <1>4 DEF IndInv

LEMMA AcquireStep ==
  ASSUME IndInv, NEW r \in Runner, Acquire(r)
  PROVE  IndInv'
  BY BoardAssumption DEF Acquire, IndInv, TypeOK, JobState, Verdict, Working, LeaseHeld,
     JobBound, ModeFits, Staged, Progress, Fits, Goto, files, Gone

LEMMA CheckPendingStep ==
  ASSUME IndInv, NEW r \in Runner, CheckPending(r)
  PROVE  IndInv'
  <1>1. TypeOK'
    <2>1. report' \in [job : Inputs \cup {NoJob}, verdict : Verdict]
      BY DEF CheckPending, IndInv, TypeOK, Verdict, WriteReport, Pending
    <2>2. retry' \in [job : Inputs \cup {NoJob}, fresh : BOOLEAN]
      BY DEF CheckPending, IndInv, TypeOK, WriteReport
    <2>3. /\ job' \in [Runner -> Inputs \cup {NoJob}]
          /\ mode' \in [Runner -> {"attach", "regular", "fresh"}]
          /\ pc' \in [Runner -> Working \cup {"idle", "finalize"}]
      BY DEF CheckPending, IndInv, TypeOK, Working, Goto
    <2> QED
      BY <2>1, <2>2, <2>3 DEF CheckPending, IndInv, TypeOK
  <1>2. LeaseHeld' /\ JobBound' /\ ModeFits'
    BY BoardAssumption DEF CheckPending, IndInv, TypeOK, JobState, Verdict, Working,
       LeaseHeld, JobBound, ModeFits, Goto, WriteReport, Pending
  <1>3. Staged'
    BY DEF CheckPending, IndInv, TypeOK, JobState, Verdict, Working, Staged, JobBound,
       Progress, Fits, Goto, WriteReport, Pending
  <1>4. Progress'
    BY DEF CheckPending, IndInv, TypeOK, JobState, Verdict, Working, Staged, LeaseHeld,
       JobBound, ModeFits, Progress, Fits, Goto, WriteReport, Pending
  <1> QED
    BY <1>1, <1>2, <1>3, <1>4 DEF IndInv

LEMMA RefuseStep ==
  ASSUME IndInv, NEW r \in Runner, Refuse(r)
  PROVE  IndInv'
  <1>1. TypeOK'
    BY BoardAssumption DEF Refuse, IndInv, TypeOK, Verdict, Working, Result, Event, files
  <1>2. /\ pc[r] \in Working /\ remote' = remote /\ lease' = lease /\ job' = job
        /\ \A q \in Runner \ {r} : pc'[q] = pc[q] /\ mode'[q] = mode[q]
    BY DEF Refuse, IndInv, TypeOK, Working, Result, Event, files
  <1>3. Staged'
    BY <1>2 DEF IndInv, Staged
  <1>4. /\ pc'[r] \in Working \ {"check", "plan", "release"} => job[r] \in Inputs
        /\ pc'[r] \in {"plan", "seal", "announce", "recover"} => mode'[r] # "fresh"
    BY DEF Refuse, IndInv, TypeOK, JobBound, ModeFits, Working, Result, Event, files
  <1>5. job[r] \in Inputs => Fits(pc'[r], mode'[r], remote[job[r]])
    BY DEF Refuse, IndInv, TypeOK, Staged, Progress, Fits, Working, Gone, JobState, Result, Event, files
  <1> QED
    BY <1>1, <1>2, <1>3, <1>4, <1>5, LeasedStep

LEMMA PlanStep ==
  ASSUME IndInv, NEW r \in Runner, Plan(r)
  PROVE  IndInv'
  BY BoardAssumption DEF Plan, IndInv, TypeOK, JobState, Verdict, Working, LeaseHeld,
     JobBound, ModeFits, Staged, Progress, Fits, Goto, Gone

LEMMA RefusePlanStep ==
  ASSUME IndInv, NEW r \in Runner, RefusePlan(r)
  PROVE  IndInv'
  BY BoardAssumption DEF RefusePlan, IndInv, TypeOK, JobState, Verdict, Working, LeaseHeld,
     JobBound, ModeFits, Staged, Progress, Fits, Event, files, Gone

LEMMA SealStep ==
  ASSUME IndInv, NEW r \in Runner, Seal(r)
  PROVE  IndInv'
  BY BoardAssumption DEF Seal, IndInv, TypeOK, JobState, Verdict, Working, LeaseHeld,
     JobBound, ModeFits, Staged, Progress, Fits, Goto, Gone

LEMMA AnnounceStep ==
  ASSUME IndInv, NEW r \in Runner, Announce(r)
  PROVE  IndInv'
  <1>1. TypeOK'
    BY BoardAssumption DEF Announce, IndInv, TypeOK, Verdict, Working, Goto, WriteReport
  <1>2. /\ pc[r] \in Working /\ remote' = remote /\ lease' = lease /\ job' = job
        /\ \A q \in Runner \ {r} : pc'[q] = pc[q] /\ mode'[q] = mode[q]
    BY DEF Announce, IndInv, TypeOK, Working, Goto, WriteReport
  <1>3. Staged'
    BY <1>2 DEF IndInv, Staged
  <1>4. /\ pc'[r] \in Working \ {"check", "plan", "release"} => job[r] \in Inputs
        /\ pc'[r] \in {"plan", "seal", "announce", "recover"} => mode'[r] # "fresh"
    BY DEF Announce, IndInv, TypeOK, JobBound, ModeFits, Working, Goto, WriteReport
  <1>5. job[r] \in Inputs => Fits(pc'[r], mode'[r], remote[job[r]])
    BY DEF Announce, IndInv, TypeOK, Staged, Progress, Fits, Working, Gone, JobState, Goto, WriteReport
  <1> QED
    BY <1>1, <1>2, <1>3, <1>4, <1>5, LeasedStep

LEMMA ReleaseStep ==
  ASSUME IndInv, NEW r \in Runner, Release(r)
  PROVE  IndInv'
  BY BoardAssumption DEF Release, IndInv, TypeOK, JobState, Verdict, Working, LeaseHeld,
     JobBound, ModeFits, Staged, Progress, Fits, Goto, files, Gone

LEMMA FinalizeStep ==
  ASSUME IndInv, NEW r \in Runner, Finalize(r)
  PROVE  IndInv'
  <1>1. TypeOK'
    BY BoardAssumption DEF Finalize, IndInv, TypeOK, JobState, Verdict, Working, WriteReport
  <1>2. LeaseHeld' /\ JobBound' /\ ModeFits'
    BY BoardAssumption DEF Finalize, IndInv, TypeOK, JobState, Verdict, Working, LeaseHeld,
       JobBound, ModeFits, WriteReport
  <1>3. Staged'
    BY DEF Finalize, IndInv, TypeOK, JobState, Verdict, Working, Staged, JobBound, Progress,
       Fits, WriteReport
  <1>4. Progress'
    BY DEF Finalize, IndInv, TypeOK, JobState, Verdict, Working, Staged, LeaseHeld,
       JobBound, ModeFits, Progress, Fits, WriteReport
  <1> QED
    BY <1>1, <1>2, <1>3, <1>4 DEF IndInv

LEMMA DiscardForRetryStep ==
  ASSUME IndInv, NEW r \in Runner, DiscardForRetry(r)
  PROVE  IndInv'
  <1>1. TypeOK'
    <2>1. Absent \in WorkDir
      BY DEF Absent, WorkDir, JobState
    <2>2. remote' \in [Inputs -> WorkDir]
      BY <2>1 DEF DiscardForRetry, IndInv, TypeOK, WorkDir
    <2>3. retry' \in [job : Inputs \cup {NoJob}, fresh : BOOLEAN]
      <3>1. retry' \in {retry, [job |-> NoJob, fresh |-> FALSE]}
        BY DEF DiscardForRetry
      <3>2. [job |-> NoJob, fresh |-> FALSE] \in [job : Inputs \cup {NoJob}, fresh : BOOLEAN]
        OBVIOUS
      <3>3. retry \in [job : Inputs \cup {NoJob}, fresh : BOOLEAN]
        BY DEF IndInv, TypeOK
      <3> QED
        BY <3>1, <3>2, <3>3, Zenon
    <2>4. /\ pc' \in [Runner -> Working \cup {"idle", "finalize"}]
          /\ mode' \in [Runner -> {"attach", "regular", "fresh"}]
          /\ verdict' \in [Runner -> Verdict]
          /\ job' = job
      BY DEF DiscardForRetry, IndInv, TypeOK, Working, Verdict, Result, NotFound
    <2> QED
      BY <2>2, <2>3, <2>4 DEF DiscardForRetry, IndInv, TypeOK, WorkDir
  <1>2. /\ pc[r] \in Working /\ lease' = lease /\ job' = job
        /\ \A q \in Runner \ {r} : pc'[q] = pc[q] /\ mode'[q] = mode[q]
    BY DEF DiscardForRetry, IndInv, TypeOK, Working, Result, NotFound, RetryReady, Live, Absent
  <1>3. Staged'
    BY DEF DiscardForRetry, IndInv, TypeOK, JobState, Verdict, Working, Staged, JobBound,
       Progress, Fits, Result, NotFound, RetryReady, Live, Gone, Absent
  <1>4. /\ pc'[r] \in Working \ {"check", "plan", "release"} => job[r] \in Inputs
        /\ pc'[r] \in {"plan", "seal", "announce", "recover"} => mode'[r] # "fresh"
    BY DEF DiscardForRetry, IndInv, TypeOK, JobBound, ModeFits, Working, Result, NotFound, RetryReady, Live, Absent
  <1>5. job[r] \in Inputs => Fits(pc'[r], mode'[r], remote'[job[r]])
    BY DEF DiscardForRetry, IndInv, TypeOK, Staged, Progress, Fits, Working, Gone, JobState, Result, NotFound, RetryReady, Live, Absent
  <1> QED
    BY <1>1, <1>2, <1>3, <1>4, <1>5, LeasedStep

LEMMA IndeterminateStep ==
  ASSUME IndInv, NEW r \in Runner, Indeterminate(r)
  PROVE  IndInv'
  <1>1. TypeOK'
    BY BoardAssumption DEF Indeterminate, IndInv, TypeOK, Verdict, Working, Result, Event, files
  <1>2. /\ pc[r] \in Working /\ remote' = remote /\ lease' = lease /\ job' = job
        /\ \A q \in Runner \ {r} : pc'[q] = pc[q] /\ mode'[q] = mode[q]
    BY DEF Indeterminate, IndInv, TypeOK, Working, Result, Event, files
  <1>3. Staged'
    BY <1>2 DEF IndInv, Staged
  <1>4. /\ pc'[r] \in Working \ {"check", "plan", "release"} => job[r] \in Inputs
        /\ pc'[r] \in {"plan", "seal", "announce", "recover"} => mode'[r] # "fresh"
    BY DEF Indeterminate, IndInv, TypeOK, JobBound, ModeFits, Working, Result, Event, files
  <1>5. job[r] \in Inputs => Fits(pc'[r], mode'[r], remote[job[r]])
    BY DEF Indeterminate, IndInv, TypeOK, Staged, Progress, Fits, Working, Gone, JobState, Result, Event, files
  <1> QED
    BY <1>1, <1>2, <1>3, <1>4, <1>5, LeasedStep

LEMMA ProbeCompileStep ==
  ASSUME IndInv, NEW r \in Runner, ProbeCompile(r)
  PROVE  IndInv'
  <1>1. TypeOK'
    BY BoardAssumption DEF ProbeCompile, IndInv, TypeOK, Verdict, Working, Goto, Result, NotFound, files
  <1>2. /\ pc[r] \in Working /\ remote' = remote /\ lease' = lease /\ job' = job
        /\ \A q \in Runner \ {r} : pc'[q] = pc[q] /\ mode'[q] = mode[q]
    BY DEF ProbeCompile, IndInv, TypeOK, Working, Goto, Result, NotFound, files
  <1>3. Staged'
    BY <1>2 DEF IndInv, Staged
  <1>4. /\ pc'[r] \in Working \ {"check", "plan", "release"} => job[r] \in Inputs
        /\ pc'[r] \in {"plan", "seal", "announce", "recover"} => mode'[r] # "fresh"
    BY DEF ProbeCompile, IndInv, TypeOK, JobBound, ModeFits, Working, Goto, Result, NotFound, files
  <1>5. job[r] \in Inputs => Fits(pc'[r], mode'[r], remote[job[r]])
    BY DEF ProbeCompile, IndInv, TypeOK, Staged, Progress, Fits, Working, Gone, JobState, Goto, Result, NotFound, files
  <1> QED
    BY <1>1, <1>2, <1>3, <1>4, <1>5, LeasedStep

LEMMA ProbeSimStep ==
  ASSUME IndInv, NEW r \in Runner, ProbeSim(r)
  PROVE  IndInv'
  <1>1. TypeOK'
    BY BoardAssumption DEF ProbeSim, IndInv, TypeOK, Verdict, Working, Goto, Result, files
  <1>2. /\ pc[r] \in Working /\ remote' = remote /\ lease' = lease /\ job' = job
        /\ \A q \in Runner \ {r} : pc'[q] = pc[q] /\ mode'[q] = mode[q]
    BY DEF ProbeSim, IndInv, TypeOK, Working, Goto, Result, files
  <1>3. Staged'
    BY <1>2 DEF IndInv, Staged
  <1>4. /\ pc'[r] \in Working \ {"check", "plan", "release"} => job[r] \in Inputs
        /\ pc'[r] \in {"plan", "seal", "announce", "recover"} => mode'[r] # "fresh"
    BY DEF ProbeSim, IndInv, TypeOK, JobBound, ModeFits, Working, Goto, Result, files
  <1>5. job[r] \in Inputs => Fits(pc'[r], mode'[r], remote[job[r]])
    BY DEF ProbeSim, IndInv, TypeOK, Staged, Progress, Fits, Working, Gone, JobState, Goto, Result, files
  <1> QED
    BY <1>1, <1>2, <1>3, <1>4, <1>5, LeasedStep

LEMMA UploadStep ==
  ASSUME IndInv, NEW r \in Runner, Upload(r)
  PROVE  IndInv'
  <1>1. TypeOK'
    <2> DEFINE d == [remote[job[r]] EXCEPT !.staged = TRUE]
    <2>1. job[r] \in Inputs
      BY DEF Upload, IndInv, JobBound, Working
    <2>2. remote' = [remote EXCEPT ![job[r]] = d]
      BY <2>1 DEF Upload, IndInv, TypeOK
    <2>3. d \in WorkDir
      <3>1. remote[job[r]] \in WorkDir
        BY <2>1 DEF IndInv, TypeOK, WorkDir
      <3> QED
        BY <3>1 DEF WorkDir
    <2> HIDE DEF d
    <2>4. remote' \in [Inputs -> WorkDir]
      BY <2>1, <2>2, <2>3 DEF IndInv, TypeOK, WorkDir
    <2> QED
      BY <2>4 DEF Upload, IndInv, TypeOK, JobState, Verdict, Working, WorkDir, Goto, files
  <1>2. /\ pc[r] \in Working /\ lease' = lease /\ job' = job
        /\ \A q \in Runner \ {r} : pc'[q] = pc[q] /\ mode'[q] = mode[q]
    BY DEF Upload, IndInv, TypeOK, Working, Goto, files
  <1>3. Staged'
    BY DEF Upload, IndInv, TypeOK, JobState, Verdict, Working, Staged, JobBound, Progress,
       Fits, Goto, files, Gone
  <1>4. /\ pc'[r] \in Working \ {"check", "plan", "release"} => job[r] \in Inputs
        /\ pc'[r] \in {"plan", "seal", "announce", "recover"} => mode'[r] # "fresh"
    BY DEF Upload, IndInv, TypeOK, JobBound, ModeFits, Working, Goto, files
  <1>5. job[r] \in Inputs => Fits(pc'[r], mode'[r], remote'[job[r]])
    BY DEF Upload, IndInv, TypeOK, Staged, Progress, Fits, Working, Gone, JobState, Goto, files
  <1> QED
    BY <1>1, <1>2, <1>3, <1>4, <1>5, LeasedStep

LEMMA UploadFailsStep ==
  ASSUME IndInv, NEW r \in Runner, UploadFails(r)
  PROVE  IndInv'
  <1>1. TypeOK'
    BY BoardAssumption DEF UploadFails, IndInv, TypeOK, Verdict, Working, Result, Event, files
  <1>2. /\ pc[r] \in Working /\ remote' = remote /\ lease' = lease /\ job' = job
        /\ \A q \in Runner \ {r} : pc'[q] = pc[q] /\ mode'[q] = mode[q]
    BY DEF UploadFails, IndInv, TypeOK, Working, Result, Event, files
  <1>3. Staged'
    BY <1>2 DEF IndInv, Staged
  <1>4. /\ pc'[r] \in Working \ {"check", "plan", "release"} => job[r] \in Inputs
        /\ pc'[r] \in {"plan", "seal", "announce", "recover"} => mode'[r] # "fresh"
    BY DEF UploadFails, IndInv, TypeOK, JobBound, ModeFits, Working, Result, Event, files
  <1>5. job[r] \in Inputs => Fits(pc'[r], mode'[r], remote[job[r]])
    BY DEF UploadFails, IndInv, TypeOK, Staged, Progress, Fits, Working, Gone, JobState, Result, Event, files
  <1> QED
    BY <1>1, <1>2, <1>3, <1>4, <1>5, LeasedStep

LEMMA LaunchCompileStep ==
  ASSUME IndInv, NEW r \in Runner, LaunchCompile(r)
  PROVE  IndInv'
  <1>a. job[r] \in Inputs /\ TypeOK
    BY DEF LaunchCompile, IndInv, JobBound, Working
  <1>p. PICK dirs \in Pruned(r) : remote' = [dirs EXCEPT ![job[r]].compile = "running"]
    BY DEF LaunchCompile
  <1> DEFINE d == [dirs[job[r]] EXCEPT !.compile = "running"]
  <1>q. /\ dirs \in [Inputs -> WorkDir]
        /\ \A f \in Inputs : AfterCleanup(remote[f], dirs[f])
        /\ dirs[job[r]] = Cleaned[job[r]]
    BY <1>a, PrunedFits
  <1>b. remote' = [dirs EXCEPT ![job[r]] = d]
    BY <1>a, <1>p, <1>q
  <1>c. /\ d \in WorkDir
        /\ d.staged = remote[job[r]].staged
        /\ d.compile = "running"
        /\ d.sim = Killed(remote[job[r]].sim)
    BY <1>a, <1>q, CleanedFits DEF WorkDir, JobState
  <1> HIDE DEF d
  <1>d. /\ remote' \in [Inputs -> WorkDir]
        /\ remote'[job[r]] = d
        /\ \A f \in Inputs \ {job[r]} : remote'[f] = dirs[f]
    BY <1>a, <1>b, <1>c, <1>q
  <1>1. TypeOK'
    BY <1>d DEF LaunchCompile, IndInv, TypeOK, JobState, Verdict, Working, WorkDir, Goto,
       files
  <1>2. /\ pc[r] \in Working /\ lease' = lease /\ job' = job
        /\ pc[r] = "launch_compile" /\ pc'[r] = "wait_compile"
        /\ \A q \in Runner \ {r} : pc'[q] = pc[q] /\ mode'[q] = mode[q]
    BY DEF LaunchCompile, IndInv, TypeOK, Working, Goto
  <1>3. d.staged /\ d.sim = "missing"
    BY <1>a, <1>c, <1>2 DEF IndInv, Progress, Fits, Killed
  <1>4. Staged'
    <2> SUFFICES ASSUME NEW f \in Inputs
                 PROVE  /\ ~remote'[f].staged => remote'[f].compile = "missing"
                        /\ remote'[f].sim # "missing" => remote'[f].compile = "pass"
      BY DEF Staged
    <2>1. CASE f = job[r]
      BY <1>d, <1>3, <2>1
    <2>2. CASE f # job[r]
      BY <1>a, <1>d, <1>q, <2>2, AfterCleanupStaged DEF IndInv
    <2> QED
      BY <2>1, <2>2
  <1>5. Fits(pc'[r], mode'[r], remote'[job[r]])
    BY <1>d, <1>2, <1>3 DEF Fits
  <1> QED
    BY <1>a, <1>1, <1>2, <1>4, <1>5, LeasedStep

LEMMA LaunchCompileFailsStep ==
  ASSUME IndInv, NEW r \in Runner, LaunchCompileFails(r)
  PROVE  IndInv'
  <1>a. /\ remote' \in [Inputs -> WorkDir]
        /\ \A f \in Inputs : remote'[f] = remote[f] \/ AfterCleanup(remote[f], remote'[f])
    BY PrunedFits DEF LaunchCompileFails, IndInv, TypeOK, WorkDir
  <1>1. TypeOK'
    BY <1>a, BoardAssumption DEF LaunchCompileFails, IndInv, TypeOK, JobState, Verdict,
       Working, WorkDir, Result, Event, files
  <1>2. /\ pc[r] \in Working /\ lease' = lease /\ job' = job /\ pc'[r] = "release"
        /\ \A q \in Runner \ {r} : pc'[q] = pc[q] /\ mode'[q] = mode[q]
    BY DEF LaunchCompileFails, IndInv, TypeOK, Working, Result
  <1>3. Staged'
    BY <1>a, AfterCleanupStaged DEF IndInv, Staged
  <1> QED
    BY <1>1, <1>2, <1>3, LeasedStep DEF Fits

LEMMA WaitCompileStep ==
  ASSUME IndInv, NEW r \in Runner, WaitCompile(r)
  PROVE  IndInv'
  <1>1. TypeOK'
    BY BoardAssumption DEF WaitCompile, IndInv, TypeOK, Verdict, Working, Goto, Result, files
  <1>2. /\ pc[r] \in Working /\ remote' = remote /\ lease' = lease /\ job' = job
        /\ \A q \in Runner \ {r} : pc'[q] = pc[q] /\ mode'[q] = mode[q]
    BY DEF WaitCompile, IndInv, TypeOK, Working, Goto, Result, files
  <1>3. Staged'
    BY <1>2 DEF IndInv, Staged
  <1>4. /\ pc'[r] \in Working \ {"check", "plan", "release"} => job[r] \in Inputs
        /\ pc'[r] \in {"plan", "seal", "announce", "recover"} => mode'[r] # "fresh"
    BY DEF WaitCompile, IndInv, TypeOK, JobBound, ModeFits, Working, Goto, Result, files
  <1>5. job[r] \in Inputs => Fits(pc'[r], mode'[r], remote[job[r]])
    BY DEF WaitCompile, IndInv, TypeOK, Staged, Progress, Fits, Working, Gone, JobState, Goto, Result, files
  <1> QED
    BY <1>1, <1>2, <1>3, <1>4, <1>5, LeasedStep

LEMMA LaunchSimStep ==
  ASSUME IndInv, NEW r \in Runner, LaunchSim(r)
  PROVE  IndInv'
  <1>0. /\ job[r] \in Inputs /\ pc[r] \in Working
        /\ remote[job[r]] \in WorkDir
        /\ remote[job[r]].compile = "pass"
        /\ remote[job[r]].staged
    BY DEF LaunchSim, IndInv, TypeOK, WorkDir, JobBound, Staged, Progress, Fits, Working
  <1> DEFINE d == [remote[job[r]] EXCEPT !.sim = "running"]
  <1>a. /\ d \in WorkDir /\ d.compile = "pass" /\ d.staged
        /\ remote' = [remote EXCEPT ![job[r]] = d]
    BY <1>0 DEF LaunchSim, WorkDir, JobState
  <1> HIDE DEF d
  <1>b. /\ remote' \in [Inputs -> WorkDir]
        /\ remote'[job[r]] = d
        /\ \A f \in Inputs \ {job[r]} : remote'[f] = remote[f]
    BY <1>0, <1>a DEF IndInv, TypeOK, WorkDir
  <1>1. TypeOK'
    BY <1>b DEF LaunchSim, IndInv, TypeOK, WorkDir, Working, Goto, files
  <1>2. /\ lease' = lease /\ job' = job
        /\ pc'[r] = "wait_sim"
        /\ \A q \in Runner \ {r} : pc'[q] = pc[q] /\ mode'[q] = mode[q]
    BY DEF LaunchSim, IndInv, TypeOK, Goto
  <1>3. Staged'
    BY <1>0, <1>a, <1>b DEF IndInv, Staged
  <1>4. Fits(pc'[r], mode'[r], remote'[job[r]])
    BY <1>a, <1>b, <1>2 DEF Fits
  <1> QED
    BY <1>0, <1>1, <1>2, <1>3, <1>4, LeasedStep

LEMMA LaunchSimFailsStep ==
  ASSUME IndInv, NEW r \in Runner, LaunchSimFails(r)
  PROVE  IndInv'
  <1>1. TypeOK'
    BY BoardAssumption DEF LaunchSimFails, IndInv, TypeOK, Verdict, Working, Result, Event, files
  <1>2. /\ pc[r] \in Working /\ remote' = remote /\ lease' = lease /\ job' = job
        /\ \A q \in Runner \ {r} : pc'[q] = pc[q] /\ mode'[q] = mode[q]
    BY DEF LaunchSimFails, IndInv, TypeOK, Working, Result, Event, files
  <1>3. Staged'
    BY <1>2 DEF IndInv, Staged
  <1>4. /\ pc'[r] \in Working \ {"check", "plan", "release"} => job[r] \in Inputs
        /\ pc'[r] \in {"plan", "seal", "announce", "recover"} => mode'[r] # "fresh"
    BY DEF LaunchSimFails, IndInv, TypeOK, JobBound, ModeFits, Working, Result, Event, files
  <1>5. job[r] \in Inputs => Fits(pc'[r], mode'[r], remote[job[r]])
    BY DEF LaunchSimFails, IndInv, TypeOK, Staged, Progress, Fits, Working, Gone, JobState, Result, Event, files
  <1> QED
    BY <1>1, <1>2, <1>3, <1>4, <1>5, LeasedStep

LEMMA WaitSimStep ==
  ASSUME IndInv, NEW r \in Runner, WaitSim(r)
  PROVE  IndInv'
  <1>1. TypeOK'
    BY BoardAssumption DEF WaitSim, IndInv, TypeOK, Verdict, Working, Result, files
  <1>2. /\ pc[r] \in Working /\ remote' = remote /\ lease' = lease /\ job' = job
        /\ \A q \in Runner \ {r} : pc'[q] = pc[q] /\ mode'[q] = mode[q]
    BY DEF WaitSim, IndInv, TypeOK, Working, Result, files
  <1>3. Staged'
    BY <1>2 DEF IndInv, Staged
  <1>4. /\ pc'[r] \in Working \ {"check", "plan", "release"} => job[r] \in Inputs
        /\ pc'[r] \in {"plan", "seal", "announce", "recover"} => mode'[r] # "fresh"
    BY DEF WaitSim, IndInv, TypeOK, JobBound, ModeFits, Working, Result, files
  <1>5. job[r] \in Inputs => Fits(pc'[r], mode'[r], remote[job[r]])
    BY DEF WaitSim, IndInv, TypeOK, Staged, Progress, Fits, Working, Gone, JobState, Result, files
  <1> QED
    BY <1>1, <1>2, <1>3, <1>4, <1>5, LeasedStep

LEMMA BudgetExhaustedStep ==
  ASSUME IndInv, NEW r \in Runner, BudgetExhausted(r)
  PROVE  IndInv'
  <1>1. TypeOK'
    BY BoardAssumption DEF BudgetExhausted, IndInv, TypeOK, Verdict, Working, Result, Event, files
  <1>2. /\ pc[r] \in Working /\ remote' = remote /\ lease' = lease /\ job' = job
        /\ \A q \in Runner \ {r} : pc'[q] = pc[q] /\ mode'[q] = mode[q]
    BY DEF BudgetExhausted, IndInv, TypeOK, Working, Result, Event, files
  <1>3. Staged'
    BY <1>2 DEF IndInv, Staged
  <1>4. /\ pc'[r] \in Working \ {"check", "plan", "release"} => job[r] \in Inputs
        /\ pc'[r] \in {"plan", "seal", "announce", "recover"} => mode'[r] # "fresh"
    BY DEF BudgetExhausted, IndInv, TypeOK, JobBound, ModeFits, Working, Result, Event, files
  <1>5. job[r] \in Inputs => Fits(pc'[r], mode'[r], remote[job[r]])
    BY DEF BudgetExhausted, IndInv, TypeOK, Staged, Progress, Fits, Working, Gone, JobState, Result, Event, files
  <1> QED
    BY <1>1, <1>2, <1>3, <1>4, <1>5, LeasedStep

LEMMA CrashStep ==
  ASSUME IndInv, NEW r \in Runner, Crash(r)
  PROVE  IndInv'
  BY BoardAssumption DEF Crash, IndInv, TypeOK, JobState, Verdict, Working, LeaseHeld,
     JobBound, ModeFits, Staged, Progress, Fits, Event, files, Gone

LEMMA AnalyzeStep ==
  ASSUME IndInv, NEW r \in Runner, Analyze(r)
  PROVE  IndInv'
  <1>1. TypeOK'
    <2>1. report.job \in Inputs \cup {NoJob}
      BY DEF IndInv, TypeOK
    <2>2. retry' \in [job : Inputs \cup {NoJob}, fresh : BOOLEAN]
      <3>1. retry' \in {[job |-> report.job, fresh |-> TRUE], [job |-> NoJob, fresh |-> FALSE]}
        BY DEF Analyze
      <3>2. /\ [job |-> report.job, fresh |-> TRUE] \in [job : Inputs \cup {NoJob}, fresh : BOOLEAN]
            /\ [job |-> NoJob, fresh |-> FALSE] \in [job : Inputs \cup {NoJob}, fresh : BOOLEAN]
        BY <2>1
      <3> QED
        BY <3>1, <3>2, Zenon
    <2>3. events' \in 0 .. MaxEvents
      BY BoardAssumption DEF Analyze, IndInv, TypeOK, Event
    <2> QED
      BY <2>2, <2>3 DEF Analyze, IndInv, TypeOK, locals
  <1>2. LeaseHeld' /\ JobBound' /\ ModeFits'
    BY BoardAssumption DEF Analyze, IndInv, TypeOK, JobState, Verdict, Working, LeaseHeld,
       JobBound, ModeFits, Event, locals
  <1>3. Staged'
    BY DEF Analyze, IndInv, TypeOK, JobState, Verdict, Working, Staged, JobBound, Progress,
       Fits, Event, locals
  <1>4. Progress'
    BY DEF Analyze, IndInv, TypeOK, JobState, Verdict, Working, Staged, LeaseHeld, JobBound,
       ModeFits, Progress, Fits, Event, locals
  <1> QED
    BY <1>1, <1>2, <1>3, <1>4 DEF IndInv

LEMMA RemoteCompileEndsStep ==
  ASSUME IndInv, NEW f \in Inputs, RemoteCompileEnds(f)
  PROVE  IndInv'
  BY BoardAssumption DEF RemoteCompileEnds, IndInv, TypeOK, JobState, Verdict, Working,
     LeaseHeld, JobBound, ModeFits, Staged, Progress, Fits, files, locals, Gone

LEMMA RemoteSimEndsStep ==
  ASSUME IndInv, NEW f \in Inputs, RemoteSimEnds(f)
  PROVE  IndInv'
  BY BoardAssumption DEF RemoteSimEnds, IndInv, TypeOK, JobState, Verdict, Working,
     LeaseHeld, JobBound, ModeFits, Staged, Progress, Fits, files, locals, Gone

LEMMA RemoteJobLostStep ==
  ASSUME IndInv, NEW f \in Inputs, RemoteJobLost(f)
  PROVE  IndInv'
  <1>1. TypeOK'
    <2> DEFINE d == [remote[f] EXCEPT !.compile = Killed(@), !.sim = Killed(@)]
    <2>1. remote' = [remote EXCEPT ![f] = d]
      BY DEF RemoteJobLost, IndInv, TypeOK
    <2>2. d \in WorkDir
      <3>1. remote[f] \in WorkDir
        BY DEF IndInv, TypeOK, WorkDir
      <3>2. \A s \in JobState : Killed(s) \in JobState
        BY DEF JobState, Killed
      <3> QED
        BY <3>1, <3>2 DEF WorkDir
    <2> HIDE DEF d
    <2>3. remote' \in [Inputs -> WorkDir]
      BY <2>1, <2>2 DEF IndInv, TypeOK, WorkDir
    <2> QED
      BY <2>3, BoardAssumption DEF RemoteJobLost, IndInv, TypeOK, JobState, Verdict,
         Working, WorkDir, Event, files, locals
  <1>2. LeaseHeld' /\ JobBound' /\ ModeFits'
    BY BoardAssumption DEF RemoteJobLost, IndInv, TypeOK, JobState, Verdict, Working,
       LeaseHeld, JobBound, ModeFits, Event, Live, Killed, files, locals, Gone
  <1>3. Staged'
    BY DEF RemoteJobLost, IndInv, TypeOK, JobState, Verdict, Working, Staged, JobBound,
       Progress, Fits, Event, Live, Killed, files, locals, Gone
  <1>4. Progress'
    BY DEF RemoteJobLost, IndInv, TypeOK, JobState, Verdict, Working, Staged, LeaseHeld,
       JobBound, ModeFits, Progress, Fits, Event, Live, Killed, files, locals, Gone
  <1> QED
    BY <1>1, <1>2, <1>3, <1>4 DEF IndInv

LEMMA AcknowledgeStep ==
  ASSUME IndInv, NEW f \in Inputs, Acknowledge(f)
  PROVE  IndInv'
  <1> DEFINE d == [remote[f] EXCEPT !.receipt = TRUE]
  <1>1. remote' = [remote EXCEPT ![f] = d]
    BY DEF Acknowledge, IndInv, TypeOK
  <1>2. /\ d \in WorkDir
        /\ d.staged = remote[f].staged /\ d.compile = remote[f].compile /\ d.sim = remote[f].sim
    <2>1. remote[f] \in WorkDir
      BY DEF IndInv, TypeOK, WorkDir
    <2> QED
      BY <2>1 DEF WorkDir
  <1> HIDE DEF d
  <1>3. /\ remote' \in [Inputs -> WorkDir]
        /\ \A g \in Inputs : /\ remote'[g].staged = remote[g].staged
                             /\ remote'[g].compile = remote[g].compile
                             /\ remote'[g].sim = remote[g].sim
    BY <1>1, <1>2 DEF IndInv, TypeOK, WorkDir
  <1>4. UNCHANGED <<files, lease, locals>> /\ events' \in 0 .. MaxEvents
    BY BoardAssumption DEF Acknowledge, Event, IndInv, TypeOK
  <1>5. TypeOK'
    BY <1>3, <1>4 DEF IndInv, TypeOK, WorkDir, files, locals
  <1>6. LeaseHeld' /\ JobBound' /\ ModeFits'
    BY <1>4 DEF IndInv, LeaseHeld, JobBound, ModeFits, locals
  <1>7. Staged' /\ Progress'
    BY <1>3, <1>4 DEF IndInv, Staged, Progress, Fits, locals
  <1> QED
    BY <1>5, <1>6, <1>7 DEF IndInv

LEMMA ReplaceInputsStep ==
  ASSUME IndInv, NEW f \in Inputs, ReplaceInputs(f)
  PROVE  IndInv'
  BY BoardAssumption DEF ReplaceInputs, IndInv, TypeOK, JobState, Verdict, Working,
     LeaseHeld, JobBound, ModeFits, Staged, Progress, Fits, Event, locals, Gone

LEMMA IndInvStep == IndInv /\ [Next]_vars => IndInv'
  <1> SUFFICES ASSUME IndInv, [Next]_vars PROVE IndInv'
    OBVIOUS
  <1>1. CASE UNCHANGED vars
    BY <1>1 DEF vars, files, locals, IndInv, TypeOK, JobState, Verdict, Working, LeaseHeld,
       JobBound, ModeFits, Staged, Progress, Fits
  <1>2. ASSUME NEW r \in Runner, Acquire(r) \/ Step(r) PROVE IndInv'
    BY <1>2, AcquireStep, CheckPendingStep, PlanStep, SealStep, AnnounceStep,
       DiscardForRetryStep, ProbeCompileStep, ProbeSimStep, UploadStep, LaunchCompileStep,
       WaitCompileStep, LaunchSimStep, WaitSimStep, ReleaseStep, FinalizeStep DEF Step
  <1>3. ASSUME NEW r \in Runner, Trouble(r) \/ Analyze(r) PROVE IndInv'
    BY <1>3, RefuseStep, RefusePlanStep, IndeterminateStep, UploadFailsStep,
       LaunchCompileFailsStep, LaunchSimFailsStep, BudgetExhaustedStep, CrashStep,
       AnalyzeStep DEF Trouble
  <1>4. ASSUME NEW f \in Inputs,
               Remote(f) \/ RemoteJobLost(f) \/ Acknowledge(f) \/ ReplaceInputs(f)
        PROVE  IndInv'
    BY <1>4, RemoteCompileEndsStep, RemoteSimEndsStep, RemoteJobLostStep, AcknowledgeStep,
       ReplaceInputsStep
    DEF Remote
  <1> QED
    BY <1>1, <1>2, <1>3, <1>4 DEF Next

THEOREM SpecIndInv == Spec => []IndInv
  <1>1. Init => IndInv
    BY InitIndInv
  <1>2. IndInv /\ [Next]_vars => IndInv'
    BY IndInvStep
  <1> QED
    BY <1>1, <1>2, PTL DEF Spec

\* Every variable keeps its type, the budget of environment events included.
THEOREM SpecTypeOK == Spec => []TypeOK
  <1>1. IndInv => TypeOK
    BY DEF IndInv
  <1> QED
    BY <1>1, SpecIndInv, PTL

\* No runner launches a simulation over one of these inputs that runs or has ended
\* (recover_exact_remote_semantic_job, run_remote_background_command).
THEOREM SpecLaunchReplacesNothing == Spec => LaunchReplacesNothing
  <1>1. IndInv => \A r \in Runner : LaunchSim(r) => remote[job[r]].sim \in Gone
    BY DEF IndInv, LaunchSim, JobBound, Working, Progress, Fits
  <1> QED
    BY <1>1, SpecIndInv, PTL DEF LaunchReplacesNothing

\* The single-instance cleanup before a compile kills no job of the inputs it compiles
\* (remote_stage_cleanup_command).
THEOREM SpecCompileKillsNoJobOfItsInputs == Spec => CompileKillsNoJobOfItsInputs
  <1>1. IndInv => \A r \in Runner : LaunchCompile(r) => ~Live(job[r])
    BY DEF IndInv, LaunchCompile, JobBound, Working, Progress, Fits, Live, Gone
  <1> QED
    BY <1>1, SpecIndInv, PTL DEF CompileKillsNoJobOfItsInputs

\* A step takes the result of a finished simulation only on a retry request for it, or
\* in the prune of other inputs if it is acknowledged.
PrunedByOther(f) ==
    remote[f].receipt /\ \E r \in Runner : pc[r] = "launch_compile" /\ job[r] # f

LEMMA PruneKeepsUnacknowledged ==
  ASSUME IndInv, NEW f \in Inputs, remote[f].sim \in {"pass", "fail"},
         NEW r \in Runner, pc[r] = "launch_compile", NEW dirs \in Pruned(r)
  PROVE  dirs[f].sim = remote[f].sim \/ PrunedByOther(f)
  <1>1. CASE f = job[r] \/ ~remote[f].receipt
    <2>1. dirs[f] = Cleaned[f]
      BY <1>1, PrunedFits DEF IndInv
    <2> QED
      BY <2>1, CleanedFits DEF IndInv, Killed
  <1>2. CASE f # job[r] /\ remote[f].receipt
    BY <1>2 DEF PrunedByOther
  <1> QED
    BY <1>1, <1>2 DEF IndInv, TypeOK

LEMMA FinishedStep ==
  ASSUME IndInv, Next, NEW f \in Inputs, remote[f].sim \in {"pass", "fail"}
  PROVE  remote'[f].sim = remote[f].sim \/ retry.job = f \/ PrunedByOther(f)
  <1>1. ASSUME NEW r \in Runner, DiscardForRetry(r)
        PROVE  remote'[f].sim = remote[f].sim \/ retry.job = f
    BY <1>1 DEF DiscardForRetry, RetryReady, IndInv, TypeOK
  <1>2. ASSUME NEW r \in Runner, Upload(r) PROVE remote'[f].sim = remote[f].sim
    BY <1>2 DEF Upload, IndInv, TypeOK
  <1>3. ASSUME NEW r \in Runner, LaunchCompile(r)
        PROVE  remote'[f].sim = remote[f].sim \/ PrunedByOther(f)
    <2>1. PICK dirs \in Pruned(r) : remote' = [dirs EXCEPT ![job[r]].compile = "running"]
      BY <1>3 DEF LaunchCompile
    <2>2. dirs \in [Inputs -> WorkDir]
      BY PrunedFits DEF IndInv
    <2>3. remote'[f].sim = dirs[f].sim
      BY <2>1, <2>2 DEF WorkDir
    <2>4. pc[r] = "launch_compile"
      BY <1>3 DEF LaunchCompile
    <2> QED
      BY <2>3, <2>4, PruneKeepsUnacknowledged
  <1>4. ASSUME NEW r \in Runner, LaunchCompileFails(r)
        PROVE  remote'[f].sim = remote[f].sim \/ PrunedByOther(f)
    BY <1>4, PruneKeepsUnacknowledged DEF LaunchCompileFails
  <1>5. ASSUME NEW r \in Runner, LaunchSim(r) PROVE remote'[f].sim = remote[f].sim
    BY <1>5 DEF LaunchSim, IndInv, TypeOK, JobBound, Working, Progress, Fits, Gone
  <1>6. ASSUME NEW g \in Inputs,
               Remote(g) \/ RemoteJobLost(g) \/ Acknowledge(g) \/ ReplaceInputs(g)
        PROVE  remote'[f].sim = remote[f].sim
    BY <1>6 DEF Remote, RemoteCompileEnds, RemoteSimEnds, RemoteJobLost, Acknowledge,
       ReplaceInputs, IndInv, TypeOK, Killed
  <1>7. ASSUME NEW r \in Runner,
               \/ Acquire(r) \/ CheckPending(r) \/ Plan(r) \/ Seal(r) \/ Announce(r)
               \/ ProbeCompile(r) \/ ProbeSim(r) \/ WaitCompile(r) \/ WaitSim(r)
               \/ Release(r) \/ Finalize(r) \/ Refuse(r) \/ RefusePlan(r)
               \/ Indeterminate(r) \/ UploadFails(r) \/ LaunchSimFails(r)
               \/ BudgetExhausted(r) \/ Crash(r) \/ Analyze(r)
        PROVE  remote' = remote
    BY <1>7 DEF Acquire, CheckPending, Plan, Seal, Announce, ProbeCompile, ProbeSim,
       WaitCompile, WaitSim, Release, Finalize, Refuse, RefusePlan, Indeterminate,
       UploadFails, LaunchSimFails, BudgetExhausted, Crash, Analyze
  <1> QED
    BY <1>1, <1>2, <1>3, <1>4, <1>5, <1>6, <1>7 DEF Next, Step, Trouble

\* The result of a finished simulation is kept, whatever runners and the host do, until
\* a retry request names its inputs (cleanup_retryable_remote_job) or, once it is
\* acknowledged, the compile of other inputs prunes it (remote_stage_prune_command).
THEOREM SpecFinishedJobsKept == Spec => FinishedJobsKept
  <1>1. IndInv /\ [Next]_vars =>
           [\A f \in Inputs :
               remote[f].sim \in {"pass", "fail"} =>
                  \/ remote'[f].sim = remote[f].sim
                  \/ retry.job = f
                  \/ /\ remote[f].receipt
                     /\ \E r \in Runner : pc[r] = "launch_compile" /\ job[r] # f]_vars
    BY FinishedStep DEF vars, PrunedByOther
  <1> QED
    BY <1>1, SpecIndInv, PTL DEF Spec, FinishedJobsKept


-----------------------------------------------------------------------------
(* One runner whose budget does not end and that is not refused: what is   *)
(* live is pending.                                                        *)

Unfinished == {"pending", "collection"}

\* The steps of a runner that has announced its job.
Announced == {"recover", "upload", "launch_compile", "wait_compile", "probe_sim",
              "launch_sim", "wait_sim"}

\* The report names no live job as done, whichever contract is sealed.
ReportFits == report.job # NoJob /\ Live(report.job) => report.verdict \in Unfinished

\* A retry request is for the report as it is, which is of a failure.
RetryFits == retry.fresh => report.verdict \notin Unfinished

\* At work a runner has announced its job; what it is about to report is true.
RunnerFits(r) ==
    /\ pc[r] \in Announced => report.job = job[r] /\ report.verdict \in Unfinished
    /\ pc[r] \in {"release", "finalize"} /\ job[r] # NoJob /\ Live(job[r])
          => verdict[r] \in Unfinished

ReportInv == ReportFits /\ RetryFits /\ \A r \in Runner : RunnerFits(r)

\* One runner at a time, which the lease cannot enforce for the report that is written
\* after its release.
SoleRunner == \A q, r \in Runner : q = r

NeverGivesUp == Events \cap {"timeout", "refuse"} = {}

\* At the end of a run the job is live only if the verdict says so.
LEMMA ResultIsTrue ==
  ASSUME IndInv, ReportInv, NEW r \in Runner, job[r] \in Inputs, pc[r] \in Announced,
         NEW v, Result(r, v), SoleRunner,
         Live(job[r]) => v \in Unfinished,
         remote' \in {remote} \cup Pruned(r), report' = report, retry' = retry
  PROVE  ReportInv'
  <1>1. /\ pc'[r] = "release" /\ verdict'[r] = v /\ job' = job
    BY DEF Result, IndInv, TypeOK
  <1>2. \A f \in Inputs : Live(f)' => Live(f)
    BY PrunedFits DEF Live, IndInv, AfterCleanup, Absent, Killed
  <1>3. RunnerFits(r)'
    BY <1>1, <1>2 DEF RunnerFits, Announced
  <1>4. report.job \in Inputs \cup {NoJob}
    BY DEF IndInv, TypeOK
  <1> QED
    BY <1>2, <1>3, <1>4 DEF ReportInv, ReportFits, RetryFits, SoleRunner

\* The runner goes on while what is on disk stays.
LEMMA GoesOn ==
  ASSUME IndInv, ReportInv, NEW r \in Runner, SoleRunner,
         pc'[r] \in Announced => pc[r] \in Announced,
         pc'[r] \in {"release", "finalize"} => pc[r] = "release" /\ verdict' = verdict,
         job' = job, report' = report, retry' = retry,
         \A f \in Inputs : Live(f)' => Live(f) \/ (f = job[r] /\ pc[r] \in Announced)
  PROVE  ReportInv'
  <1>1. report.job \in Inputs \cup {NoJob} /\ job[r] \in Inputs \cup {NoJob}
    BY DEF IndInv, TypeOK
  <1>2. RunnerFits(r)'
    BY <1>1 DEF ReportInv, RunnerFits, Announced
  <1>3. ReportFits'
    BY <1>1 DEF ReportInv, ReportFits, RunnerFits
  <1> QED
    BY <1>2, <1>3 DEF ReportInv, RetryFits, SoleRunner

LEMMA ReportRecover ==
  ASSUME IndInv, ReportInv, SoleRunner, NEW r \in Runner,
         DiscardForRetry(r) \/ ProbeCompile(r) \/ ProbeSim(r)
  PROVE  ReportInv'
  <1>0. /\ pc[r] \in {"recover", "probe_sim"}
        /\ pc[r] \in Announced /\ job[r] \in Inputs
        /\ mode[r] \in {"attach", "regular", "fresh"}
        /\ remote[job[r]] \in WorkDir
    BY DEF DiscardForRetry, ProbeCompile, ProbeSim, Announced, IndInv, TypeOK, JobBound,
       Working, WorkDir
  <1>1. ~DiscardForRetry(r)
    BY <1>0 DEF DiscardForRetry, RetryReady, ReportInv, RetryFits, RunnerFits
  <1>2. remote' = remote /\ report' = report /\ retry' = retry
    BY <1>1 DEF ProbeCompile, ProbeSim, files
  <1>3. \A f \in Inputs : Live(f)' => Live(f)
    BY <1>2 DEF Live
  <1>4. CASE ProbeCompile(r) /\ NotFound(r)
    BY <1>0, <1>2, <1>3, <1>4, GoesOn DEF NotFound, IndInv, TypeOK, Announced
  <1>5. CASE \E p \in {"probe_sim", "wait_compile", "wait_sim", "launch_sim"} :
                Goto(r, p) /\ UNCHANGED <<job, mode, verdict>>
    BY <1>0, <1>2, <1>3, <1>5, GoesOn DEF Goto, IndInv, TypeOK, Announced
  <1>6. CASE Result(r, "compile_failed") /\ remote[job[r]].compile = "fail"
    <2>1. ~Live(job[r])
      BY <1>0, <1>6 DEF Live, IndInv, Staged
    <2> QED
      BY <1>0, <1>2, <1>6, <2>1, ResultIsTrue
  <1>7. CASE Result(r, "job_lost") /\ remote[job[r]].sim = "lost"
    <2>1. ~Live(job[r])
      BY <1>0, <1>7 DEF Live, IndInv, Staged
    <2> QED
      BY <1>0, <1>2, <1>7, <2>1, ResultIsTrue
  <1> QED
    BY <1>1, <1>4, <1>5, <1>6, <1>7 DEF ProbeCompile, ProbeSim

LEMMA ReportWait ==
  ASSUME IndInv, ReportInv, SoleRunner, NEW r \in Runner, WaitCompile(r) \/ WaitSim(r)
  PROVE  ReportInv'
  <1>0. /\ pc[r] \in Announced /\ job[r] \in Inputs
        /\ remote[job[r]] \in WorkDir
    BY DEF WaitCompile, WaitSim, Announced, IndInv, TypeOK, JobBound, Working, WorkDir
  <1>1. remote' = remote /\ report' = report /\ retry' = retry
    BY DEF WaitCompile, WaitSim, files
  <1>2. \A f \in Inputs : Live(f)' => Live(f)
    BY <1>1 DEF Live
  <1>3. CASE WaitCompile(r) /\ ~Result(r, "compile_failed")
    <2>1. /\ pc'[r] \in {"launch_sim", "probe_sim"}
          /\ job' = job
      BY <1>3 DEF WaitCompile, Goto, IndInv, TypeOK
    <2> QED
      BY <1>0, <1>1, <1>2, <2>1, GoesOn DEF Announced
  <1>4. CASE WaitCompile(r) /\ Result(r, "compile_failed")
    <2>1. remote[job[r]].compile \in {"fail", "lost", "missing"}
      BY <1>4 DEF WaitCompile, Goto, Result, IndInv, TypeOK
    <2>2. ~Live(job[r])
      BY <1>0, <2>1 DEF Live, IndInv, Staged
    <2> QED
      BY <1>0, <1>1, <1>4, <2>2, ResultIsTrue
  <1>5. ASSUME WaitSim(r)
        PROVE  ReportInv'
    <2>1. /\ remote[job[r]].compile = "pass"
          /\ remote[job[r]].sim \in {"pass", "fail"} \cup Gone
      BY <1>0, <1>5 DEF WaitSim, IndInv, Progress, Fits
    <2>2. ~Live(job[r])
      BY <2>1 DEF Live, Gone
    <2>3. PICK v \in {"collection", "finished", "transport"} : Result(r, v)
      BY <1>5 DEF WaitSim
    <2> QED
      BY <1>0, <1>1, <2>2, <2>3, ResultIsTrue
  <1> QED
    BY <1>3, <1>4, <1>5

LEMMA ReportLaunch ==
  ASSUME IndInv, ReportInv, SoleRunner, NEW r \in Runner,
         Upload(r) \/ LaunchCompile(r) \/ LaunchSim(r)
  PROVE  ReportInv'
  <1>0. pc[r] \in Announced /\ job[r] \in Inputs
    BY DEF Upload, LaunchCompile, LaunchSim, Announced, IndInv, JobBound, Working
  <1>1. /\ pc'[r] \in {"launch_compile", "wait_compile", "wait_sim"}
        /\ job' = job /\ report' = report /\ retry' = retry
    BY DEF Upload, LaunchCompile, LaunchSim, Goto, files, IndInv, TypeOK
  <1>2. \A f \in Inputs \ {job[r]} : Live(f)' => Live(f)
    <2>1. CASE Upload(r) \/ LaunchSim(r)
      BY <1>0, <2>1 DEF Upload, LaunchSim, Live, IndInv, TypeOK
    <2>2. CASE LaunchCompile(r)
      <3>1. PICK dirs \in Pruned(r) : remote' = [dirs EXCEPT ![job[r]].compile = "running"]
        BY <2>2 DEF LaunchCompile
      <3>2. /\ dirs \in [Inputs -> WorkDir]
            /\ \A f \in Inputs : AfterCleanup(remote[f], dirs[f])
        BY PrunedFits DEF IndInv
      <3>3. \A f \in Inputs \ {job[r]} : remote'[f] = dirs[f]
        BY <3>1, <3>2
      <3> QED
        BY <3>2, <3>3 DEF Live, AfterCleanup, Absent, Killed
    <2> QED
      BY <2>1, <2>2
  <1> QED
    BY <1>0, <1>1, <1>2, GoesOn DEF Announced

LEMMA ReportTrouble ==
  ASSUME IndInv, ReportInv, SoleRunner, NeverGivesUp, NEW r \in Runner, Trouble(r)
  PROVE  ReportInv'
  <1>1. ~(Refuse(r) \/ RefusePlan(r) \/ Indeterminate(r) \/ BudgetExhausted(r))
    BY DEF NeverGivesUp, Refuse, RefusePlan, Indeterminate, BudgetExhausted, Event
  <1>2. CASE UploadFails(r) \/ LaunchCompileFails(r) \/ LaunchSimFails(r)
    <2>1. /\ pc[r] \in {"upload", "launch_compile", "launch_sim"}
          /\ report' = report /\ retry' = retry
          /\ remote' \in {remote} \cup Pruned(r)
      BY <1>2 DEF UploadFails, LaunchCompileFails, LaunchSimFails, files
    <2>2. job[r] \in Inputs /\ pc[r] \in Announced
      BY <2>1 DEF IndInv, JobBound, Working, Announced
    <2>3. ~Live(job[r])
      BY <2>1, <2>2 DEF Live, IndInv, Progress, Fits, Gone
    <2>4. PICK v \in {"unprepared", "compile_failed", "transport"} : Result(r, v)
      BY <1>2 DEF UploadFails, LaunchCompileFails, LaunchSimFails
    <2> QED
      BY <2>1, <2>2, <2>3, <2>4, ResultIsTrue
  <1>3. CASE Crash(r)
    <2>1. /\ pc'[r] = "idle" /\ report' = report /\ retry' = retry /\ remote' = remote
      BY <1>3 DEF Crash, files, IndInv, TypeOK
    <2> QED
      BY <2>1 DEF ReportInv, ReportFits, RetryFits, RunnerFits, SoleRunner, Live, Announced
  <1> QED
    BY <1>1, <1>2, <1>3 DEF Trouble

\* The steps that read or write the files of the run directory.
LEMMA ReportFiles ==
  ASSUME IndInv, ReportInv, SoleRunner, NEW r \in Runner,
         \/ Acquire(r) \/ CheckPending(r) \/ Plan(r) \/ Seal(r) \/ Announce(r)
         \/ Release(r) \/ Finalize(r) \/ Analyze(r)
  PROVE  ReportInv'
  <1>0. /\ remote' = remote
        /\ job[r] \in Inputs \cup {NoJob} /\ report.job \in Inputs \cup {NoJob}
        /\ \A f : Live(f)' <=> Live(f)
    BY DEF Acquire, CheckPending, Plan, Seal, Announce, Release, Finalize, Analyze, IndInv,
       TypeOK, Live
  <1>1. CASE Acquire(r) \/ Plan(r) \/ Seal(r)
    <2>1. /\ pc'[r] \in {"check", "seal", "announce"}
          /\ report' = report /\ retry' = retry
      BY <1>1 DEF Acquire, Plan, Seal, Goto, files, IndInv, TypeOK
    <2> QED
      BY <1>0, <2>1 DEF ReportInv, ReportFits, RetryFits, RunnerFits, SoleRunner, Announced
  <1>2. CASE CheckPending(r)
    <2>1. CASE Pending
      <3>1. /\ pc'[r] = "recover" /\ job'[r] = contract
            /\ \/ report' = report /\ retry' = retry /\ report.job = contract
                  /\ report.verdict = "collection"
               \/ WriteReport(contract, "pending")
        BY <1>2, <2>1 DEF CheckPending, Goto, IndInv, TypeOK
      <3>2. report'.job = contract /\ report'.verdict \in Unfinished
        BY <3>1 DEF WriteReport, Unfinished
      <3>3. RetryFits'
        BY <3>1 DEF ReportInv, RetryFits, WriteReport, IndInv, TypeOK
      <3> QED
        BY <3>1, <3>2, <3>3 DEF ReportInv, ReportFits, RunnerFits, SoleRunner
    <2>2. CASE ~Pending
      <3>1. pc'[r] = "plan" /\ report' = report /\ retry' = retry
        BY <1>2, <2>2 DEF CheckPending, Goto, IndInv, TypeOK
      <3> QED
        BY <1>0, <3>1 DEF ReportInv, ReportFits, RetryFits, RunnerFits, SoleRunner, Announced
    <2> QED
      BY <2>1, <2>2
  <1>3. CASE Announce(r)
    <2>1. /\ pc'[r] = "recover" /\ job' = job
          /\ report' = [job |-> job[r], verdict |-> "pending"]
          /\ ~retry'.fresh
      BY <1>3 DEF Announce, Goto, WriteReport, IndInv, TypeOK
    <2> QED
      BY <2>1 DEF ReportInv, ReportFits, RetryFits, RunnerFits, SoleRunner, Unfinished
  <1>4. CASE Release(r)
    <2>1. /\ pc[r] = "release" /\ pc'[r] = "finalize" /\ job' = job /\ verdict' = verdict
          /\ report' = report /\ retry' = retry
      BY <1>4 DEF Release, Goto, files, IndInv, TypeOK
    <2> QED
      BY <1>0, <2>1, GoesOn DEF Announced
  <1>5. CASE Finalize(r)
    <2>1. /\ pc[r] = "finalize" /\ pc'[r] = "idle"
          /\ report' = [job |-> job[r], verdict |-> verdict[r]]
          /\ ~retry'.fresh
      BY <1>5 DEF Finalize, WriteReport, IndInv, TypeOK
    <2> QED
      BY <1>0, <2>1 DEF ReportInv, ReportFits, RetryFits, RunnerFits, SoleRunner, Announced
  <1>6. CASE Analyze(r)
    <2>1. /\ report' = report /\ pc' = pc /\ job' = job /\ verdict' = verdict
          /\ retry'.fresh => report.verdict \notin Unfinished
      BY <1>6 DEF Analyze, locals, Unfinished
    <2> QED
      BY <1>0, <2>1 DEF ReportInv, ReportFits, RetryFits, RunnerFits
  <1> QED
    BY <1>1, <1>2, <1>3, <1>4, <1>5, <1>6

\* Jobs end, are lost, or their inputs are replaced.
LEMMA ReportEnvironment ==
  ASSUME IndInv, ReportInv, NEW f \in Inputs,
         Remote(f) \/ RemoteJobLost(f) \/ Acknowledge(f) \/ ReplaceInputs(f)
  PROVE  ReportInv'
  <1>1. report' = report /\ retry' = retry /\ pc' = pc /\ job' = job /\ verdict' = verdict
    BY DEF Remote, RemoteCompileEnds, RemoteSimEnds, RemoteJobLost, Acknowledge, ReplaceInputs,
       files, locals
  <1>2. \A g \in Inputs : Live(g)' => Live(g)
    BY DEF Remote, RemoteCompileEnds, RemoteSimEnds, RemoteJobLost, Acknowledge, ReplaceInputs, Live,
       Killed, IndInv, TypeOK
  <1>3. /\ report.job \in Inputs \cup {NoJob}
        /\ \A r \in Runner : job[r] \in Inputs \cup {NoJob}
    BY DEF IndInv, TypeOK
  <1> QED
    BY <1>1, <1>2, <1>3 DEF ReportInv, ReportFits, RetryFits, RunnerFits

\* While the job of the sealed contract is live it is pending: with one runner at a
\* time, whatever is killed, lost, replaced, retried or refused by ssh
\* (pending_exact_board_job, write_pending_exact_board_job_report).  Not for a runner
\* whose budget ends or that is refused, and not for two, see the README.
THEOREM SpecLiveJobIsPending ==
  ASSUME SoleRunner, NeverGivesUp
  PROVE  Spec => []LiveJobIsPending
  <1>1. Init => ReportInv
    BY DEF Init, ReportInv, ReportFits, RetryFits, RunnerFits, Announced
  <1>2. IndInv /\ ReportInv /\ [Next]_vars => ReportInv'
    <2> SUFFICES ASSUME IndInv, ReportInv, [Next]_vars
                 PROVE  ReportInv'
      OBVIOUS
    <2>1. ASSUME NEW r \in Runner, Acquire(r) \/ Step(r) \/ Trouble(r) \/ Analyze(r)
          PROVE  ReportInv'
      BY <2>1, ReportFiles, ReportRecover, ReportLaunch, ReportWait, ReportTrouble DEF Step
    <2>2. CASE UNCHANGED vars
      BY <2>2 DEF vars, files, locals, ReportInv, ReportFits, RetryFits, RunnerFits, Live
    <2> QED
      BY <2>1, <2>2, ReportEnvironment DEF Next
  <1>3. IndInv /\ ReportInv => LiveJobIsPending
    BY BoardAssumption DEF IndInv, TypeOK, ReportInv, ReportFits, LiveJobIsPending, Pending,
       Unfinished
  <1> QED
    BY <1>1, <1>2, <1>3, SpecIndInv, PTL DEF Spec
=============================================================================
