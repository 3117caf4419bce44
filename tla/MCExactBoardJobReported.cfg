\* One runner at a time, started again whenever it ends, that may die at any step; lost
\* jobs, replaced inputs and failing remote commands, but no wall-clock budget: what is
\* live is pending and what finished is reported.
SPECIFICATION FairSpec
CONSTANTS
    Runner = {r1}
    Inputs = {f1, f2}
    Capturing = {f1}
    NoJob = NoJob
    NoRunner = NoRunner
    Events = {"crash", "loss", "replace", "ssh", "acknowledge"}
    MaxEvents = 5
CHECK_DEADLOCK FALSE
INVARIANT
    LiveJobIsPending
PROPERTY
    FinishedJobIsReported
