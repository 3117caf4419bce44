\* Two runners of one run directory, crashes, lost jobs, replaced inputs, failing
\* remote commands and exhausted budgets.
SPECIFICATION Spec
CONSTANTS
    Runner = {r1, r2}
    Inputs = {f1, f2}
    Capturing = {f1}
    NoJob = NoJob
    NoRunner = NoRunner
    Events = {"crash", "loss", "replace", "ssh", "timeout", "refuse", "retry", "acknowledge"}
    MaxEvents = 4
SYMMETRY MCSymmetry
CHECK_DEADLOCK FALSE
INVARIANTS
PROPERTIES
    LaunchReplacesNothing
    FinishedJobsKept
    CompileKillsNoJobOfItsInputs
