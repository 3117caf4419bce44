\* A flow that reuses nothing: every stage may fail or ask for a backtrack, the agent may
\* be killed and the task may change.
SPECIFICATION Spec
CONSTANTS
    LastStage = 4
    Bootstrap = 1
    DebugLoop = 3
    Recording = {1, 2, 3, 4}
    Closing = {1, 2, 3}
    FailAsks <- MCFailAsks
    PassAsks <- MCPassAsks
    Alias <- MCAlias
    PlanContract = PlanContract
    NoStage = NoStage
    Resume = FALSE
    Events = {"crash", "task", "controller"}
    MaxWrites = 10
    MaxEvents = 2
CHECK_DEADLOCK FALSE
INVARIANTS
    AskedHavePassed
    FreshUnlessMisled
PROPERTIES
    BacktrackIsHonoured
    FailedStageBlocksLater
