\* The default: what passed is reused, whatever is killed, edited, revalidated or dies.
SPECIFICATION Spec
CONSTANTS
    LastStage = 4
    Bootstrap = 1
    DebugLoop = 3
    Recording = {1, 2, 3, 4}
    Closing = {1, 2, 3}
    FailAsks <- MCFailAsks
    PassAsks <- MCPassAsks
    Alias <- MCAlias
    PlanContract = PlanContract
    NoStage = NoStage
    Resume = TRUE
    Events = {"crash", "controller", "task", "command", "revalidate"}
    MaxWrites = 9
    MaxEvents = 2
CHECK_DEADLOCK FALSE
INVARIANTS
    FreshUnlessMisled
PROPERTIES
    ReuseIsOfAPass
