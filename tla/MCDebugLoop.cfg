SPECIFICATION FairSpec
CONSTANTS
    LastScope = 2
    f1 = f1
    Frontier = {f1}
    NoEvidence = NoEvidence
    Plans <- MCPlans
    Remote = TRUE
    MaxIters = 1
    Events <- MCEvents
    MaxEvents = 2
    MaxDecisions = 1
INVARIANTS
    ReusedIsTrusted
    WaitedOnce
    HandoffOnce
PROPERTIES
    CallReturns
CHECK_DEADLOCK FALSE
