\* Two processes, two agents and one request at a time, with failing attempts and a kill.
SPECIFICATION FairSpec
CONSTANTS
    p1 = p1
    p2 = p2
    a1 = a1
    a2 = a2
    Process = {p1, p2}
    Agent = {a1, a2}
    NoProcess = NoProcess
    MaxInflight = 1
    Timeout = 1
    Hold = 1
    Floor = 0
    TotalTimeout = TRUE
    MaxCalls = 3
    MaxFaults = 2
    MaxKills = 1
CHECK_DEADLOCK FALSE
INVARIANTS
    RequestsBounded
    OpenTransactionIsAtWork
PROPERTY
    CallEnds
