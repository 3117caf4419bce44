\* Requests of two kinds and two stages; a record keeps one item of its list, so that two
\* of the three lists are stored alike.
SPECIFICATION Spec
CONSTANTS
    a1 = a1
    a2 = a2
    c1 = c1
    c2 = c2
    t1 = t1
    t2 = t2
    Transition = {t1}
    Artifact = {a1, a2}
    Constraint = {}
    Checker = {}
    Stage = {s1, s2}
    Reason = {r1}
    Context = {x1}
    Unscoped = x1
    StoredLimit = 1
    MaxRequests = 4
    NoTransition = NoTransition
    ScopeLists <- NoScopes
    ItemLists <- MCItemLists
INVARIANTS
    OneOpenRequestPerWholeKey
PROPERTIES
    DeduplicationRestoresUniqueness
    ObligationsNotLost
CHECK_DEADLOCK FALSE
