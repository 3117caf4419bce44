\* Successive verification runs of two scopes: four transitions, the verification
\* result and one certificate.
SPECIFICATION RunSpec
CONSTANTS
    result = result
    cert = cert
    x1 = x1
    x2 = x2
    Transition = {t1, t2, t3, t4}
    Artifact = {result, cert}
    Constraint = {k1}
    Checker = {c1}
    Stage = {verification, plan}
    Reason = {r1}
    Context = {x0, x1, x2}
    Unscoped = x0
    StoredLimit = 16
    MaxRequests = 4
    NoTransition = NoTransition
    ScopeLists <- MCScopeLists
    ItemLists <- MCItemLists
    ResultArtifact = result
    VerificationStage = verification
    PlanStage = plan
    RunReason = r1
    BlockedByResult <- MCResultList
    Blockers <- MCBlockers
SYMMETRY MCSymmetry
CHECK_DEADLOCK FALSE
INVARIANTS
    SettledBetweenRuns
    FailureIsRecorded
    PassRetiresItsScope
