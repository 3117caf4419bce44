\* Promotion, rejection and barriers: two transitions that may bind the same
\* artifact, no requests.
SPECIFICATION Spec
CONSTANTS
    a1 = a1
    a2 = a2
    c1 = c1
    c2 = c2
    t1 = t1
    t2 = t2
    Transition = {t1, t2}
    Artifact = {a1}
    Constraint = {k1}
    Checker = {c1}
    Stage = {s1}
    Reason = {r1}
    Context = {x1}
    Unscoped = x1
    StoredLimit = 16
    MaxRequests = 0
    NoTransition = NoTransition
    ScopeLists <- AllScopeLists
    ItemLists <- NoItemLists
SYMMETRY MCSymmetry
INVARIANTS
    PromotionGate
    NoContaminatedValidation
    ValidatedOnEvidence
    OneActiveBarrierPerKey
PROPERTIES
    BarrierLiftedOnlyByValidation
CHECK_DEADLOCK FALSE
