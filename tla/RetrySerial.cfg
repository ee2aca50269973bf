SPECIFICATION Spec
CONSTANTS
    RetryTimes = 1
    Inclusive = TRUE
    Serial = TRUE
    HasTimeout = TRUE
    HasLimit = TRUE
    Cancelers = {c1}
CHECK_DEADLOCK FALSE
INVARIANTS
    AttemptsBounded
    SerialExclusion
    OrphanIsolated
    OutcomeOnReturn
