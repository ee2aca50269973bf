SPECIFICATION FairSpec
CONSTANTS
    RetryTimes = 5
    Inclusive = FALSE
    Serial = TRUE
    HasTimeout = FALSE
    HasLimit = FALSE
    Cancelers = {}
CHECK_DEADLOCK FALSE
INVARIANTS
    ResultXorErr
PROPERTIES
    InvokeReturns
    AllGoroutinesExit
