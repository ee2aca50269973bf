SPECIFICATION Spec
CONSTANTS
    Kinds = {"rate_limit", "retry", "circuit_breaker", "timeout"}
    Requests = {"r1", "r2"}
    Vals = {1, 2}
    ServiceVals = {None}
    None = None
    Interval = 1
CHECK_DEADLOCK FALSE
INVARIANTS
    FreshAfterInterval
PROPERTIES
    MechanismKept
