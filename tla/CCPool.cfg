SPECIFICATION PoolFairSpec
CONSTANTS
    Requests = {"r1", "r2"}
    Conns = {"c1", "c2", "c3"}
    None = None
CHECK_DEADLOCK FALSE
INVARIANTS
    NoLeak
PROPERTIES
    DialsArePaced
    DialReturns
