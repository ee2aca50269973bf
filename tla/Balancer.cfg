SPECIFICATION BalancerFairSpec
CONSTANTS
    Endpoints = {a1, a2}
    Announcers = {n1, n2}
    Getters = {g1}
    MaxFlaps = 2
CHECK_DEADLOCK FALSE
INVARIANTS
    NotifyIsCurrent
PROPERTIES
    NoNotifyAfterClose
    CloseReturns
