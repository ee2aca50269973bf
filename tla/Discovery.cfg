SPECIFICATION FairSpec
CONSTANTS
    a1 = a1
    a2 = a2
    r1 = r1
    r2 = r2
    None = None
    Addrs = {a1, a2}
    Metas = {m1}
    Registrars = {r1, r2}
    Ownerships <- OneOwnerEach
    DownRetries = 2
    MaxOps = 2
    MaxDowns = 1
    Failing = {a1}
CHECK_DEADLOCK FALSE
INVARIANTS
    AgreesOutsideStartup
PROPERTIES
    MatcherConverges
    GivenUpComesBack
