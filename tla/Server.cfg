SPECIFICATION Spec
CONSTANTS
    p1 = p1
    p2 = p2
    a = a
    b = b
    h = h
    n1 = n1
    n2 = n2
    n3 = n3
    Procs = {p1, p2}
    GrpcSvcs <- MCGrpcSvcs
    HttpSvcs <- MCHttpSvcs
    Names <- MCNames
    Configs <- MCConfigs
INVARIANTS AnnouncedIsBacked ServesWhenStarted ServesUnderAllNames
PROPERTY StartsOrExits
CHECK_DEADLOCK FALSE
