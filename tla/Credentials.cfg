SPECIFICATION Spec
CONSTANTS
    f1 = f1
    f2 = f2
    Fetchers = {f1, f2}
    Tasks = {t1, t2}
    Requests = {r1}
    IssuerFails = TRUE
    TimesOut = TRUE
    Setups <- MCSetups
    Trusted <- MCTrusted
    ServerCert <- MCServerCert
    ClientCert <- MCClientCert
    Target <- MCTarget
    Gateway <- MCGateway
INVARIANTS NoLostResult ReturnsUsable PeerIsVetted
PROPERTY FetchReturns
CHECK_DEADLOCK FALSE
