SPECIFICATION EngineSpec
CONSTANTS
    c1 = c1
    c2 = c2
    s1 = s1
    s2 = s2
    s3 = s3
    e1 = e1
    e2 = e2
    h1 = h1
    h2 = h2
    h3 = h3
    Callers <- MCSessions
    Sockets <- MCSockets
    Endpoints <- MCEndpoints
    Hosts <- MCHosts
    ReverseMap <- MCReverseMap
    Blocked <- MCBlocked
    NoHost = NoHost
    NoSocket = NoSocket
    MaxCache = 1
    MaxIdle = 0
    MaxTime = 1
SYMMETRY MCSymmetry
CHECK_DEADLOCK FALSE
INVARIANTS
    EngineTypeOK
    OneSessionPerConnection
    RoutedAsAsked
    DoneHoldsNothing
