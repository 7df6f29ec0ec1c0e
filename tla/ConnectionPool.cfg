SPECIFICATION Spec
CONSTANTS
    c1 = c1
    c2 = c2
    c3 = c3
    s1 = s1
    s2 = s2
    s3 = s3
    e1 = e1
    e2 = e2
    Callers <- MCCallers
    Sockets <- MCSockets
    Endpoints <- MCEndpoints
    NoSocket = NoSocket
    MaxCache = 2
    MaxIdle = 1
    MaxTime = 3
SYMMETRY MCSymmetry
INVARIANTS
    TypeOK
    Ownership
    RightEndpoint
    CacheBounded
    StackByAge
    OnlyConnectedIsUsed
PROPERTIES
    NothingUsableLost
    ImplementsLoan
CHECK_DEADLOCK FALSE
