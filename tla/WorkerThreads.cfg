SPECIFICATION Spec
CONSTANTS
    Threads <- MCTwoThreads
    t1 = t1
    t2 = t2
    s1 = s1
    s2 = s2
    s3 = s3
    s4 = s4
    Sockets <- MCSockets
    NoSocket = NoSocket
    MaxCache = 2
CHECK_DEADLOCK FALSE
INVARIANT OneOwner
