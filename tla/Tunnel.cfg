SPECIFICATION FairSpec
CONSTANTS
    BufSize = 2
    MaxSent = 3
INVARIANTS
    TypeOK
    Integrity
    EofMeansAll
    AtMostOneChunk
PROPERTIES
    GracefulEndConverges
    PeerEndConverges
CHECK_DEADLOCK FALSE
