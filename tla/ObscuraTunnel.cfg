SPECIFICATION FairSpec
CONSTANT MaxSent = 2
INVARIANTS
    TypeOK
    InOrder
    NothingReadIsDropped
    FirstErrorReported
PROPERTY BothEndsConverge
CHECK_DEADLOCK FALSE
