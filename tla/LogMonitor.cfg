SPECIFICATION Spec
CONSTANTS
    w1 = w1
    w2 = w2
    w3 = w3
    w4 = w4
    Writers <- MCWriters
    NoEntry = NoEntry
    MaxFileSize = 1
    MaxArchives = 2
    MaxTime = 2
    Faults <- MCAllFaults
SYMMETRY MCSymmetry
CHECK_DEADLOCK FALSE
INVARIANTS
    TypeOK
    SerialCallsAreSafe
    ReportedIsKept
    WrittenOnce
    SizeNotUnderestimated
    ArchivesBounded
PROPERTY OldestDeletedFirst
