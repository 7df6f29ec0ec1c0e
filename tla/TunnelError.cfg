SPECIFICATION DrainSpec
CONSTANTS
    BufSize = 1
    MaxSent = 1
PROPERTY ErrorConverges
CHECK_DEADLOCK FALSE
