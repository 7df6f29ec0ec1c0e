SPECIFICATION Spec
CONSTANTS
    Names <- MCNames
    Values <- MCValues
    Lower <- MCLower
    Spell <- MCSpell
    Means <- MCMeans
    Odd <- MCOdd
    LowerToken <- MCLowerToken
    Addresses = {"10.0.0.1", "10.0.0.2"}
    Messages <- MCMessages
    Paths <- MCPaths
    Coming <- MCComing
    PeekSizes = {3, 4, 8}
    Configurations <- MCConfigurations
    Banned <- MCBanned
    BannedEndpoints = {"10.0.0.2"}
INVARIANTS
    TypeOK
    RequestKept
    RightDestination
PROPERTIES
    BlocksTheListed
CHECK_DEADLOCK FALSE
