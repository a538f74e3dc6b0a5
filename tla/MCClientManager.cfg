CONSTANTS
    host = host
    Agents = {p1}
    Endpoint <- SameEndpoint
    MaxRetries = 2
    MaxGen = 3

SPECIFICATION FairSpec

INVARIANTS
    TypeOK
    StoppedStaysDown
    ReadingMeansConnected
    ConnectedHasReader
    OneReader

PROPERTIES
    StoppedGetsQuiet
    CloseAllGetsQuiet

CHECK_DEADLOCK FALSE
