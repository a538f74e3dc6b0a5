CONSTANTS
    a1 = a1
    Conns = {c1}
    RemoteIP <- OneAddress
    TokenSet = TRUE
    MaxClients = 1
    MaxAuthAttempts = 2
    QueueCap = 2
    MaxFrames = 3
    IPs = {a1}
    MaxActive = 2
    MaxFailures = 2
    Window = 1
    Block = 1
    PruneAt = 1
    Horizon = 2

SPECIFICATION FairSpec

INVARIANTS
    AnswersAccounted
    NothingBeforeAuth

PROPERTIES
    AuthenticatesOrCloses
    ClosedReturnsSlot

CHECK_DEADLOCK FALSE
