CONSTANTS
    c1 = c1
    a1 = a1
    Conns = {c1}
    RemoteIP <- OneAddress
    TokenSet = TRUE
    SocketCap = 2
    MaxClients = 1
    MaxAuthAttempts = 1
    QueueCap = 2
    MaxFrames = 2
    IPs = {a1}
    MaxActive = 1
    MaxFailures = 2
    Window = 1
    Block = 1
    PruneAt = 1
    Horizon = 1

SPECIFICATION HandshakeSpec

INVARIANTS
    EstablishedMeansAuthed
    RejectedMeansWrongToken

CHECK_DEADLOCK FALSE
