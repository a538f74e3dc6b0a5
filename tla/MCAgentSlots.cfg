CONSTANTS
    a1 = a1
    Conns = {c1, c2, c3}
    RemoteIP <- OneAddress
    TokenSet = FALSE
    MaxClients = 1
    MaxAuthAttempts = 1
    QueueCap = 1
    MaxFrames = 0
    IPs = {a1}
    MaxActive = 2
    MaxFailures = 2
    Window = 1
    Block = 1
    PruneAt = 1
    Horizon = 1

SPECIFICATION Spec

INVARIANTS
    TypeOK
    SlotAccounting

PROPERTY GuardContract

CHECK_DEADLOCK FALSE
SYMMETRY Symmetry
