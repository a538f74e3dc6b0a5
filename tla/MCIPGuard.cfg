CONSTANTS
    IPs = {a1, a2}
    MaxActive = 1
    MaxFailures = 3
    Window = 2
    Block = 2
    PruneAt = 2
    Horizon = 6

SPECIFICATION HistorySpec

INVARIANTS
    RecordsConsistent
    ToleratedFailures

PROPERTY BlockStands

