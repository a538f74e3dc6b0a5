CONSTANTS
    Requests = {d1, u1, 1, 2, runner}
    Downloads = {d1}
    Uploads = {u1}
    MaxChunks = 2
    Agents = {a1, a2}
    Fanout = 2
    ScriptLines = 2
    Runner = runner
    Names = {n1}
    Calls = {c1, c2, c3}
    Operations = {"save", "delete", "run"}
    Torn = Torn
    None = None
    Endpoints = {e1, e2}
    Tokens = {t1, t2}
    NoToken = NoToken
    Columns = 4
    MaxSaves = 3
    Versions = {v1, v2, v3}
    Absent = Absent
    keepBackups = 2
    MaxStarts = 4
    maxSize = 2
    MaxEvents = 6
    MaxCrashes = 2
    capacity = 2
    MaxEntries = 4
    MaxSwitches = 4
    MaxName = 5
    listDirPageSize = 2
    maxListedEntries = 4
    MaxDirChanges = 2
    MaxOutputSize = 2
    ExitCodes <- SomeExitCodes
    Announcers = {g1, g2}
    Restored = {g1}
    Scans = {s1, s2}
    entriesCap = 1
    Nil = Nil

SPECIFICATION ServicesSpec

INVARIANTS
    TransfersDrained
    BatchesAccounted
    SerialScriptsAgree
    TokensSurvive
    RollbackPossible
    TrailIsSuffix
    RecentIsTail
    ListingFaithful
    CodeIsHonest
    MetOnce

PROPERTIES
    ShutdownCompletes
    ExecuteReturns

CHECK_DEADLOCK FALSE
