CONSTANTS
    Units = {0, 1}
    MaxLen = 3
    Contents <- BoundedContents
    ChunkSize = 2
    MaxChanges = 2
    Old = Old
    Absent = Absent

SPECIFICATION FairSpec

INVARIANTS
    CommittedIsSnapshot
    AllOrNothing

PROPERTY DownloadReturns

CHECK_DEADLOCK FALSE
