CONSTANTS
    t1 = t1
    t2 = t2
    Transfers = {t1, t2}
    Size <- Sizes
    MaxReadable = 2
    MaxLinks = 2
    Old = Old
    Absent = Absent

SPECIFICATION Spec

INVARIANTS
    TypeOK
    NoLeftovers

PROPERTY ImplementsAtomicFile

CHECK_DEADLOCK FALSE
