CONSTANT Requests = {r1, r2, r3}

SPECIFICATION FairSpec

INVARIANTS
    TableIsExact
    ForwardedIsLate

PROPERTY ImplementsRequester

CHECK_DEADLOCK FALSE
