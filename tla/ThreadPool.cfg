SPECIFICATION FairSpec

CONSTANTS
    Producers = {p1, p2}
    Workers = {w1, w2}
    MaxRequests = 1
    UnlockLocks = FALSE
    Nulls = {2}
    MaxAppends = 4
    MayDestroy = TRUE
    CreateMayFail = TRUE

INVARIANTS
    ChecksHold
    SemaphoreCounts
    HandedOnce

PROPERTIES
    AllProcessed

CHECK_DEADLOCK FALSE
