SPECIFICATION FairSpec

CONSTANTS
    Producers = {p1}
    Workers = {w1, w2}
    MaxRequests = 1
    UnlockLocks = TRUE
    Nulls = {}
    MaxAppends = 2
    MayDestroy = FALSE
    CreateMayFail = FALSE

PROPERTIES
    LockReleased

CHECK_DEADLOCK FALSE
