SPECIFICATION Spec

CONSTANTS
    Descriptors = {7, 8}
    TIMESLOT = 1
    SigCap = 2
    DeletesAdded = {TRUE, FALSE}
    AcceptMayFail = TRUE
    Bounds <- MCBounds
    MaxConns = 2
    MaxSaid = 2
    MaxLeaves = 2
    MaxTerms = 2
    MaxActs = 5

INVARIANTS
    AlarmAlive

PROPERTIES
    ActiveKept
    NothingLingers

CHECK_DEADLOCK FALSE
