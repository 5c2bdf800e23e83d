SPECIFICATION FairSpec

CONSTANTS
    ProcessNumber = 2
    PipeCap = 2
    SigCap = 3
    Backlog = 2
    MaxConns = 3
    MaxTerms = 1
    MaxCrashes = 2
    AcceptMayFail = FALSE

INVARIANTS
    TableAgrees
    EdgesMatch
    NotificationBacked
    RoundRobin

PROPERTIES
    DeathNoticed
    ShutdownCompletes
    AcceptProgress

CHECK_DEADLOCK FALSE
