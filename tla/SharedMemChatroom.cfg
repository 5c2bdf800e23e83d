SPECIFICATION MCFairSpec

CONSTANTS
    Procs = {p1, p2}
    USER_LIMIT = 2
    PipeCap = 1
    SigCap = 3
    Bounds <- MCBounds
    MaxConns = 3
    MaxSaid = 1
    MaxTerms = 1
    MaxForkFails = 1
    MaxActs = 3

INVARIANTS
    TableExact
    PipesOwned

PROPERTIES
    DeathNoticed
    NoStraggler
    QuietLeaverCollected

CHECK_DEADLOCK FALSE
