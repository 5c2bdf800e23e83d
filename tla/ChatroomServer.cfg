SPECIFICATION Spec

CONSTANTS
    USER_LIMIT = 3
    Descriptors = {5, 6, 7, 8}
    Bounds <- MCBounds
    MaxConns = 4
    MaxSaid = 2
    MaxLeaves = 3
    MaxFails = 1
    MaxActs = 7

INVARIANTS
    TableExact
    BatchExact

PROPERTIES
    EveryoneServed

CHECK_DEADLOCK FALSE
