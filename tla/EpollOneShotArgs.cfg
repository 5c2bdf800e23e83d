SPECIFICATION Spec

CONSTANTS
    Descriptors = {7, 8}
    Workers = {w1, w2}
    Bounds <- MCBounds
    MaxConns = 2
    MaxSaid = 2
    MaxLeaves = 1

INVARIANT OneWorker

CHECK_DEADLOCK FALSE
