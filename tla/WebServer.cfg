SPECIFICATION FairSpec

CONSTANTS
    Fds = {1, 2}
    Workers = {w1, w2}
    MAX_FD = 2
    QueueLimit = 0
    HeadLen = 3
    FileLen = 2
    SndBuf = 4
    AfterBatch = {"loop", "return"}
    MaxConns = 3
    MaxSaid = 2

INVARIANTS
    OneHolder
    ObjectsMatch

PROPERTIES
    RequestHandled

CHECK_DEADLOCK FALSE
