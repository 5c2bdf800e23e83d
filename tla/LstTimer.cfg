SPECIFICATION FairSpec

CONSTANTS
    Timers = {t1, t2, t3}
    NULL = NULL
    Delays = {0, 2}
    MaxTime = 2

INVARIANTS
    ListExact

PROPERTIES
    TickComplete
    ImplementsQueue
    CallsReturn

CHECK_DEADLOCK FALSE
