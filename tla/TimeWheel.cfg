SPECIFICATION Spec

CONSTANTS
    Timers = {t1, t2, t3}
    NULL = NULL
    N = 2
    SI = 2
    Timeouts = {1, 4, 11}
    DeletesNext = {TRUE, FALSE}
    MaxTicks = 6

SYMMETRY TimerSymmetry

INVARIANTS
    SlotsExact
    TickComplete

PROPERTIES
    ImplementsQueue

CHECK_DEADLOCK FALSE
