SPECIFICATION Spec

CONSTANTS
    Timers = {t1, t2, t3, t4, t5}
    NULL = NULL
    Cap = 2
    Delays = {0, 2}
    MaxTime = 2
    ResizeFrees = {TRUE, FALSE}

SYMMETRY TimerSymmetry

INVARIANTS
    EachOnce
    HeapOrder

PROPERTIES
    ImplementsQueue

CHECK_DEADLOCK FALSE
