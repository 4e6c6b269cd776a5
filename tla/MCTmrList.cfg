SPECIFICATION Spec
CONSTANTS
    TICKS = 14
    Timers = {t1, t2, t3}
    HEAD = HEAD
    NULL = NULL
    Durations = {3}
    MaxLoop = 1
    Cap = 4
INVARIANTS
    LatenessBounded
PROPERTIES
    ImplementsTmrSet
