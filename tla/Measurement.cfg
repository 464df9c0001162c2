\* Five programs, three cycles, exchanges and wake-ups shorter and longer than an interval.
SPECIFICATION Spec
CONSTANTS
    Sec = 4
    INTERVAL = 2
    TARGET = 1
    HIST_MAX = 2
    Bases = {0, 3}
    Delays = {0, 1, 3}
    Cycles = 3
    Chances = 2
    MaxFaults = 2
INVARIANTS
    OnGrid
PROPERTIES
    ShutsDown
\* The programs end.
CHECK_DEADLOCK FALSE
