SPECIFICATION Spec
CONSTANTS
    Proc = {p1, p2, p3}
    NoPid = NoPid
    MaxPids = 3
    InterruptsOff = FALSE
    MaxValue = 1
INVARIANTS SleepersQueued
CHECK_DEADLOCK FALSE
