SPECIFICATION Spec
CONSTANTS
    Proc = {p1, p2, p3, p4}
    NoPid = NoPid
    MaxPids = 3
    InterruptsOff = TRUE
    MaxValue = 2
INVARIANTS TypeOK NoWakeMissed SleepersQueued QueuedOnce NobodyPassesFree
PROPERTIES Fifo
CHECK_DEADLOCK FALSE
SYMMETRY AnyOrder
