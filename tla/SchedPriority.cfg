SPECIFICATION Spec
CONSTANTS
    MaxProcess = 4
    CantPriorities = 2
    Pids = {2, 3}
    SleepMs = {50, 54, 109, 164}
INVARIANTS TypeOK SlotsAreFound SleepersOnTime
PROPERTIES BrokenOnlyOffRing
CHECK_DEADLOCK FALSE
