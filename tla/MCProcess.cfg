SPECIFICATION Spec
CONSTANTS
    MaxProcess = 5
    MaxSemaphores = 10
    MaxPages = 5
    Shells = 2
    MaxCreated = 2
    MaxDead = 3
    AnyProgram = FALSE
INVARIANTS  ChildCountRight FreedLast WaiterHasLiveChild WakesAreZombies RunningStackPresent
CONSTRAINT WithinBounds
