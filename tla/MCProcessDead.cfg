SPECIFICATION Spec
CONSTANTS
    MaxProcess = 5
    MaxSemaphores = 10
    MaxPages = 5
    Shells = 1
    MaxCreated = 2
    MaxDead = 2
    AnyProgram = TRUE
PROPERTIES KilledAreDead
