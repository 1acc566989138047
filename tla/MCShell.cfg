SPECIFICATION Spec
CONSTANTS
    Shells = {"sh0", "sh1", "sh2"}
    Dirs <- MCDirs
    MaxComm = 6
    MaxHist = 2
    CantContexts = 2
    MaxArgs = 3
    Inputs <- MCInputs
    MaxFailures = 1
INVARIANTS TypeOK RunsWhatWasTyped ContextsLeakOnlyByFailure
PROPERTY HistoryLeftOnlyTogether
CHECK_DEADLOCK FALSE
