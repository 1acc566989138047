SPECIFICATION MCSpec
CONSTANTS
    MaxProcess = 5
    MaxCreated = 3
    SleepMs = {0, 55}
INVARIANTS TypeOK RingIsOneCycle CountIsRingSize CurrentIsOnRing
PROPERTIES ScanIsRoundRobin IdleOnlyWhenNobodyReadyIfFewDied ReadyRuns SleeperWakes ScanEnds
