CONSTANTS
    Run <- SomeRuns
    MaxTime = 16
    CreateEvery = 3
    CreateAhead = 3
    CheckEvery = 3
    CheckAhead = 3
    MissedPeriod = 9
    Late = 2
    MaxDown = 2
    MaxFaults = 2
SPECIFICATION FairSpec
INVARIANT TypeOK
PROPERTIES OnlyGapsAreMissed MissedIsRun
CHECK_DEADLOCK FALSE
