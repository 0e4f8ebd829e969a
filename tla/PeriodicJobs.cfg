CONSTANTS
    j1 = j1
    j2 = j2
    None = None
    Hash <- HashOne
    Timeout <- TimeoutOne
    LockTTL = 1
    LockMargin = 1
    Job = {j1}
    Others = TRUE
    Worker = {w1, w2}
    Slot = {s1}
    Interval = {2}
    Overrun = 0
    ReloadEvery = 1
    MaxWaiting = 1
    MaxChanges = 1
    MaxFaults = 1
SPECIFICATION FairSpec
INVARIANTS TypeOK NoOverlap
PROPERTIES RunsAgainAndAgain OffIsForgotten
