CONSTANTS
    low = low
    high = high
    Task = {low}
    Entry = {e1, e2}
    None = None
    Priority <- SamePriority
    Critical = 3
    Concurrency = 2
    PauseLimit = 2
    PauseRecheck = 1
    MaxDue = 1
    MaxTime = 3
    MaxReruns = 1
    MaxMessages = 1
    MaxFaults = 1
SPECIFICATION FairSpec
INVARIANTS TypeOK NoOrphanEntry NoStrayJob
PROPERTY EventuallyRun
