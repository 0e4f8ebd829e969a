CONSTANTS
    low = low
    high = high
    Task = {low, high}
    Entry = {e1, e2, e3}
    None = None
    Priority <- TwoPriorities
    Critical = 2
    Concurrency = 1
    PauseLimit = 2
    PauseRecheck = 1
    MaxDue = 1
    MaxTime = 2
    MaxReruns = 0
    MaxMessages = 0
    MaxFaults = 0
SPECIFICATION FairSpec
PROPERTY EventuallyRun
