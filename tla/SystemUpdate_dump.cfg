CONSTANTS
    Major = {1}
    Skips = {FALSE, TRUE}
    MaxReleases = 2
    MaxUpdates = 2
    MaxWrites = 1
    MaxFaults <- MCFailedCommand
SPECIFICATION Spec
INVARIANTS
    NothingKeptIsLost
CHECK_DEADLOCK FALSE
