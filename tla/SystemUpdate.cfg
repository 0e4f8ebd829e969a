CONSTANTS
    Major = {1, 2}
    Skips = {FALSE, TRUE}
    MaxReleases = 2
    MaxUpdates = 2
    MaxWrites = 1
    MaxFaults <- MCFaults
SPECIFICATION FairSpec
INVARIANTS
    TypeOK
    KeptIfBackedUp
    NoHalfSchema
PROPERTIES
    OutcomeIsTrue
    AppComesBack
    WorkerComesBack
CHECK_DEADLOCK FALSE
