CONSTANTS
    Worker = {w1, w2}
    Slot = {s1}
    Client = {c1, c2}
    None = None
    MaxRetry = 1
    MaxSteps = 1
    MaxFaults = 1
SPECIFICATION FairSpec
INVARIANTS TypeOK OneRunAtATime RunningIsReachable FailuresAreCounted CanceledAnswerHolds
PROPERTIES FinalStays ImplementsLifecycle EventuallyFinished ListenersEnd
