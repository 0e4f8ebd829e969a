CONSTANTS
    c1 = c1
    c2 = c2
    Client = {c1, c2}
    Kinds = {"routing", "service", "traefik"}
    Worker = Worker
    Timer = Timer
    MaxRetry = 1
    MaxChanges = 2
    MaxAnswers = 2
    Faults <- MCFaults
    MaxFaults = 1
SPECIFICATION FairSpec
INVARIANTS TypeOK  
PROPERTIES SettledOnce TrialsEnd
CHECK_DEADLOCK FALSE
