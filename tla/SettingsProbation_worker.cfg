CONSTANTS
    c1 = c1
    c2 = c2
    Client = {c1, c2}
    Kinds = {"traefik"}
    Worker = Worker
    Timer = Timer
    MaxRetry = 1
    MaxChanges = 1
    MaxAnswers = 1
    Faults <- RefusedWorker
    MaxFaults = 1
SPECIFICATION Spec
INVARIANT LiveIsVouchedOrOnTrial
CHECK_DEADLOCK FALSE
