CONSTANTS
    often = often
    seldom = seldom
    Schedule = {often, seldom}
    RunsOf <- OftenAndSeldom
    MaxTime = 3
    Ahead = 2
    Editor = {e1, e2}
    Worker = {w1}
    None = None
    MaxFaults = 1
SPECIFICATION Spec
SYMMETRY EditorSymmetry
INVARIANTS TypeOK WaitingFollowsSchedule ComingRunsAreThere BegunIsKept
CHECK_DEADLOCK FALSE
