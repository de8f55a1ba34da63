SPECIFICATION CompositeSpec
CHECK_DEADLOCK FALSE
CONSTANTS
    Tasks = {t1, t2}
    LeaseRunsOut = FALSE
INVARIANT
    ControllerReachable
