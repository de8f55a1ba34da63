SPECIFICATION ExecSpec
CHECK_DEADLOCK FALSE
CONSTANTS
    MaxRuns = 2
    Actors = 3
    Calls = {c1}
    Waits = {w1}
    Breaks = {b1}
    None = None
INVARIANT
    NeverMovedIsTrue
