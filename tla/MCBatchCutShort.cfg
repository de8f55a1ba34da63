SPECIFICATION Spec
CONSTANTS
    Plans <- MCPlans
    Budget = 4
    Reserve = 3
    MinStep = 2
    Slack = 1
INVARIANT
    CutShortIsTrue
