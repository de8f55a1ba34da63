SPECIFICATION ServerSpec
CONSTANTS
    Parts = {"batch", "execution", "composite", "lease", "live"}
    \* the batch
    Plans <- MCPlans
    Budget = 4
    Reserve = 3
    MinStep = 2
    Slack = 1
    \* the runs of a session
    MaxRuns = 2
    Actors = 3
    Calls = {c1}
    Waits = {w1}
    Breaks = {b1}
    None = None
    \* the leases
    a = a
    b = b
    Clients = {a, b}
    MaxRequests = 3
    Grace = 2
    Longest = 1
    Senders <- MCSenders
    MaxReloads = 1
    Never = Never
    \* a composite session
    Tasks = {t1, t2}
    LeaseRunsOut = FALSE
    \* a live wait
    MaxJobs = 4
INVARIANTS
    AimedAtTheTarget
    CommittedIsWhole
    ReserveSurvives
    OverrunBounded
    ReportIsTrue
    AnswersAreTrue
    NoCallBehindARun
    SweepSparesQuietCalls
    RevokedIsReleased
    PeerGoesFirst
    ControllerKept
    BoundBreakWakes
    BreakAnswersForItsWait
PROPERTY
    NobodySleepsOnTheAnswer
