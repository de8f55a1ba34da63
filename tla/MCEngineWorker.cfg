SPECIFICATION MCSpec
CONSTANTS
    NoJob = NoJob
    Eof = Eof
    q = q
    r = r
    b = b
    e = e
    f = f
    Jobs = {q, r, b, e, f}
    Op <- MCOp
    HandleBound = {q, r, b}
    MaxBreaks = 1
    Steps = 1
INVARIANTS
    TypeOK
    BreakStaysWithItsJob
    CleanupUninterrupted
    NoRunOutlivesTeardown
    MissedRunNeverStarts
    NoSilentBatch
    PromiseRetracted
    RaisedIsReported
    BoundCallKeepsItsTarget
PROPERTY
    TeardownReached
