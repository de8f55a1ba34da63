SPECIFICATION TargetSpec
CHECK_DEADLOCK FALSE
CONSTANTS
    MaxCommands = 2
    Allowed <- MCAllowed
    QueueDepth = 3
    DecodeFailures = 2
INVARIANT BreaksAreBacked
PROPERTY
    ChannelSpec
    BreakEndsTheRun
