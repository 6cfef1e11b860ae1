SPECIFICATION Spec
CONSTANTS
    MaxBlock = 2
    LogsPerBlock = 2
    StartBlock = 1
    Confirmations = 1
    BatchSize = 2
    Lookback = 1
    QueueLimit = 3
    MaxReorgs = 0
    MaxGaps = 1
    MaxCalls = 2
    MaxStops = 1
    MaxCrashes = 1
    MaxThrows = 1
    MaxFailures = 1
    CatchUpWhileLive = FALSE
    MaxFaults = 2
INVARIANTS
    TypeOK
    CursorCovers
    QuietAfterStop
CONSTRAINT FaultBound
CHECK_DEADLOCK FALSE
