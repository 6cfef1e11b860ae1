SPECIFICATION Spec
CONSTANTS
    MaxBlock = 3
    LogsPerBlock = 1
    StartBlock = 1
    Confirmations = 0
    BatchSize = 1
    Lookback = 1
    QueueLimit = 3
    MaxReorgs = 0
    MaxGaps = 1
    MaxCalls = 1
    MaxStops = 0
    MaxCrashes = 0
    MaxThrows = 0
    MaxFailures = 0
    CatchUpWhileLive = FALSE
    MaxFaults = 2
INVARIANTS
    AtLeastOnce
CONSTRAINT FaultBound
CHECK_DEADLOCK FALSE
