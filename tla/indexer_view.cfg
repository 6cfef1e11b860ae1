SPECIFICATION Spec
CONSTANTS
    MaxBlock = 2
    LogsPerBlock = 1
    StartBlock = 1
    Confirmations = 0
    BatchSize = 1
    Lookback = 4
    QueueLimit = 1
    MaxReorgs = 1
    MaxGaps = 1
    MaxCalls = 1
    MaxStops = 0
    MaxCrashes = 0
    MaxThrows = 1
    MaxFailures = 0
    CatchUpWhileLive = FALSE
    MaxFaults = 2
INVARIANTS
    ViewMatchesChain
CONSTRAINT FaultBound
CHECK_DEADLOCK FALSE
