SPECIFICATION FairSpec
CONSTANTS
    MaxBlock = 2
    LogsPerBlock = 1
    StartBlock = 1
    Confirmations = 0
    BatchSize = 1
    Lookback = 4
    QueueLimit = 1
    MaxReorgs = 0
    MaxGaps = 1
    MaxCalls = 1
    MaxStops = 1
    MaxCrashes = 0
    MaxThrows = 1
    MaxFailures = 0
    CatchUpWhileLive = FALSE
    MaxFaults = 2
PROPERTIES
    Settles
    CallsReturn
CHECK_DEADLOCK FALSE
