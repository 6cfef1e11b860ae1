SPECIFICATION MCSpec
CONSTANTS
    c1 = c1
    Callers = {c1}
    QueueLimit = 2
    ReconnectEnabled = TRUE
    MaxAttempts = 1
    CallerStops = TRUE
    ConnectsWhenActive = TRUE
    CallbackStops = FALSE
    MaxConnects = 2
    MaxStops = 2
    MaxRequests = 1
    MaxMessages = 4
    MaxDrops = 1
    MaxFailures = 1
    MaxThrows = 1
    MaxIdles = 1
INVARIANTS
    TypeOK
    InOrderAcrossCalls
    NoSilentLoss
    StopFinishes
PROPERTY ImplementsGapStream
CHECK_DEADLOCK FALSE
