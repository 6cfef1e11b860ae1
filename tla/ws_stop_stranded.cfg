SPECIFICATION Spec
CONSTANTS
    c1 = c1
    Callers = {c1}
    QueueLimit = 1
    ReconnectEnabled = TRUE
    MaxAttempts = 0
    CallerStops = TRUE
    ConnectsWhenActive = FALSE
    CallbackStops = TRUE
    MaxConnects = 2
    MaxStops = 2
    MaxRequests = 0
    MaxMessages = 1
    MaxDrops = 0
    MaxFailures = 0
    MaxThrows = 0
    MaxIdles = 0
INVARIANTS
    StopFinishes
CHECK_DEADLOCK FALSE
