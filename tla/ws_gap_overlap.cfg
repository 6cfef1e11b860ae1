SPECIFICATION Spec
CONSTANTS
    c1 = c1
    Callers = {c1}
    QueueLimit = 1
    ReconnectEnabled = TRUE
    MaxAttempts = 0
    CallerStops = FALSE
    ConnectsWhenActive = TRUE
    CallbackStops = FALSE
    MaxConnects = 1
    MaxStops = 0
    MaxRequests = 0
    MaxMessages = 3
    MaxDrops = 1
    MaxFailures = 0
    MaxThrows = 1
    MaxIdles = 0
INVARIANTS
    InOrder
CHECK_DEADLOCK FALSE
