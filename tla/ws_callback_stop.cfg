SPECIFICATION FairSpec
CONSTANTS
    c1 = c1
    Callers = {c1}
    QueueLimit = 1
    ReconnectEnabled = TRUE
    MaxAttempts = 0
    CallerStops = FALSE
    ConnectsWhenActive = FALSE
    CallbackStops = TRUE
    MaxConnects = 3
    MaxStops = 2
    MaxRequests = 0
    MaxMessages = 2
    MaxDrops = 1
    MaxFailures = 0
    MaxThrows = 1
    MaxIdles = 0
INVARIANTS
    NoSelfJoin
PROPERTIES
    TeardownCompletes
    CallsReturn
    ResnapshotEnds
CHECK_DEADLOCK FALSE
