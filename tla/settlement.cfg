SPECIFICATION Spec
CONSTANTS
    Trades <- MCTrades
    Order <- MCOrder
    NoId = ""
    Capacity = 1
    MaxTries <- MCRetry
    MaxWire = 2
    MaxGaps = 1
    MaxResends = 1
CONSTRAINT OneCall
CHECK_DEADLOCK FALSE
VIEW CounterView
INVARIANTS
    TypeOK
    ArrivalMatchesTrades
    SettlementFinal
    NoLostWakeup
    TimeoutIsHonest
