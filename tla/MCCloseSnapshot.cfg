SPECIFICATION FairSpec
CONSTANTS
    k1 = k1
    k2 = k2
    Code <- MCCode
    Bj <- MCBj
    TradeDay <- MCTradeDay
    LastDay = 1
    MaxRetries = 1
    MaxFaults = 1
INVARIANTS TypeOK CompleteMeansRows
PROPERTIES EveningCovered
CHECK_DEADLOCK FALSE
