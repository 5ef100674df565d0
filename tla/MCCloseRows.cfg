SPECIFICATION Spec
CONSTANTS
    k1 = k1
    k2 = k2
    Code <- MCCode
    Bj <- MCBj
    TradeDay <- MCTradeDay
    LastDay = 1
    MaxRetries = 1
    MaxFaults = 1
INVARIANTS CloseRowsFinal
CHECK_DEADLOCK FALSE
