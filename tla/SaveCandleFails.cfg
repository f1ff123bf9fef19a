CONSTANTS
    None = None
    LastCandle = 3
    MaxConnections = 1
    MaxArrivals = 3
    StreamCap = 2
    ClosedCap = 1
    MinCandles = 1
    MaxFaults = 1
    Fallible = {"save_candle"}
SPECIFICATION Spec
INVARIANTS FanOutReachesDecision
CHECK_DEADLOCK FALSE
