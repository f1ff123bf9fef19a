CONSTANTS
    None = None
    LastCandle = 2
    MaxConnections = 2
    MaxArrivals = 3
    StreamCap = 2
    ClosedCap = 1
    MinCandles = 1
    MaxFaults = 1
    Fallible = {"save_candle", "fetch_candles", "compute", "save_indicator", "build_context", "call_llm"}
SPECIFICATION FairSpec
INVARIANTS DecidedInOrder NothingVanishes IndicatorCoversCandle
PROPERTIES ImplementsFates QueuedIsSettled ShutdownCompletes
CHECK_DEADLOCK FALSE
