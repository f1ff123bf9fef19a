CONSTANTS
    PmSymbol = {m1}
    BaseDelay = 1
    MaxDelay = 3
    PriceCap = 2
    MaxUpdates = 3
    MaxPmEnds = 3
    BnStreams = 2
    MaxBnFaults = 2
SPECIFICATION FairSpec
INVARIANTS BackoffIsExponential CacheIsCurrent ConnectionsAccounted WaitsFullySubscribed
PROPERTIES ShutdownReaches
CHECK_DEADLOCK FALSE
