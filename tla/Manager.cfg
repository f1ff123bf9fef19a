CONSTANTS
    p1 = p1
    p2 = p2
    p3 = p3
    None = None
    Position = {p1, p2, p3}
    Amount <- MCAmounts
    InitialBalance = 200
    Cent = 4
    MaxDrawdown = 1500
SPECIFICATION AloneFairSpec
INVARIANTS BreakerAgreesWithDrawdown SnapshotIsConsistent
PROPERTIES HighWaterMarks SnapshotCatchesUp
