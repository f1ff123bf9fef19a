CONSTANTS
    p1 = p1
    p2 = p2
    p3 = p3
    s1 = s1
    s2 = s2
    None = None
    Position = {p1, p2}
    Symbol = {s1, s2}
    SymbolOf <- MCSymbolOf
    Amount <- MCAmounts
    InitialBalance = 200
    DefaultBalance = 200
    Cent = 2
    Threshold = 70
    Confidence = {69, 70}
    MaxPositions = 1
    MaxDrawdown = 1500
    SizePercent = 10
    EntryPrice = 1
    DryRun = FALSE
    MaxDecisions = 1
    MaxAttempts = 1
SPECIFICATION Spec
INVARIANTS NoOrderWhileBreakerActive
