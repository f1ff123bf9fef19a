\* Two rows on one symbol, one fault.
CONSTANTS
    p1 = p1
    p2 = p2
    s1 = s1
    None = None
    Position = {p1, p2}
    Symbol = {s1}
    Price = {1, 2, 3}
    MaxFaults = 1
    SymbolOf <- MCSymbolOf
    Terms <- MCTerms
SPECIFICATION FairSpec
INVARIANTS DuplicatesNeedFaults CloseJustified TrailTracksBest
PROPERTIES TrailingRatchets NoOrderForClosed NoPositionStuck ImplementsLifecycle
