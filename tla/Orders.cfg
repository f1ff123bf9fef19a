CONSTANTS
    btc = btc
    doge = doge
    Task = {loop, monitor}
    BinanceSymbol = {btc, doge}
    Token = {token}
    StepOf <- MCStepOf
    Unit = 6
    Quantity <- MCQuantity
    MaxIntents = 3
    MaxFaults = 2
    None = None
SPECIFICATION Spec
INVARIANTS OrderedAsAsked RefusalsExplained RowsMatchOrders
PROPERTIES StepIsSettled
CHECK_DEADLOCK FALSE
