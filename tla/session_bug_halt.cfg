SPECIFICATION Spec
CONSTANTS
    Symbols = {s1, s2}
    NoSymbol = NoSymbol
    CloseOrders = {c1, c2}
    NoOrder = NoOrder
    ReconcileTicks = 1
    SafetyDelayTicks = 1
    LogicalExits = TRUE
    ApiErrors = FALSE
    MaxTrades = 2
    MaxCrashes = 1
PROPERTY HaltLasts
