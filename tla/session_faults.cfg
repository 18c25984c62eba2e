SPECIFICATION Spec
CONSTANTS
    Symbols = {s1, s2}
    NoSymbol = NoSymbol
    CloseOrders = {c1, c2}
    NoOrder = NoOrder
    ReconcileTicks = 2
    SafetyDelayTicks = 1
    LogicalExits = FALSE
    ApiErrors = TRUE
    MaxTrades = 2
    MaxCrashes = 1
SYMMETRY Symmetry
INVARIANT StopOrFallback
INVARIANT SnapshotFresh
PROPERTY ClosesOnlyReduce
