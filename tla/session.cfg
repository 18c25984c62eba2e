SPECIFICATION FairSpec
CONSTANTS
    Symbols = {s1, s2}
    NoSymbol = NoSymbol
    CloseOrders = {c1, c2}
    NoOrder = NoOrder
    ReconcileTicks = 0
    SafetyDelayTicks = 1
    LogicalExits = TRUE
    ApiErrors = FALSE
    MaxTrades = 2
    MaxCrashes = 2
INVARIANT TypeOK
INVARIANT NoUnmanagedExposure
INVARIANT LedgerExact
INVARIANT OneCloseOrder
INVARIANT SafetyStopInTime
PROPERTY EndsAreNoticed
