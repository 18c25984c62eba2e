SPECIFICATION MCSpec
CONSTANTS
    Intents <- MCIntents
    Limits <- MCLimits
    StartEquity = 2
    Prices <- MCPrices
    LedgerLimit = 1
    Trades = {t1, t2, t3}
    MaxDays = 1
    MaxEntries = 2
    MaxMishaps = 1
SYMMETRY Symmetry
CHECK_DEADLOCK FALSE
INVARIANT DayAccount
INVARIANT ExposureManaged
INVARIANT TradesPerDayBounded
