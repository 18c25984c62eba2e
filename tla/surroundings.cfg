SPECIFICATION AllFairSpec
CONSTANTS
    Sockets = {s1, s2, s3}
    NoSocket = NoSocket
    Books = {b1, b2}
    Feeds = {t1}
    MaxUpsets = 2
    MaxAge = 2
    Ttl = 4
    MaxQueued = 2
    MaxTime = 7
    Prices = {9, 10, 11}
    Fast = 1
    Slows = {2, 4}
    ConfigSlow = 2
    ThresholdBps = 500
    StopLossBps = 500
    TakeProfitBps = 1500
    Fee = 1
    MaxDailyLoss = 1
    MinIntervals = {0, 1}
    DayLength = 6
    Horizon = 8
    WindowMs = 3
    SamplesPerWindow = 4
    MaxFetch = 2
    MaxScanTime = 10
    Positions = {closed, long}
    Closed = closed
    PosMaxAge = 2
    MaxChanges = 3
    MaxBreaks = 2
    MaxPosTime = 4
    Profits <- MCProfits
    Window = 3
    MaxDrawdown = 2
    MaxLosses = 2
    Cooldown = 2
    BreakerDay = 5
    MaxCloses = 3
    MaxRestarts = 1
    MaxBreakerTime = 7
    Full = 3
    LostAnswers = TRUE
    MaxPolls = 3
CHECK_DEADLOCK FALSE
INVARIANT ConnectionKept
INVARIANT ServedFresh
INVARIANT DayLossBounded
INVARIANT PositionServed
INVARIANT HaltIsEarned
PROPERTY CreditIsEarned
PROPERTY PlacementKept
PROPERTY Streams
PROPERTY MakerReturns
