SPECIFICATION Spec
CONSTANTS
    Strategies = {st1, st2}
    NoStrategy = NoStrategy
    Positions = {p1}
    NoPosition = NoPosition
    Lanes = {l1, l2, l3}
    SlowTicks = TRUE
    ApiErrors = FALSE
    RedisErrors = {"append", "remove"}
    MaxCrashes = 1
SYMMETRY Symmetry
INVARIANT TypeOK
INVARIANT NoOrphan
INVARIANT ScheduleCarriesOn
