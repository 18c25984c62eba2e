SPECIFICATION FairSpec
CONSTANTS
    Strategies = {"basis-arb", "basis-arb-maker", "pairs-trading",
                  "calendar-open", "calendar-adapter", "calendar-maker"}
    Full = 2
    LostAnswers = TRUE
    MaxCrashes = 1
    Agents = {st1}
    NoStrategy = NoStrategy
    Positions = {p1}
    NoPosition = NoPosition
    Lanes = {l1, l2, l3}
CHECK_DEADLOCK FALSE
INVARIANT TypeOK
INVARIANT BothLegsManaged
INVARIANT NakedIsAlerted
INVARIANT ClosesNeverFlip
PROPERTY MissingLegNoticed
INVARIANT NothingTwice
PROPERTY ClosedIsFinished
