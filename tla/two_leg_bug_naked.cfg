SPECIFICATION Spec
CONSTANTS
    Strategies = {"pairs-trading", "calendar-adapter"}
    Full = 2
    LostAnswers = FALSE
    MaxCrashes = 0
CHECK_DEADLOCK FALSE
INVARIANT MissingClosesBoth
