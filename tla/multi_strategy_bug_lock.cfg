SPECIFICATION StartsSpec
CONSTANTS
    Pids = {p1, p2, p3}
    NoPid = NoPid
    Attempts = 3
    Configs = 2
    MaxBoots = 0
    MaxDeaths = 0
CHECK_DEADLOCK FALSE
INVARIANT SideBySide
