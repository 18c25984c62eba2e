SPECIFICATION MCSpec
CONSTANTS
    Lot = 2
    Modes = {"taker", "maker-entry", "maker-preferred-with-timeout", "maker-only-aggressive"}
    MaxCloses = 2
    MaxMishaps = 2
    MaxHeld = 4
    Strategies = {"funding-arb", "longer-tf", "bollinger-adx", "basis-arb",
                  "calendar-spread", "pairs-trading", "liquidation-cascade", "llm-managed"}
    Pids = {p1, p2, p3}
    NoPid = NoPid
    Attempts = 2
    Configs = 2
    MaxBoots = 2
    MaxDeaths = 2
SYMMETRY PidSymmetry
CHECK_DEADLOCK FALSE
INVARIANT AnswerIsTrue
INVARIANT NothingForgotten
INVARIANT OneSession
