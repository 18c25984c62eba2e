SPECIFICATION MCSpec
CONSTANTS
    Strategies = {"longer-tf", "bollinger-adx", "funding-arb", "ma-crossover",
                  "liquidation-cascade", "llm-managed"}
    Lanes = {l1, l2}
    MaxTrades = 2
    MaxUnits = 1
    MaxMishaps = 1
SYMMETRY Symmetry
CHECK_DEADLOCK FALSE
INVARIANT CreditsKept
INVARIANT CooldownRespected
