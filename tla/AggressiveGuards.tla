--------------------------- MODULE AggressiveGuards ---------------------------
(***************************************************************************)
(* The pure rules around an aggressive trade: the guards asked before an   *)
(* order, and the mechanical stop and target asked on every manage tick.   *)
(* Amounts are whole units; the loss cap is the fraction num/den of the    *)
(* equity the day started with.                                            *)
(***************************************************************************)
EXTENDS Integers, FiniteSetsExt

\* Each guard is TRUE when it lets the entry pass.
DailyLossCap(state, limits) ==
    \/ limits.lossNum <= 0
    \/ state.start <= 0
    \/ Max({0, -state.pnl}) * limits.lossDen < state.start * limits.lossNum

\* Mutant: one trade too many.
MaxTradesPerDayLoose(state, limits) ==
    limits.maxTrades <= 0 \/ state.trades <= limits.maxTrades

MaxTradesPerDay(state, limits) ==
    limits.maxTrades <= 0 \/ state.trades < limits.maxTrades

TotalCapitalCap(state, limits) ==
    limits.maxCapital <= 0 \/ state.equity <= limits.maxCapital

GuardsAllow(state, limits) ==
    /\ DailyLossCap(state, limits)
    /\ MaxTradesPerDay(state, limits)
    /\ TotalCapitalCap(state, limits)

Sign(side) == IF side = "long" THEN 1 ELSE -1

ShouldHardStop(side, stopPrice, price) ==
    Sign(side) * price <= Sign(side) * stopPrice

ShouldTakeProfit(side, takeProfitPrice, price) ==
    Sign(side) * price >= Sign(side) * takeProfitPrice

===============================================================================
