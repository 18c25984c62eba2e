------------------------- MODULE MCAggressiveTraders -------------------------
(* Small instances: the hunter goes long two units, the pump scanner short  *)
(* one, on one symbol; one trade a day, a cap of half the starting equity.  *)
(* A behaviour is about exposure (two trades, two prices, a failure, no     *)
(* midnight) or about days (three paper trades, a loss or a gain that ends  *)
(* none of them, two days, nothing fails).                                  *)
EXTENDS AggressiveTraders, TLC

VARIABLE part

MCLimits == [lossNum |-> 1, lossDen |-> 2, maxTrades |-> 1, maxCapital |-> 3]

MCIntents == {[by |-> "hunter", symbol |-> "A", side |-> "long", size |-> 2],
              [by |-> "pump", symbol |-> "A", side |-> "short", size |-> 1]}

MCPrices == {-1, 1}

Symmetry == Permutations(Trades)

MCInit == part \in {"exposure", "days"} /\ Init /\ (part = "days" => paper)

MCNext ==
    /\ Next
    /\ part = "exposure" => today' = 0 /\ Sum(ordered') <= 2
    /\ part = "days" => mishaps' = {} /\ manage'.price # -1 /\ realised'.entries <= 1
    /\ UNCHANGED part

MCSpec == MCInit /\ [][MCNext]_<<vars, part>>

==============================================================================
