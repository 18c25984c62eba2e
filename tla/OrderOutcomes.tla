---------------------------- MODULE OrderOutcomes ----------------------------
(***************************************************************************)
(* What a strategy relies on when it places an order for Full units: one   *)
(* answer, and behind it an amount executed and an amount still resting on *)
(* the exchange.  "market" is client.createOrder, the maker modes are      *)
(* placeOrderWithMakerPreference without and with its taker fallback.      *)
(*                                                                         *)
(* "ok" promises at least the amount asked for; "failed" promises nothing. *)
(***************************************************************************)
EXTENDS Integers

CONSTANTS
    Full,         \* units of the order; a unit is the smallest partial fill
    LostAnswers   \* a request may be executed and its answer be lost

ASSUME PlacementAssumption == Full \in Nat \ {0} /\ LostAnswers \in BOOLEAN

\* held is the size a reduce-only order can reduce.
Requests == [mode : {"market", "maker", "maker-or-taker"}, reduceOnly : BOOLEAN,
             held : 0..2 * Full]

\* The exchange cuts a reduce-only order to what there is to reduce.
Lot(r) == IF r.reduceOnly /\ r.held < Full THEN r.held ELSE Full

MarketOutcome(r, o) ==
    /\ o.resting = 0
    /\ o.filled \in {0, Lot(r)}
    /\ o.answer = "failed" /\ ~LostAnswers => o.filled = 0

\* Without the fallback there is one order, and "ok" is all of it.
MakerOutcome(r, o) == o.filled + o.resting <= Lot(r)

\* With the fallback the limit order may be executed besides the market order.
FallbackOutcome(r, o) ==
    /\ o.filled + o.resting <= 2 * Full
    /\ o.answer = "failed" /\ ~LostAnswers => o.filled + o.resting <= Lot(r)

Outcomes(r) ==
    {o \in [answer : {"ok", "failed"}, filled : 0..2 * Full, resting : 0..Full] :
        /\ o.answer = "ok" => Lot(r) > 0 /\ o.filled >= Lot(r)
        /\ r.reduceOnly => o.filled <= r.held
        /\ r.mode = "market" => MarketOutcome(r, o)
        /\ r.mode = "maker" => MakerOutcome(r, o)
        /\ r.mode = "maker-or-taker" => FallbackOutcome(r, o)}

=============================================================================
