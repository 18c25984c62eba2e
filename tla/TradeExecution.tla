---------------------------- MODULE TradeExecution ----------------------------
(***************************************************************************)
(* executeTrade of the trader session: a taker entry, an entry by a post-  *)
(* only limit order that is polled, cancelled, read back and flattened,    *)
(* its retries and its taker fallback, and the reduce-only limit close     *)
(* whose fill nobody awaits.  The exchange fills or cancels the resting    *)
(* orders at any moment in between.  Live trading: on paper executeTrade   *)
(* answers "filled" and touches nothing.                                   *)
(*                                                                         *)
(* held[1] is the leg executeTrade trades; units are counted in the        *)
(* direction of the entry.  Errors that executeTrade does not catch end    *)
(* the call as "thrown".                                                   *)
(***************************************************************************)
EXTENDS Integers, FiniteSets

CONSTANTS
    Lot,          \* units of an entry: a unit is the smallest partial fill
    Modes,        \* config.entryExecutionMode
    MaxCloses,    \* bound: reduce-only closes resting at a time
    MaxMishaps    \* bound: kinds of mishaps in one behaviour, each once

ModeNames == {"taker", "maker-entry", "maker-preferred-with-timeout", "maker-only-aggressive"}
MAKER_ONLY_AGGRESSIVE_MAX_RETRIES == 3

ASSUME ExecutionAssumption ==
    /\ Lot \in Nat \ {0}
    /\ Modes \subseteq ModeNames
    /\ MaxCloses \in Nat
    /\ MaxMishaps \in Nat

VARIABLES
    mode,
    held,     \* units the exchange holds on each leg
    order,    \* the entry order on the exchange: [status, done]
    closes,   \* reduce-only limit orders resting in the book
    call,     \* executeTrade: [at, seen, attempt]
    mishaps

execution == <<mode, held, order, closes, call, mishaps>>

-----------------------------------------------------------------------------
Legs == {1, 2}
Least(a, b) == IF a < b THEN a ELSE b

NoOrder == [status |-> "none", done |-> 0]
NoCall == [at |-> "none", seen |-> 0, attempt |-> 0]
Answers == {"filled", "unfilled", "thrown"}

\* An executed order whose answer is lost, a read-back that does not know the
\* order yet, a ledger or snapshot write that throws.
MishapKinds == {"lost", "stale", "write"}

Mishap(kind) ==
    /\ kind \notin mishaps
    /\ Cardinality(mishaps) < MaxMishaps
    /\ mishaps' = mishaps \cup {kind}

CallGoes(at) == call' = [call EXCEPT !.at = at]

\* A market order of qty units (negative: a sale): executed, refused, or
\* executed with its answer lost.
Order(leg, qty, ok, failed) ==
    \/ held' = [held EXCEPT ![leg] = @ + qty] /\ ok /\ UNCHANGED mishaps
    \/ UNCHANGED held /\ failed /\ UNCHANGED mishaps
    \/ held' = [held EXCEPT ![leg] = @ + qty] /\ failed /\ Mishap("lost")

\* A reduce-only order is cut to the position and refused without one.
Reduce(leg, qty, ok, failed) ==
    IF held[leg] > 0 THEN Order(leg, -Least(qty, held[leg]), ok, failed)
    ELSE UNCHANGED <<held, mishaps>> /\ failed

-----------------------------------------------------------------------------
(* The call.                                                               *)

\* An entry starts as a market order or as a post-only order.
EntryCall == [NoCall EXCEPT !.at = IF mode = "taker" THEN "market" ELSE "place"]

\* Taker entries and the fallback of maker-preferred-with-timeout.
TakeMarket ==
    /\ call.at = "market"
    /\ Order(1, Lot, CallGoes("filled"), CallGoes("thrown"))
    /\ UNCHANGED <<mode, order, closes>>

\* createOrder of the limit close: its fill is left to the caller.  Only a
\* rejection that names the reduce-only rule counts as filled.
PlaceClose ==
    /\ call.at = "exit"
    /\ \/ /\ held[1] > 0
          /\ closes < MaxCloses
          /\ closes' = closes + 1
          /\ \/ CallGoes("unfilled") /\ UNCHANGED mishaps
             \/ CallGoes("thrown") /\ Mishap("lost")
       \/ held[1] <= 0 /\ CallGoes("filled") /\ UNCHANGED <<closes, mishaps>>
       \/ CallGoes("thrown") /\ UNCHANGED <<closes, mishaps>>
    /\ UNCHANGED <<mode, held, order>>

PlaceEntryOrder ==
    /\ call.at = "place"
    /\ \/ order' = [status |-> "open", done |-> 0] /\ CallGoes("wait") /\ UNCHANGED mishaps
       \/ UNCHANGED order /\ CallGoes("thrown") /\ UNCHANGED mishaps
       \/ order' = [status |-> "open", done |-> 0] /\ CallGoes("thrown") /\ Mishap("lost")
    /\ UNCHANGED <<mode, held, closes>>

\* One round of waitForEntryOrderResolution's loop.
Poll ==
    /\ call.at = "wait"
    /\ call' = [call EXCEPT !.seen = order.done,
                            !.at = CASE order.status = "filled" -> "filled"
                                     [] order.status = "cancelled" -> "flatten"
                                     [] OTHER -> "wait"]
    /\ UNCHANGED <<mode, held, order, closes, mishaps>>

\* entryMakerTimeoutMs is over; or a poll throws.
StopWaiting ==
    /\ call.at = "wait"
    /\ CallGoes("cancel") \/ CallGoes("thrown")
    /\ UNCHANGED <<mode, held, order, closes, mishaps>>

\* cancelOrder throws when the order has just been filled or cancelled.
CancelEntryOrder ==
    /\ call.at = "cancel"
    /\ \/ /\ order.status = "open"
          /\ order' = [order EXCEPT !.status = "cancelled"]
          /\ CallGoes("read")
       \/ UNCHANGED order /\ CallGoes("thrown")
    /\ UNCHANGED <<mode, held, closes, mishaps>>

\* Mutant: what the last poll saw is trusted.
ReadBackLatest ==
    /\ call.at = "read"
    /\ CallGoes("flatten")
    /\ UNCHANGED <<mode, held, order, closes, mishaps>>

\* The order is read again after the cancel; latestOrder stands in for an
\* order the read does not find.
ReadBack ==
    /\ call.at = "read"
    /\ \/ call' = [call EXCEPT !.at = "flatten", !.seen = order.done] /\ UNCHANGED mishaps
       \/ CallGoes("flatten") /\ Mishap("stale")
       \/ CallGoes("thrown") /\ UNCHANGED mishaps
    /\ UNCHANGED <<mode, held, order, closes>>

\* After a maker order that did not fill: retry one tick closer, fall back to
\* a market order for the whole quantity, or give up.  The orders cancelled
\* again here are gone already.
Unresolved ==
    CASE mode = "maker-only-aggressive" /\ call.attempt < MAKER_ONLY_AGGRESSIVE_MAX_RETRIES ->
           [call EXCEPT !.at = "place", !.attempt = @ + 1, !.seen = 0]
      [] mode = "maker-preferred-with-timeout" -> [call EXCEPT !.at = "market"]
      [] OTHER -> [call EXCEPT !.at = "unfilled"]

\* flattenPartialEntryIfNeeded.
Flatten ==
    /\ call.at = "flatten"
    /\ IF call.seen = 0 THEN call' = Unresolved /\ UNCHANGED <<held, mishaps>>
       ELSE Reduce(1, call.seen, call' = Unresolved, CallGoes("thrown"))
    /\ UNCHANGED <<mode, order, closes>>

ExecuteTrade ==
    \/ TakeMarket \/ PlaceClose \/ PlaceEntryOrder \/ Poll \/ StopWaiting
    \/ CancelEntryOrder \/ ReadBack \/ Flatten

-----------------------------------------------------------------------------
(* The exchange.                                                           *)

FillEntryOrder ==
    /\ order.status = "open"
    /\ order' = [done |-> order.done + 1,
                 status |-> IF order.done + 1 = Lot THEN "filled" ELSE "open"]
    /\ held' = [held EXCEPT ![1] = @ + 1]
    /\ UNCHANGED <<mode, closes, call, mishaps>>

\* A post-only order that would take, a delisting, a margin check.
ExchangeCancels ==
    /\ order.status = "open"
    /\ order' = [order EXCEPT !.status = "cancelled"]
    /\ UNCHANGED <<mode, held, closes, call, mishaps>>

\* The closes that rest are gone with the position.
FillClose ==
    /\ closes > 0
    /\ held[1] > 0
    /\ held' = [held EXCEPT ![1] = 0]
    /\ closes' = 0
    /\ UNCHANGED <<mode, order, call, mishaps>>

Book == FillEntryOrder \/ ExchangeCancels \/ FillClose

ExecutionInit ==
    /\ mode \in Modes
    /\ held = [leg \in Legs |-> 0]
    /\ order = NoOrder
    /\ closes = 0
    /\ call = NoCall
    /\ mishaps = {}

ExecutionTypeOK ==
    /\ mode \in Modes
    /\ held \in [Legs -> Int]
    /\ order \in [status : {"none", "open", "filled", "cancelled"}, done : 0..Lot]
    /\ closes \in 0..MaxCloses
    /\ call \in [at : {"none", "market", "exit", "place", "wait", "cancel", "read", "flatten"}
                       \cup Answers,
                 seen : 0..Lot, attempt : 0..MAKER_ONLY_AGGRESSIVE_MAX_RETRIES]
    /\ mishaps \subseteq MishapKinds

===============================================================================
