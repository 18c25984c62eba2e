----------------------------- MODULE SessionTicks -----------------------------
(***************************************************************************)
(* The ticks that the trader session runs in its own process for every     *)
(* strategy but ma-crossover: one tick at a time decides, orders and       *)
(* updates what the session believes to hold.  funding-arb, longer-tf and  *)
(* bollinger-adx trade through executeTrade and persist a snapshot; the    *)
(* two-leg strategies and llm-managed keep their position in variables of  *)
(* runTrader; liquidation-cascade tries one symbol after the other.        *)
(*                                                                         *)
(* No tick ever looks the position up on the exchange.  An error that      *)
(* leaves runTrader's loop ends the session: "dead".  What a rule or the   *)
(* model decides is free; live trading only.                               *)
(***************************************************************************)
EXTENDS TradeExecution

CONSTANTS
    Strategies,   \* the ticks explored, a subset of StrategyNames
    MaxHeld       \* bound: units left over from earlier trades, either way

SingleLeg == {"funding-arb", "longer-tf", "bollinger-adx"}
TwoLegs == {"basis-arb", "calendar-spread", "pairs-trading"}
StrategyNames == SingleLeg \cup TwoLegs \cup {"liquidation-cascade", "llm-managed"}

ASSUME TicksAssumption == Strategies \subseteq StrategyNames /\ MaxHeld \in Nat

VARIABLES
    strategy,
    tick,      \* [at, leg]: where the tick is
    tracked,   \* units of each leg the session believes to hold
    hedge,     \* llm-managed: the symbol its hedge is on
    saved,     \* units of leg 1 in the snapshot
    told,      \* ghost: this tick has alerted the operator
    known      \* ghost: untracked units the operator was told of

session == <<strategy, tick, tracked, hedge, saved, told, known>>
vars == <<execution, session>>

-----------------------------------------------------------------------------
Cap == 2 * Lot   \* scale-in: twice llmManagedMaxNotionalUsd
Nothing == [leg \in Legs |-> 0]
Hedges == {"none", "own", "other"}

Untracked(leg) == IF held[leg] > tracked[leg] THEN held[leg] - tracked[leg] ELSE 0

Goes(at) == tick' = [tick EXCEPT !.at = at]
GoesTo(at, leg) == tick' = [at |-> at, leg |-> leg]

\* alerter.send: told to the operator.
Alerts(at) == Goes(at) /\ told' = TRUE
Quietly(at) == Goes(at) /\ UNCHANGED told

Decides(names) == tick.at = "decide" /\ strategy \in names

\* A decision: only the tick's place changes.
OnlyTick == UNCHANGED <<execution, strategy, tracked, hedge, saved, told, known>>

StartTick ==
    /\ tick.at = "idle"
    /\ \A leg \in Legs : held[leg] \in -MaxHeld..MaxHeld
    /\ GoesTo("decide", 1)
    /\ OnlyTick

EndTick ==
    /\ tick.at = "end"
    /\ Goes("idle")
    /\ known' = [leg \in Legs |-> IF told THEN Untracked(leg) ELSE Least(known[leg], Untracked(leg))]
    /\ told' = FALSE
    /\ UNCHANGED <<execution, strategy, tracked, hedge, saved>>

-----------------------------------------------------------------------------
(* Strategies that trade one leg through executeTrade.                     *)

\* The instrument, the ticker or the candles are missing, the rule holds, or
\* it asks to leave the position the session believes in or to enter one.
SingleLegDecides(names) ==
    /\ Decides(names)
    /\ \/ Goes("end")
       \/ tracked[1] > 0 /\ Goes("exit")
       \/ tracked[1] = 0 /\ Goes("enter")
    /\ OnlyTick

\* evaluateRisk, the smallest quantity and the order supervisor may stop it.
SingleLegEnters(names) ==
    /\ tick.at = "enter"
    /\ strategy \in names
    /\ \/ Goes("end") /\ UNCHANGED call
       \/ Goes("opening") /\ call' = EntryCall
    /\ UNCHANGED <<mode, held, order, closes, mishaps, strategy, tracked, hedge, saved, told, known>>

SingleLegExits(names) ==
    /\ tick.at = "exit"
    /\ strategy \in names
    /\ Goes("closing")
    /\ call' = [NoCall EXCEPT !.at = "exit"]
    /\ UNCHANGED <<mode, held, order, closes, mishaps, strategy, tracked, hedge, saved, told, known>>

\* executeTrade has answered: filled is believed, an unfilled close is not
\* waited for, an error ends the session.
Answered ==
    /\ tick.at \in {"opening", "closing"}
    /\ call.at \in Answers
    /\ call' = NoCall
    /\ LET opened == tick.at = "opening"
       IN  CASE call.at = "filled" ->
                  /\ tracked' = [tracked EXCEPT ![1] = IF opened THEN Lot ELSE 0]
                  /\ Goes(IF opened THEN "sync" ELSE "append")
             [] call.at = "unfilled" -> Goes("end") /\ UNCHANGED tracked
             [] OTHER -> Goes("dead") /\ UNCHANGED tracked
    /\ UNCHANGED <<mode, held, order, closes, mishaps, strategy, hedge, saved, told, known>>

\* positionLedger.appendClosedPosition; liquidation-cascade syncs no snapshot.
AppendClosed ==
    /\ tick.at = "append"
    /\ \/ Goes(IF strategy = "liquidation-cascade" THEN "end" ELSE "sync") /\ UNCHANGED mishaps
       \/ Goes("dead") /\ Mishap("write")
    /\ UNCHANGED <<mode, held, order, closes, call, strategy, tracked, hedge, saved, told, known>>

\* Mutant: only entries are saved.
SyncEntriesOnly ==
    /\ tick.at = "sync"
    /\ saved' = IF strategy \in SingleLeg /\ tracked[1] > 0 THEN tracked[1] ELSE saved
    /\ Goes("end")
    /\ UNCHANGED <<execution, strategy, tracked, hedge, told, known>>

\* positionLedger.syncSnapshot: the snapshot holds state.position, which the
\* two-leg strategies and llm-managed leave null.
SyncSnapshot ==
    /\ tick.at = "sync"
    /\ \/ /\ saved' = IF strategy \in SingleLeg THEN tracked[1] ELSE 0
          /\ Goes("end")
          /\ UNCHANGED mishaps
       \/ Goes("dead") /\ Mishap("write") /\ UNCHANGED saved
    /\ UNCHANGED <<mode, held, order, closes, call, strategy, tracked, hedge, told, known>>

AltDecide == SingleLegDecides({"funding-arb", "longer-tf"})
AltExit == SingleLegExits({"funding-arb", "longer-tf"})
AltEntry == SingleLegEnters({"funding-arb", "longer-tf"})
BollingerDecide == SingleLegDecides({"bollinger-adx"})
BollingerExit == SingleLegExits({"bollinger-adx"})
BollingerEntry == SingleLegEnters({"bollinger-adx"})

-----------------------------------------------------------------------------
(* Strategies of two legs, each leg one market order.                      *)

TwoLegDecides(name) ==
    /\ Decides({name})
    /\ \/ Goes("end")
       \/ tracked = Nothing /\ Goes("leg1")
       \/ tracked # Nothing /\ Goes("close1")
    /\ OnlyTick

\* Mutant: a failed second leg is only logged.
TwoLegEntersUncompensated(name) ==
    /\ strategy = name
    /\ \/ tick.at = "leg1" /\ Order(1, Lot, Quietly("leg2"), Alerts("end")) /\ UNCHANGED tracked
       \/ /\ tick.at = "leg2"
          /\ Order(2, Lot, Quietly("end") /\ tracked' = [leg \in Legs |-> Lot],
                   Quietly("end") /\ UNCHANGED tracked)
    /\ UNCHANGED <<mode, order, closes, call, strategy, hedge, saved, known>>

\* The first leg, the second, and one attempt to take the first back.
TwoLegEnters(name) ==
    /\ strategy = name
    /\ \/ tick.at = "leg1" /\ Order(1, Lot, Quietly("leg2"), Alerts("end")) /\ UNCHANGED tracked
       \/ /\ tick.at = "leg2"
          /\ Order(2, Lot, Quietly("end") /\ tracked' = [leg \in Legs |-> Lot],
                   Quietly("compensate") /\ UNCHANGED tracked)
       \/ tick.at = "compensate" /\ Reduce(1, Lot, Alerts("end"), Alerts("end")) /\ UNCHANGED tracked
    /\ UNCHANGED <<mode, order, closes, call, strategy, hedge, saved, known>>

\* Each leg is tried once; a failure is told and the trade is over anyway.
\* Spot orders know no reduceOnly.
TwoLegExits(name, reduceOnly2) ==
    /\ strategy = name
    /\ \/ tick.at = "close1" /\ Reduce(1, Lot, Quietly("close2"), Alerts("close2")) /\ UNCHANGED tracked
       \/ /\ tick.at = "close2"
          /\ IF reduceOnly2 THEN Reduce(2, Lot, Quietly("append"), Alerts("append"))
             ELSE Order(2, -Lot, Quietly("append"), Alerts("append"))
          /\ tracked' = Nothing
    /\ UNCHANGED <<mode, order, closes, call, strategy, hedge, saved, known>>

BasisDecide == TwoLegDecides("basis-arb")
BasisEntry == TwoLegEnters("basis-arb")
BasisExit == TwoLegExits("basis-arb", FALSE)
CalendarDecide == TwoLegDecides("calendar-spread")
CalendarEntry == TwoLegEnters("calendar-spread")
CalendarExit == TwoLegExits("calendar-spread", TRUE)
PairsDecide == TwoLegDecides("pairs-trading")
PairsEntry == TwoLegEnters("pairs-trading")
PairsExit == TwoLegExits("pairs-trading", TRUE)

-----------------------------------------------------------------------------
(* liquidation-cascade: the legs are its allowed symbols.                  *)

Next2(leg) == IF leg = 1 THEN [at |-> "decide", leg |-> 2] ELSE [at |-> "end", leg |-> 1]

\* A symbol that passes no check is left for the next one, and so is one
\* whose order fails, after an alert.
CascadeEntry ==
    /\ Decides({"liquidation-cascade"})
    /\ tracked = Nothing
    /\ \/ tick' = Next2(tick.leg) /\ UNCHANGED <<held, mishaps, tracked, told>>
       \/ Order(tick.leg, Lot,
                Quietly("end") /\ tracked' = [tracked EXCEPT ![tick.leg] = Lot],
                tick' = Next2(tick.leg) /\ told' = TRUE /\ UNCHANGED tracked)
    /\ UNCHANGED <<mode, order, closes, call, strategy, hedge, saved, known>>

\* No ticker or no reason: held.
CascadeHold ==
    /\ Decides({"liquidation-cascade"})
    /\ tracked # Nothing
    /\ Goes("end") \/ Goes("close")
    /\ OnlyTick

CascadeClose ==
    /\ tick.at = "close"
    /\ strategy = "liquidation-cascade"
    /\ \E leg \in Legs :
          /\ tracked[leg] > 0
          /\ Reduce(leg, Lot, Quietly("append") /\ tracked' = [tracked EXCEPT ![leg] = 0],
                    Alerts("end") /\ UNCHANGED tracked)
    /\ UNCHANGED <<mode, order, closes, call, strategy, hedge, saved, known>>

-----------------------------------------------------------------------------
(* llm-managed: leg 1 is its symbol, leg 2 another one a hedge may be on.  *)

\* Cooldown, throttle, an answer that names no allowed symbol, no ticker.
LlmHold ==
    /\ Decides({"llm-managed"})
    /\ Goes("end")
    /\ OnlyTick

LlmOpen ==
    /\ Decides({"llm-managed"})
    /\ tracked[1] = 0
    /\ Order(1, Lot, Quietly("end") /\ tracked' = [tracked EXCEPT ![1] = Lot],
             Alerts("end") /\ UNCHANGED tracked)
    /\ UNCHANGED <<mode, order, closes, call, strategy, hedge, saved, known>>

\* A close of everything forgets the hedge; a slice keeps it.
LlmClose ==
    /\ Decides({"llm-managed"})
    /\ \E qty \in 1..tracked[1] :
          Reduce(1, qty,
                 /\ Quietly("append")
                 /\ tracked' = [tracked EXCEPT ![1] = @ - qty, ![2] = IF qty = tracked[1] THEN 0 ELSE @]
                 /\ hedge' = IF qty = tracked[1] THEN "none" ELSE hedge,
                 Alerts("end") /\ UNCHANGED <<tracked, hedge>>)
    /\ UNCHANGED <<mode, order, closes, call, strategy, saved, known>>

\* On the own symbol the order nets with the position.
LlmOpenHedge ==
    /\ Decides({"llm-managed"})
    /\ tracked[1] > 0
    /\ hedge = "none"
    /\ \/ Order(1, -1, Quietly("end") /\ hedge' = "own" /\ UNCHANGED tracked,
                Alerts("end") /\ UNCHANGED <<tracked, hedge>>)
       \/ Order(2, 1, Quietly("end") /\ hedge' = "other" /\ tracked' = [tracked EXCEPT ![2] = 1],
                Alerts("end") /\ UNCHANGED <<tracked, hedge>>)
    /\ UNCHANGED <<mode, order, closes, call, strategy, saved, known>>

\* A reduce-only order: on the own symbol the position stands the wrong way.
LlmCloseHedge ==
    /\ Decides({"llm-managed"})
    /\ tracked[1] > 0
    /\ hedge # "none"
    /\ IF hedge = "own" THEN UNCHANGED <<held, mishaps, tracked, hedge>> /\ Alerts("end")
       ELSE Reduce(2, 1, Quietly("end") /\ hedge' = "none" /\ tracked' = [tracked EXCEPT ![2] = 0],
                   Alerts("end") /\ UNCHANGED <<tracked, hedge>>)
    /\ UNCHANGED <<mode, order, closes, call, strategy, saved, known>>

LlmScaleIn ==
    /\ Decides({"llm-managed"})
    /\ tracked[1] > 0
    /\ tracked[1] + 1 <= Cap
    /\ Order(1, 1, Quietly("end") /\ tracked' = [tracked EXCEPT ![1] = @ + 1],
             Alerts("end") /\ UNCHANGED tracked)
    /\ UNCHANGED <<mode, order, closes, call, strategy, hedge, saved, known>>

-----------------------------------------------------------------------------
\* Liquidation or a manual close of a position the session tracks; the
\* closes that rest are gone with it.
NativeExit ==
    /\ tick.at = "idle"
    /\ \E leg \in Legs :
          /\ tracked[leg] > 0
          /\ held[leg] > 0
          /\ held' = [held EXCEPT ![leg] = 0]
          /\ closes' = IF leg = 1 THEN 0 ELSE closes
    /\ UNCHANGED <<mode, order, call, mishaps, session>>

Init ==
    /\ ExecutionInit
    /\ strategy \in Strategies
    /\ strategy \notin SingleLeg => mode = "taker"   \* the others never read it
    /\ tick = [at |-> "idle", leg |-> 1]
    /\ tracked = Nothing /\ known = Nothing
    /\ hedge = "none"
    /\ saved = 0
    /\ told = FALSE

SingleLegTick ==
    \/ AltDecide \/ AltExit \/ AltEntry
    \/ BollingerDecide \/ BollingerExit \/ BollingerEntry
    \/ Answered

TwoLegTick ==
    \/ BasisDecide \/ BasisEntry \/ BasisExit
    \/ CalendarDecide \/ CalendarEntry \/ CalendarExit
    \/ PairsDecide \/ PairsEntry \/ PairsExit

CascadeTick == CascadeEntry \/ CascadeHold \/ CascadeClose

LlmTick ==
    \/ LlmHold \/ LlmOpen \/ LlmClose
    \/ LlmOpenHedge \/ LlmCloseHedge \/ LlmScaleIn

Next ==
    \/ StartTick \/ EndTick
    \/ SingleLegTick \/ TwoLegTick \/ CascadeTick \/ LlmTick
    \/ AppendClosed \/ SyncSnapshot
    \/ (ExecuteTrade \/ Book) /\ UNCHANGED session
    \/ NativeExit

Spec == Init /\ [][Next]_vars

-----------------------------------------------------------------------------
(* Properties.                                                             *)

\* Every variable keeps its type; additions stay within the cap.
TypeOK ==
    /\ ExecutionTypeOK
    /\ strategy \in Strategies
    /\ tick \in [at : {"idle", "decide", "enter", "exit", "opening", "closing", "leg1", "leg2",
                       "compensate", "close1", "close2", "close", "append", "sync", "end", "dead"},
                 leg : Legs]
    /\ tracked \in [Legs -> 0..Cap]
    /\ hedge \in Hedges
    /\ saved \in 0..Lot
    /\ told \in BOOLEAN
    /\ known \in [Legs -> Nat]

\* What executeTrade answers is what the exchange holds: one whole entry when
\* it says filled, nothing when it says an entry is unfilled, nothing after a
\* filled close - whatever the limit order did between a poll, the cancel and
\* the read-back, over all retries and the fallback.  Only a read-back that
\* does not find the order may make it wrong.
AnswerIsTrue ==
    call.at \in {"filled", "unfilled"} /\ "stale" \notin mishaps =>
        /\ tick.at = "opening" => held[1] = (IF call.at = "filled" THEN Lot ELSE 0)
        /\ tick.at = "closing" /\ call.at = "filled" => held[1] = 0

\* Between two ticks of a living session, units the exchange holds and the
\* session does not track are units the operator was told of, and a restart
\* of a strategy that saves its position would find the position it has now.
\* A hedge that a full close forgets is the exception.
NothingForgotten ==
    tick.at = "idle" /\ "stale" \notin mishaps =>
        /\ \A leg \in Legs : Untracked(leg) <= known[leg] \/ <<strategy, leg>> = <<"llm-managed", 2>>
        /\ strategy \in SingleLeg => saved = tracked[1]

===============================================================================
