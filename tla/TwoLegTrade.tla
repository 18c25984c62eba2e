---------------------------- MODULE TwoLegTrade ----------------------------
(***************************************************************************)
(* One trade of a two-leg strategy (basis-arb, pairs-trading, calendar-    *)
(* spread) in the worker: the open processor or pipeline adapter that opens *)
(* one leg after the other and compensates the first when the second fails, *)
(* and the manage job that reconciles the legs and closes them one after   *)
(* the other.  leg1 is the perp (or pairs leg1), leg2 the spot, dated or   *)
(* pairs leg2 contract.  One tick runs at a time; overlapping ticks are    *)
(* explored in TradePipeline.                                              *)
(*                                                                         *)
(* Sizes are counted in the direction of the entry.  Every order is one    *)
(* step with an outcome that OrderOutcomes allows.                         *)
(***************************************************************************)
EXTENDS OrderOutcomes

CONSTANTS
    Strategies,   \* the trades explored, a subset of StrategyNames
    MaxCrashes    \* bound: deaths of the worker process

StrategyNames == {"basis-arb", "basis-arb-maker", "pairs-trading",
                  "calendar-open", "calendar-adapter", "calendar-maker"}

ASSUME TradeAssumption ==
    /\ Strategies \subseteq StrategyNames
    /\ MaxCrashes \in Nat

VARIABLES
    strategy,
    size,      \* units of a leg the exchange holds
    resting,   \* units of an entry order left in the book
    job,       \* [at, leg, tries]: where the open or manage processor is
    failedClose,   \* decisionsHistory has a "close-attempt-failed"
    recorded,  \* the trade is in the ledger
    alerted,   \* the operator was told that a leg of this trade needs attention
    mishaps,   \* what went wrong so far: "lost", "native", "add", "crash"
    crashes

vars == <<strategy, size, resting, job, failedClose, recorded, alerted,
          mishaps, crashes>>

-----------------------------------------------------------------------------
(* How the strategies differ.                                              *)

Legs == {"leg1", "leg2"}
Other(leg) == IF leg = "leg1" THEN "leg2" ELSE "leg1"

\* The calendar adapter opens the dated leg first.
FirstOpened == IF strategy \in {"calendar-adapter", "calendar-maker"}
               THEN "leg2" ELSE "leg1"

EntryMode == CASE strategy = "basis-arb-maker" -> "maker-or-taker"
               [] strategy = "calendar-maker"  -> "maker"
               [] OTHER -> "market"

BasisArb == {"basis-arb", "basis-arb-maker"}

Compensations == IF strategy \in BasisArb THEN 3 ELSE 1

\* The spot leg is not looked up, and spot orders know no reduceOnly.
Watched == IF strategy \in BasisArb THEN {"leg1"} ELSE Legs
ReduceOnly(leg) == leg = "leg1" \/ strategy \notin BasisArb

CloseTries == IF strategy \in BasisArb THEN 3 ELSE 1

\* The calendar perp is closed maker-first.
CloseMode(leg) ==
    IF leg = "leg1" /\ strategy \in {"calendar-open", "calendar-adapter", "calendar-maker"}
    THEN "maker-or-taker" ELSE "market"

-----------------------------------------------------------------------------
(* Orders.                                                                 *)

Request(mode, reduceOnly, leg) ==
    [mode |-> mode, reduceOnly |-> reduceOnly, held |-> size[leg]]

Lost(o) == IF o.answer = "failed" /\ o.filled > 0 THEN mishaps \cup {"lost"}
           ELSE mishaps

Go(at, leg, tries) == job' = [at |-> at, leg |-> leg, tries |-> tries]
Sleep == Go("sleeping", "leg1", 0)
Over == Go("over", "leg1", 0)

-----------------------------------------------------------------------------
(* The open processor or adapter, behind the gate.                         *)

\* Mutant: a failed second leg is not compensated.
OpenLegUncompensated ==
    /\ job.at = "open"
    /\ \E o \in Outcomes(Request(EntryMode, FALSE, job.leg)) :
          /\ size' = [size EXCEPT ![job.leg] = @ + o.filled]
          /\ resting' = [resting EXCEPT ![job.leg] = @ + o.resting]
          /\ mishaps' = Lost(o)
          /\ \/ job.leg # FirstOpened /\ Go("enqueue", "leg1", 0)
             \/ o.answer = "ok" /\ job.leg = FirstOpened /\ Go("open", Other(job.leg), 0)
             \/ o.answer = "failed" /\ job.leg = FirstOpened /\ Over
    /\ UNCHANGED <<strategy, failedClose, recorded, alerted, crashes>>

\* A failed first leg ends the attempt, a failed second one is compensated.
OpenLeg ==
    /\ job.at = "open"
    /\ \E o \in Outcomes(Request(EntryMode, FALSE, job.leg)) :
          /\ size' = [size EXCEPT ![job.leg] = @ + o.filled]
          /\ resting' = [resting EXCEPT ![job.leg] = @ + o.resting]
          /\ mishaps' = Lost(o)
          /\ \/ o.answer = "ok" /\ job.leg = FirstOpened /\ Go("open", Other(job.leg), 0)
             \/ o.answer = "ok" /\ job.leg # FirstOpened /\ Go("enqueue", "leg1", 0)
             \/ o.answer = "failed" /\ job.leg = FirstOpened /\ Over
             \/ o.answer = "failed" /\ job.leg # FirstOpened /\ Go("compensate", FirstOpened, 0)
    /\ UNCHANGED <<strategy, failedClose, recorded, alerted, crashes>>

\* Mutant: one attempt too many.
CompensateOnceMore ==
    /\ job.at = "compensate"
    /\ \E o \in Outcomes(Request("market", TRUE, job.leg)) :
          /\ size' = [size EXCEPT ![job.leg] = @ - o.filled]
          /\ mishaps' = Lost(o)
          /\ IF o.answer = "failed" /\ job.tries < Compensations
             THEN Go("compensate", job.leg, job.tries + 1) /\ UNCHANGED alerted
             ELSE Over /\ alerted' = (alerted \/ o.answer = "failed")
    /\ UNCHANGED <<strategy, resting, failedClose, recorded, crashes>>

\* Mutant: a compensation that is given up is not told.
CompensateSilently ==
    /\ job.at = "compensate"
    /\ \E o \in Outcomes(Request("market", TRUE, job.leg)) :
          /\ size' = [size EXCEPT ![job.leg] = @ - o.filled]
          /\ mishaps' = Lost(o)
          /\ IF o.answer = "failed" /\ job.tries + 1 < Compensations
             THEN Go("compensate", job.leg, job.tries + 1)
             ELSE Over
    /\ UNCHANGED <<strategy, resting, failedClose, recorded, alerted, crashes>>

\* The last failed attempt is alerted; either way no manage job is added.
Compensate ==
    /\ job.at = "compensate"
    /\ \E o \in Outcomes(Request("market", TRUE, job.leg)) :
          /\ size' = [size EXCEPT ![job.leg] = @ - o.filled]
          /\ mishaps' = Lost(o)
          /\ IF o.answer = "failed" /\ job.tries + 1 < Compensations
             THEN Go("compensate", job.leg, job.tries + 1) /\ UNCHANGED alerted
             ELSE Over /\ alerted' = (alerted \/ o.answer = "failed")
    /\ UNCHANGED <<strategy, resting, failedClose, recorded, crashes>>

\* manageQueue.add; when it fails both legs are left without a manager.
EnqueueManage ==
    /\ job.at = "enqueue"
    /\ \/ Sleep /\ UNCHANGED mishaps
       \/ Over /\ mishaps' = mishaps \cup {"add"}
    /\ UNCHANGED <<strategy, size, resting, failedClose, recorded, alerted, crashes>>

-----------------------------------------------------------------------------
(* A tick of the manage processor.                                         *)

Wake ==
    /\ job.at = "sleeping"
    /\ Go("reconcile", "leg1", 0)
    /\ UNCHANGED <<strategy, size, resting, failedClose, recorded, alerted,
                   mishaps, crashes>>

Missing == \E leg \in Watched : size[leg] = 0

\* Mutant: only a trade with no leg left counts as closed.
ReconcileAllMissing ==
    /\ job.at = "reconcile"
    /\ IF \A leg \in Watched : size[leg] = 0
       THEN Over /\ recorded' = TRUE /\ alerted' = TRUE
       ELSE Go("decide", "leg1", 0) /\ UNCHANGED <<recorded, alerted>>
    /\ UNCHANGED <<strategy, size, resting, failedClose, mishaps, crashes>>

\* Any watched leg missing: the trade is recorded as closed elsewhere and the
\* job completes.  A failed read is caught and the tick goes on.
Reconcile ==
    /\ job.at = "reconcile"
    /\ \/ Missing /\ Over /\ recorded' = TRUE /\ alerted' = TRUE
       \/ Go("decide", "leg1", 0) /\ UNCHANGED <<recorded, alerted>>
    /\ UNCHANGED <<strategy, size, resting, failedClose, mishaps, crashes>>

\* Hold, or no tickers: "continue".
Decide ==
    /\ job.at = "decide"
    /\ Sleep \/ Go("close", "leg1", 0)
    /\ UNCHANGED <<strategy, size, resting, failedClose, recorded, alerted,
                   mishaps, crashes>>

\* Mutant: the orders that close a leg are plain orders.
CloseLegPlain ==
    /\ job.at = "close"
    /\ \E o \in Outcomes(Request(CloseMode(job.leg), FALSE, job.leg)) :
          /\ size' = [size EXCEPT ![job.leg] = @ - o.filled]
          /\ mishaps' = Lost(o)
          /\ IF o.answer = "failed" THEN Sleep
             ELSE IF job.leg = "leg1" THEN Go("close", "leg2", 0)
             ELSE Go("settle", "leg1", 0)
          /\ failedClose' = (failedClose \/ o.answer = "failed")
          /\ alerted' = (alerted \/ o.answer = "failed")
    /\ UNCHANGED <<strategy, resting, recorded, crashes>>

\* Mutant: a leg that could not be closed does not end the tick.
CloseLegGoesOn ==
    /\ job.at = "close"
    /\ \E o \in Outcomes(Request(CloseMode(job.leg), ReduceOnly(job.leg), job.leg)) :
          /\ size' = [size EXCEPT ![job.leg] = @ - o.filled]
          /\ mishaps' = Lost(o)
          /\ IF job.leg = "leg1" THEN Go("close", "leg2", 0)
             ELSE Go("settle", "leg1", 0)
    /\ UNCHANGED <<strategy, resting, failedClose, recorded, alerted, crashes>>

\* A leg whose attempts all fail ends the tick with "continue".
CloseLeg ==
    /\ job.at = "close"
    /\ \E o \in Outcomes(Request(CloseMode(job.leg), ReduceOnly(job.leg), job.leg)) :
          /\ size' = [size EXCEPT ![job.leg] = @ - o.filled]
          /\ mishaps' = Lost(o)
          /\ \/ /\ o.answer = "ok"
                /\ IF job.leg = "leg1" THEN Go("close", "leg2", 0)
                   ELSE Go("settle", "leg1", 0)
                /\ UNCHANGED <<failedClose, alerted>>
             \/ /\ o.answer = "failed" /\ job.tries + 1 < CloseTries
                /\ Go("close", job.leg, job.tries + 1)
                /\ UNCHANGED <<failedClose, alerted>>
             \/ /\ o.answer = "failed" /\ job.tries + 1 >= CloseTries
                /\ Sleep
                /\ failedClose' = TRUE
                /\ alerted' = TRUE
    /\ UNCHANGED <<strategy, resting, recorded, crashes>>

\* appendClosedPosition, setLastTradeAt, complete.
Settle ==
    /\ job.at = "settle"
    /\ recorded' = TRUE
    /\ Over
    /\ UNCHANGED <<strategy, size, resting, failedClose, alerted, mishaps, crashes>>

-----------------------------------------------------------------------------
(* The exchange and the worker process.                                    *)

\* A unit of an entry order left in the book is filled or cancelled.
LateFill(leg) ==
    /\ resting[leg] > 0
    /\ resting' = [resting EXCEPT ![leg] = @ - 1]
    /\ \/ size' = [size EXCEPT ![leg] = @ + 1]
       \/ UNCHANGED size
    /\ UNCHANGED <<strategy, job, failedClose, recorded, alerted, mishaps, crashes>>

\* Stop on one leg, liquidation, delivery or a manual close; a reduce-only
\* close left in the book by an earlier tick that fills now looks the same.
NativeExit(leg) ==
    /\ job.at # "over"
    /\ ReduceOnly(leg)
    /\ size[leg] > 0
    /\ size' = [size EXCEPT ![leg] = 0]
    /\ mishaps' = mishaps \cup {"native"}
    /\ UNCHANGED <<strategy, resting, job, failedClose, recorded, alerted, crashes>>

\* An interrupted attempt to open is repeated, by the stalled intent or the
\* next open tick: no manage job closes the gate.
Crash ==
    /\ crashes < MaxCrashes
    /\ job.at # "over"
    /\ crashes' = crashes + 1
    /\ mishaps' = mishaps \cup {"crash"}
    /\ IF job.at \in {"open", "compensate", "enqueue"}
       THEN Go("open", FirstOpened, 0) ELSE Sleep
    /\ UNCHANGED <<strategy, size, resting, failedClose, recorded, alerted>>

-----------------------------------------------------------------------------
Init ==
    /\ strategy \in Strategies
    /\ size = [leg \in Legs |-> 0]
    /\ resting = [leg \in Legs |-> 0]
    /\ job = [at |-> "open", leg |-> FirstOpened, tries |-> 0]
    /\ failedClose = FALSE
    /\ recorded = FALSE
    /\ alerted = FALSE
    /\ mishaps = {}
    /\ crashes = 0

Open == OpenLeg \/ Compensate \/ EnqueueManage
Manage == Wake \/ Reconcile \/ Decide \/ CloseLeg \/ Settle

Next ==
    \/ Open
    \/ Manage
    \/ \E leg \in Legs : LateFill(leg) \/ NativeExit(leg)
    \/ Crash

Spec == Init /\ [][Next]_vars

-----------------------------------------------------------------------------
(* Properties.                                                             *)

Managed == job.at \in {"sleeping", "reconcile", "decide"}

\* Every variable keeps its type.
TypeOK ==
    /\ strategy \in Strategies
    /\ size \in [Legs -> Int]
    /\ resting \in [Legs -> Nat]
    /\ job \in [at : {"open", "compensate", "enqueue", "sleeping", "reconcile",
                      "decide", "close", "settle", "over"},
                leg : Legs, tries : 0..2]
    /\ failedClose \in BOOLEAN
    /\ recorded \in BOOLEAN
    /\ alerted \in BOOLEAN
    /\ mishaps \subseteq {"lost", "native", "add", "crash"}
    /\ crashes \in 0..MaxCrashes

\* A trade is given to a manager only with both legs open: until a close is
\* tried, the exchange intervenes or the worker dies, each leg has at least
\* its size, and exactly its size when the entry is a market order.
BothLegsManaged ==
    Managed /\ ~failedClose /\ mishaps \subseteq {"lost"} =>
        \A leg \in Legs : /\ size[leg] >= Full
                          /\ EntryMode = "market" => size[leg] = Full

\* With market entries, whichever orders are rejected and in whatever order
\* the exchange closes legs, a trade is settled with its profit only when both
\* legs are closed, and one that is over with its legs unequal has raised an
\* alert: compensation failed, close failed or external close.
NakedIsAlerted ==
    EntryMode = "market" /\ mishaps \subseteq {"native"} =>
        /\ job.at = "settle" => \A leg \in Legs : size[leg] = 0
        /\ job.at = "over" => size["leg1"] = size["leg2"] \/ alerted

\* No order of the trade, retried, answered or lost, and no order that still
\* rests in the book, turns a leg round, except the spot leg's closes.
ClosesNeverFlip == \A leg \in Legs : ReduceOnly(leg) => size[leg] >= 0

\* A managed trade that lost a leg it watches does not go on as if hedged.
MissingLegNoticed == (Managed /\ Missing) ~> (~Managed \/ ~Missing)

\* "Any missing -> close both, ledger, complete": a trade recorded as closed
\* has no open leg.
MissingClosesBoth ==
    recorded /\ EntryMode = "market" /\ mishaps \subseteq {"native"} =>
        \A leg \in Legs : size[leg] = 0

=============================================================================
