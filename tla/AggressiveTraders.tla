-------------------------- MODULE AggressiveTraders --------------------------
(***************************************************************************)
(* The aggressive subsystem of the worker: two evaluators (liquidation-    *)
(* hunter and pump-scanner) that share one manage queue, one ledger and    *)
(* one hash per day in Redis, and the manage worker that closes positions  *)
(* at their stop, target or maximum age.  Each action is one await.        *)
(*                                                                         *)
(* The two evaluators order different sizes; every trade enters at price   *)
(* 0.  What the map, the scanner and the language model decide is left     *)
(* free: each may or may not produce an intent.  BullMQ adds the next      *)
(* iteration of a schedule when it hands one out, and one runs at a time.  *)
(***************************************************************************)
EXTENDS AggressiveGuards, SequencesExt

CONSTANTS
    Intents,       \* the entries explored: set of [by, symbol, side, size]
    Limits,        \* the configured guard limits
    StartEquity,   \* startingEquityUsd
    Prices,        \* the prices explored, next to the entry's
    LedgerLimit,   \* entries the ledger keeps
    Trades,        \* bound: identities of the entries explored
    MaxDays,       \* bound: midnights explored
    MaxEntries,    \* bound: entries written to the ledger
    MaxMishaps     \* bound: kinds of failures in one behaviour, each once

Evaluators == {"hunter", "pump"}

ASSUME AggressiveAssumption ==
    /\ \A intent \in Intents : /\ intent.by \in Evaluators
                               /\ intent.side \in {"long", "short"}
                               /\ intent.size \in Nat
    /\ Limits.maxTrades \in Int
    /\ StartEquity \in Int
    /\ Prices \subseteq Int
    /\ LedgerLimit \in Nat
    /\ IsFiniteSet(Trades)
    /\ MaxDays \in Nat
    /\ MaxEntries \in Nat
    /\ MaxMishaps \in Nat

VARIABLES
    paper,     \* paperTrading
    today,     \* midnights since the start
    days,      \* the day hashes: [seeded, start, pnl, trades], seeded when start is set
    ledger,    \* profits of the entries in the ledger, newest first
    position,  \* signed units the exchange holds, by symbol
    jobs,      \* the manage job of each trade: [intent, repeats, queued]
    eval,      \* the evaluate job of each evaluator
    manage,    \* the manage iteration that runs: [at, trade, price]
    ordered,   \* ghost: entry orders by the day their guard has seen
    realised,  \* ghost: all ledger entries ever written: [entries, trimmed, pnl]
    overwritten,   \* ghost: seeding a day erased something recorded
    mishaps    \* ghost: kinds of failures that have happened

vars == <<paper, today, days, ledger, position, jobs, eval, manage, ordered,
          realised, overwritten, mishaps>>

-----------------------------------------------------------------------------
Symbols == {intent.symbol : intent \in Intents}
Sides == {"long", "short"}

Sum(amounts) == FoldFunction(+, 0, amounts)

\* createPaperEquityTracker: the starting equity and whatever the ledger holds.
Equity == StartEquity + Sum(ledger)

NoIntent == [by |-> "nobody", symbol |-> "none", side |-> "long", size |-> 0]
Resting == [at |-> "idle", equity |-> 0, day |-> 0, intent |-> NoIntent]
ManagerResting == [at |-> "idle", trade |-> "none", price |-> 0]
NoJob == [intent |-> NoIntent, repeats |-> FALSE, queued |-> {}]

\* An entry without a manager, a trade not counted, a ledger entry or a profit
\* not written, a schedule not removed, a close refused or its answer lost, a
\* death.
MishapKinds == {"entry", "count", "append", "daily", "remove", "refused", "crash"}

Mishap(kind) ==
    /\ kind \notin mishaps
    /\ Cardinality(mishaps) < MaxMishaps
    /\ mishaps' = mishaps \cup {kind}

Becomes(e, at) == eval' = [eval EXCEPT ![e].at = at]
Ordered(e) == eval' = [eval EXCEPT ![e] = [@ EXCEPT !.at = "enqueue", !.day = 0]]
Ends(e) == eval' = [eval EXCEPT ![e] = Resting]

-----------------------------------------------------------------------------
(* An evaluate tick.                                                       *)

\* The one-position gate counts the delayed, the active and the waiting manage
\* jobs one after the other; any job ends the tick.
Count(e, from, found, to) ==
    /\ eval[e].at = from
    /\ IF found THEN Ends(e) ELSE Becomes(e, to)
    /\ UNCHANGED <<paper, today, days, ledger, position, jobs, manage, ordered,
                   realised, overwritten, mishaps>>

CountDelayed(e) == Count(e, "idle", \E t \in Trades : "delayed" \in jobs[t].queued, "active")
CountActive(e) == Count(e, "active", manage.at # "idle", "waiting")
CountWaiting(e) ==
    Count(e, "waiting", \E t \in Trades : jobs[t].queued \cap {"waiting", "stalled"} # {}, "decide")

Gate(e) == CountDelayed(e) \/ CountActive(e) \/ CountWaiting(e)

\* The guards let the tick order, or end it.  A missing instrument or a
\* quantity below the minimum also ends it.
Guarded(e, hash, equity, intent, day) ==
    \/ /\ GuardsAllow([start |-> hash.start, pnl |-> hash.pnl, trades |-> hash.trades,
                       equity |-> equity], Limits)
       /\ eval' = [eval EXCEPT ![e] = [Resting EXCEPT !.at = "order", !.day = day,
                                                      !.intent = intent]]
    \/ Ends(e)

\* Seconds later: no intent from the map, the scan or the model, or one.  It
\* is checked against the equity and the hash of the day; a day that has no
\* start equity is seeded first.
DecideEntry(e) ==
    /\ eval[e].at = "decide"
    /\ \/ Ends(e)
       \/ \E intent \in Intents :
             /\ intent.by = e
             /\ \/ days[today].seeded /\ Guarded(e, days[today], Equity, intent, today)
                \/ /\ ~days[today].seeded
                   /\ eval' = [eval EXCEPT ![e] = [at |-> "seed", equity |-> Equity, day |-> today,
                                                   intent |-> intent]]
    /\ UNCHANGED <<paper, today, days, ledger, position, jobs, manage, ordered,
                   realised, overwritten, mishaps>>

\* The first touch of a day: three writes to the hash whose key was taken
\* before the read, whatever has been added to it in between.
SeedDay(e) ==
    /\ eval[e].at = "seed"
    /\ LET day == eval[e].day
           seeded == [seeded |-> TRUE, start |-> eval[e].equity, pnl |-> 0, trades |-> 0]
       IN  /\ days' = [days EXCEPT ![day] = seeded]
           /\ overwritten' = (overwritten \/ days[day].pnl # 0 \/ days[day].trades # 0)
           /\ Guarded(e, seeded, eval[e].equity, eval[e].intent, day)
    /\ UNCHANGED <<paper, today, ledger, position, jobs, manage, ordered,
                   realised, mishaps>>

\* placeAggressiveEntry sends the order: executed, rejected, or executed with
\* the answer lost.  On paper nothing is sent.
PlaceOrder(e) ==
    /\ eval[e].at = "order"
    /\ Sum(ordered) < Cardinality(Trades)
    /\ LET intent == eval[e].intent
           executed == [position EXCEPT ![intent.symbol] = @ + Sign(intent.side) * intent.size]
       IN  \/ paper /\ Ordered(e) /\ UNCHANGED <<position, mishaps>>
           \/ ~paper /\ position' = executed /\ Ordered(e) /\ UNCHANGED mishaps
           \/ ~paper /\ Mishap("entry") /\ Ends(e) /\ position' \in {position, executed}
    /\ ordered' = [ordered EXCEPT ![eval[e].day] = @ + 1]
    /\ UNCHANGED <<paper, today, days, ledger, jobs, manage, realised, overwritten>>

\* manageQueue.add; when it fails the position has no manager.
EnqueueManage(e) ==
    /\ eval[e].at = "enqueue"
    /\ \/ /\ \E t \in Trades :
              /\ jobs[t] = NoJob
              /\ jobs' = [jobs EXCEPT ![t] = [intent |-> eval[e].intent, repeats |-> TRUE,
                                             queued |-> {"delayed"}]]
          /\ eval' = [eval EXCEPT ![e] = [Resting EXCEPT !.at = "count"]]
          /\ UNCHANGED mishaps
       \/ Mishap("entry") /\ Ends(e) /\ UNCHANGED jobs
    /\ UNCHANGED <<paper, today, days, ledger, position, manage, ordered, realised,
                   overwritten>>

\* recordTradeOpened: HINCRBY on the hash of the day it is now.
RecordTradeOpened(e) ==
    /\ eval[e].at = "count"
    /\ \/ days' = [days EXCEPT ![today].trades = @ + 1] /\ UNCHANGED mishaps
       \/ Mishap("count") /\ UNCHANGED days
    /\ Ends(e)
    /\ UNCHANGED <<paper, today, ledger, position, jobs, manage, ordered,
                   realised, overwritten>>

-----------------------------------------------------------------------------
(* BullMQ hands out the iterations of the manage jobs, one at a time.      *)

\* The delay of a queued iteration is over.
Promote(t) ==
    /\ "delayed" \in jobs[t].queued
    /\ jobs' = [jobs EXCEPT ![t].queued = (@ \ {"delayed"}) \cup {"waiting"}]
    /\ UNCHANGED <<paper, today, days, ledger, position, eval, manage, ordered,
                   realised, overwritten, mishaps>>

Pick(t) ==
    /\ manage.at = "idle"
    /\ \E place \in jobs[t].queued \cap {"waiting", "stalled"} :
          jobs' = [jobs EXCEPT ![t].queued = @ \ {place}]
    /\ manage' = [at |-> "picked", trade |-> t, price |-> 0]
    /\ UNCHANGED <<paper, today, days, ledger, position, eval, ordered, realised,
                   overwritten, mishaps>>

\* The worker adds the schedule's next iteration and calls the processor.
ScheduleNext ==
    /\ manage.at = "picked"
    /\ manage' = [manage EXCEPT !.at = "check"]
    /\ LET job == jobs[manage.trade]
       IN  jobs' = IF job.repeats /\ job.queued = {}
                   THEN [jobs EXCEPT ![manage.trade].queued = {"delayed"}] ELSE jobs
    /\ UNCHANGED <<paper, today, days, ledger, position, eval, ordered, realised,
                   overwritten, mishaps>>

-----------------------------------------------------------------------------
(* An iteration of a manage job.                                           *)

Entry == jobs[manage.trade].intent

Triggered(price) ==
    \/ ShouldHardStop(Entry.side, -Sign(Entry.side), price)
    \/ ShouldTakeProfit(Entry.side, Sign(Entry.side), price)

\* Price, stop, target and age; without a price or a trigger the iteration ends.
Trigger ==
    /\ manage.at = "check"
    /\ \/ manage' = ManagerResting
       \/ \E price \in Prices, aged \in BOOLEAN :
             /\ Triggered(price) \/ aged
             /\ manage' = [manage EXCEPT !.at = IF paper THEN "ledger" ELSE "close",
                                         !.price = price]
    /\ UNCHANGED <<paper, today, days, ledger, position, jobs, eval, ordered,
                   realised, overwritten, mishaps>>

\* What a reduce-only order against the trade finds, and what it leaves.
Held == Sign(Entry.side) * position[Entry.symbol]
Reduced ==
    [position EXCEPT ![Entry.symbol] = @ - Sign(Entry.side) * Min({Entry.size, Held})]

\* Mutant: a close that fails ends the job.
CloseGivesUp ==
    /\ manage.at = "close"
    /\ \/ /\ Held > 0 /\ position' = Reduced
          /\ manage' = [manage EXCEPT !.at = "ledger"] /\ UNCHANGED <<mishaps, jobs>>
       \/ /\ Held > 0 /\ Mishap("refused") /\ UNCHANGED position
          /\ manage' = ManagerResting
          /\ jobs' = [jobs EXCEPT ![manage.trade].repeats = FALSE, ![manage.trade].queued = {}]
       \/ /\ Held <= 0 /\ manage' = ManagerResting
          /\ jobs' = [jobs EXCEPT ![manage.trade].repeats = FALSE, ![manage.trade].queued = {}]
          /\ UNCHANGED <<position, mishaps>>
    /\ UNCHANGED <<paper, today, days, ledger, eval, ordered, realised, overwritten>>

\* The reduce-only close is cut to what is held.  A failure of any kind keeps
\* the job; the exchange rejects the order when there is nothing to reduce, now
\* and on every retry.
Close ==
    /\ manage.at = "close"
    /\ \/ /\ Held > 0 /\ position' = Reduced
          /\ manage' = [manage EXCEPT !.at = "ledger"] /\ UNCHANGED mishaps
       \/ /\ Held > 0 /\ position' \in {position, Reduced}
          /\ manage' = ManagerResting /\ Mishap("refused")
       \/ Held <= 0 /\ manage' = ManagerResting /\ UNCHANGED <<position, mishaps>>
    /\ UNCHANGED <<paper, today, days, ledger, jobs, eval, ordered, realised, overwritten>>

NetPnl == Sign(Entry.side) * manage.price * Entry.size

\* appendClosedPosition: push and trim.  When it fails the job throws and the
\* next iteration starts over.
AppendLedger ==
    /\ manage.at = "ledger"
    /\ \/ /\ realised.entries < MaxEntries
          /\ ledger' = SubSeq(<<NetPnl>> \o ledger, 1, Min({LedgerLimit, Len(ledger) + 1}))
          /\ realised' = [entries |-> realised.entries + 1,
                          trimmed |-> realised.trimmed \/ Len(ledger) = LedgerLimit,
                          pnl |-> realised.pnl + NetPnl]
          /\ manage' = [manage EXCEPT !.at = "daily"]
          /\ UNCHANGED mishaps
       \/ Mishap("append") /\ manage' = ManagerResting /\ UNCHANGED <<ledger, realised>>
    /\ UNCHANGED <<paper, today, days, position, jobs, eval, ordered, overwritten>>

\* Mutant: only losses are recorded.
RecordLossOnly ==
    /\ manage.at = "daily"
    /\ \/ /\ days' = [days EXCEPT ![today].pnl = @ + Min({0, NetPnl})]
          /\ manage' = [manage EXCEPT !.at = "remove"]
          /\ UNCHANGED mishaps
       \/ Mishap("daily") /\ manage' = ManagerResting /\ UNCHANGED days
    /\ UNCHANGED <<paper, today, ledger, position, jobs, eval, ordered, realised,
                   overwritten>>

\* recordClosedPnl: HINCRBYFLOAT on the hash of the day it is now.
RecordClosedPnl ==
    /\ manage.at = "daily"
    /\ \/ /\ days' = [days EXCEPT ![today].pnl = @ + NetPnl]
          /\ manage' = [manage EXCEPT !.at = "remove"]
          /\ UNCHANGED mishaps
       \/ Mishap("daily") /\ manage' = ManagerResting /\ UNCHANGED days
    /\ UNCHANGED <<paper, today, ledger, position, jobs, eval, ordered, realised,
                   overwritten>>

\* safeRemoveRepeatable takes the schedule and its delayed iteration away, not
\* one that already waits; a failure is swallowed and the schedule stays.
RemoveRepeatable ==
    /\ manage.at = "remove"
    /\ \/ /\ jobs' = [jobs EXCEPT ![manage.trade].repeats = FALSE,
                                ![manage.trade].queued = @ \ {"delayed"}]
          /\ UNCHANGED mishaps
       \/ Mishap("remove") /\ UNCHANGED jobs
    /\ manage' = ManagerResting
    /\ UNCHANGED <<paper, today, days, ledger, position, eval, ordered, realised,
                   overwritten>>

-----------------------------------------------------------------------------
(* The world.                                                              *)

Midnight ==
    /\ today < MaxDays
    /\ today' = today + 1
    /\ UNCHANGED <<paper, days, ledger, position, jobs, eval, manage, ordered,
                   realised, overwritten, mishaps>>

\* Liquidation, or a close by hand.
NativeExit(symbol) ==
    /\ position[symbol] # 0
    /\ position' = [position EXCEPT ![symbol] = 0]
    /\ UNCHANGED <<paper, today, days, ledger, jobs, eval, manage, ordered,
                   realised, overwritten, mishaps>>

\* The worker process dies: what ran is gone, queues and hashes stay, and the
\* iteration that ran stalls.  An entry not yet queued has no manager.
Crash ==
    /\ manage.at # "idle" \/ \E e \in Evaluators : eval[e].at # "idle"
    /\ "crash" \notin mishaps
    /\ Cardinality(mishaps) < MaxMishaps
    /\ mishaps' = mishaps \cup {"crash"}
                          \cup {"entry" : e \in {e \in Evaluators : eval[e].at = "enqueue"}}
    /\ eval' = [e \in Evaluators |-> Resting]
    /\ manage' = ManagerResting
    /\ jobs' = IF manage.at = "idle" THEN jobs
               ELSE [jobs EXCEPT ![manage.trade].queued = @ \cup {"stalled"}]
    /\ UNCHANGED <<paper, today, days, ledger, position, ordered, realised, overwritten>>

-----------------------------------------------------------------------------
Init ==
    /\ paper \in BOOLEAN
    /\ today = 0
    /\ days = [d \in 0..MaxDays |-> [seeded |-> FALSE, start |-> 0, pnl |-> 0, trades |-> 0]]
    /\ ledger = <<>>
    /\ position = [symbol \in Symbols |-> 0]
    /\ jobs = [t \in Trades |-> NoJob]
    /\ eval = [e \in Evaluators |-> Resting]
    /\ manage = ManagerResting
    /\ ordered = [d \in 0..MaxDays |-> 0]
    /\ realised = [entries |-> 0, trimmed |-> FALSE, pnl |-> 0]
    /\ overwritten = FALSE
    /\ mishaps = {}

EvaluateStep(e) ==
    \/ Gate(e) \/ DecideEntry(e) \/ SeedDay(e)
    \/ PlaceOrder(e) \/ EnqueueManage(e) \/ RecordTradeOpened(e)

ManageStep ==
    \/ ScheduleNext \/ Trigger \/ Close
    \/ AppendLedger \/ RecordClosedPnl \/ RemoveRepeatable

Next ==
    \/ \E e \in Evaluators : EvaluateStep(e)
    \/ \E t \in Trades : Promote(t) \/ Pick(t)
    \/ ManageStep
    \/ Midnight
    \/ \E symbol \in Symbols : NativeExit(symbol)
    \/ Crash

Spec == Init /\ [][Next]_vars

-----------------------------------------------------------------------------
(* Properties.                                                             *)

Places == {"delayed", "waiting", "stalled"}

\* Every variable keeps its type.
TypeOK ==
    /\ paper \in BOOLEAN
    /\ today \in 0..MaxDays
    /\ days \in [0..MaxDays -> [seeded : BOOLEAN, start : Int, pnl : Int, trades : Nat]]
    /\ ledger \in Seq(Int) /\ Len(ledger) <= LedgerLimit
    /\ position \in [Symbols -> Int]
    /\ jobs \in [Trades -> [intent : Intents \cup {NoIntent}, repeats : BOOLEAN,
                            queued : SUBSET Places]]
    /\ eval \in [Evaluators -> [at : {"idle", "active", "waiting", "decide", "seed", "order",
                                      "enqueue", "count"},
                                equity : Int, day : 0..MaxDays, intent : Intents \cup {NoIntent}]]
    /\ manage \in [at : {"idle", "picked", "check", "close", "ledger", "daily", "remove"},
                   trade : Trades \cup {"none"}, price : Int]
    /\ ordered \in [0..MaxDays -> Nat]
    /\ realised \in [entries : Nat, trimmed : BOOLEAN, pnl : Int]
    /\ overwritten \in BOOLEAN
    /\ mishaps \subseteq MishapKinds

\* Unless seeding erased the count or counting failed, the orders of one day
\* exceed the configured number by at most the one of the other evaluator.
TradesPerDayBounded ==
    ~overwritten /\ mishaps \cap {"entry", "count", "crash"} = {} /\ Limits.maxTrades > 0 =>
        \A d \in 0..MaxDays : ordered[d] < Limits.maxTrades + Cardinality(Evaluators)

\* Profit reaches the day hashes exactly once: unless a write failed or
\* seeding erased it, the hashes together hold the profit of every ledger
\* entry, and the ledger holds it too until it is trimmed.
DayAccount ==
    /\ ~overwritten /\ mishaps \cap {"daily", "crash"} = {} /\ manage.at # "daily" =>
          Sum([d \in 0..MaxDays |-> days[d].pnl]) = realised.pnl
    /\ ~realised.trimmed => Equity = StartEquity + realised.pnl

\* A trade is watched while its schedule lives, an iteration of it is queued
\* or running, and none has closed it.
Runs(t) == manage.at # "idle" /\ manage.trade = t
Watched(t) ==
    /\ jobs[t].repeats
    /\ jobs[t].queued # {} \/ Runs(t)
    /\ ~(Runs(t) /\ manage.at \in {"ledger", "daily", "remove"})

\* Units of the trades watched on one side of a symbol, and of the entries on
\* their way to a manage job.
UnitsOf(intent, symbol, side) ==
    IF intent.symbol = symbol /\ intent.side = side THEN intent.size ELSE 0
Cover(symbol, side) ==
    Sum([t \in Trades |-> IF Watched(t) THEN UnitsOf(jobs[t].intent, symbol, side) ELSE 0])
    + Sum([e \in Evaluators |->
              IF eval[e].at = "enqueue" THEN UnitsOf(eval[e].intent, symbol, side) ELSE 0])

\* Whatever the exchange holds is watched by trades of that side at least as
\* large, however the evaluators' positions add up or cancel out, a close is cut
\* to the net, refused, lost or repeated, and iterations stall: except for
\* entries whose order or manage job has failed.
ExposureManaged ==
    ~paper /\ "entry" \notin mishaps =>
        \A symbol \in Symbols :
            /\ position[symbol] <= Cover(symbol, "long")
            /\ -position[symbol] <= Cover(symbol, "short")

===============================================================================
