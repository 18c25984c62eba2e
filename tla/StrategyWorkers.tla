---------------------------- MODULE StrategyWorkers ----------------------------
(***************************************************************************)
(* The worker stacks of the strategies that hold one leg: longer-tf,       *)
(* bollinger-adx, funding-arb, ma-crossover, liquidation-cascade and       *)
(* llm-managed.  An open tick passes the one-position gate, decides,       *)
(* orders and adds a manage job; the manage job's iterations look the      *)
(* position up, decide, close it and record the trade in several stores.   *)
(* llm-managed also resizes and hedges its position and cools down after   *)
(* a loss; ma-crossover credits each trade to the allocator in Redis.      *)
(*                                                                         *)
(* Each action is one await.  BullMQ adds the next iteration of a schedule *)
(* when it hands one out, from the data that iteration has at that moment, *)
(* so iterations of a schedule may overlap and an update reaches no        *)
(* iteration but its own.  Sizes are counted in the direction of the       *)
(* entry, and later entries go the same way; decisions are free.           *)
(***************************************************************************)
EXTENDS Integers, FiniteSets

CONSTANTS
    Strategies,   \* the stacks explored, a subset of StrategyNames
    Lanes,        \* iterations that run at a time (concurrency 5)
    MaxTrades,    \* bound: entries executed
    MaxUnits,     \* bound: units that additions and hedges put on top
    MaxMishaps    \* bound: kinds of failures in one behaviour, each once

StrategyNames == {"longer-tf", "bollinger-adx", "funding-arb", "ma-crossover",
                  "liquidation-cascade", "llm-managed"}

ASSUME WorkersAssumption ==
    /\ Strategies \subseteq StrategyNames
    /\ MaxTrades \in Nat
    /\ MaxUnits \in Nat
    /\ MaxMishaps \in Nat

VARIABLES
    strategy,
    paper,      \* paperTrading: the position is only accounted for
    pos,        \* signed units held on the strategy's symbol
    hedge,      \* units held on another symbol as a hedge
    open,       \* the open tick: [at, loaded]
    queue,      \* the queued iteration of each trade's manage job: [at, data]
    repeats,    \* trades whose manage job is scheduled
    iter,       \* the iterations that run, and those a death has stalled
    cooling,    \* last-cut-loss-at is younger than the cooldown
    recent,     \* ghost: a loss was cut less than a cooldown ago
    allocator,  \* trades credited in the allocator state
    trades,     \* ghost: entries executed
    managed,    \* ghost: manage jobs added
    missed,     \* ghost: an entry passed the gate although a manage job existed
    mishaps     \* ghost: kinds of failures that have happened

exchange == <<pos, hedge>>
jobs     == <<queue, repeats>>
records  == <<cooling, recent, allocator>>
history  == <<trades, managed, missed>>
vars     == <<strategy, paper, exchange, open, jobs, iter, records, history, mishaps>>

-----------------------------------------------------------------------------
Trades == 1..MaxTrades
EntryLot == 2
Cap == 2 * EntryLot       \* scale-in: twice llmManagedMaxNotionalUsd
Hedges == {"none", "own", "other"}
Least(a, b) == IF a < b THEN a ELSE b

NoData == [qty |-> 0, hedge |-> "none"]
EntryData == [qty |-> EntryLot, hedge |-> "none"]
NotQueued == [at |-> "none", data |-> NoData]
Free == [at |-> "free", trade |-> 0, data |-> NoData, next |-> NoData, exit |-> "none",
         loaded |-> 0]
NoTick == [at |-> "idle", loaded |-> 0]

Parked == {"free", "stalled"}
Active == {l \in Lanes : iter[l].at \notin Parked}
Waiting == {t \in Trades : queue[t].at = "waiting"}
Stalled == {l \in Lanes : iter[l].at = "stalled"}
Delayed == {t \in Trades : queue[t].at = "delayed"}

\* An iteration of a manage job exists.
Alive == Active \cup Stalled # {} \/ Waiting \cup Delayed # {}

\* An answer lost after execution, a failed queue or Redis call, a death.
MishapKinds == {"lost", "add", "append", "mark", "blank", "update", "remove", "crash"}

Mishap(kind) ==
    /\ kind \notin mishaps
    /\ Cardinality(mishaps) < MaxMishaps
    /\ mishaps' = mishaps \cup {kind}

OpenGoes(at) == open' = [open EXCEPT !.at = at]
Goes(l, at) == iter' = [iter EXCEPT ![l].at = at]
Leaves(l) == iter' = [iter EXCEPT ![l] = Free]
Closes(l, exit) == iter' = [iter EXCEPT ![l] = [@ EXCEPT !.at = "append", !.exit = exit]]

\* The iteration ends as "continue" with this data for the job.
ContinuesWith(l, data) ==
    IF data = iter[l].data THEN Leaves(l)
    ELSE iter' = [iter EXCEPT ![l] = [@ EXCEPT !.at = "update", !.next = data]]

\* A reduce-only order of qty units against a position of held units.
Reduces(qty, held) == IF held > 0 THEN held - Least(qty, held) ELSE held

\* A market order answers ok and is executed, is refused, or is executed with
\* its answer lost.  On paper nothing is sent and nothing fails.
Order(executed, ok, failed) ==
    \/ executed /\ ok /\ UNCHANGED mishaps
    \/ ~paper /\ UNCHANGED exchange /\ failed /\ UNCHANGED mishaps
    \/ ~paper /\ executed /\ failed /\ Mishap("lost")

-----------------------------------------------------------------------------
(* The open tick (concurrency 1).                                          *)

\* hasActivePosition: the active, waiting and delayed jobs are counted one
\* after the other; any job skips the tick.
Count(from, found, to) ==
    /\ open.at = from
    /\ IF found # {} THEN open' = NoTick ELSE OpenGoes(to)
    /\ UNCHANGED <<strategy, paper, exchange, jobs, iter, records, trades, managed, mishaps>>

CountActive(from) == Count(from, Active, "waiting") /\ UNCHANGED missed
CountWaiting == Count("waiting", Waiting \cup Stalled, "delayed") /\ UNCHANGED missed
CountDelayed(to) ==
    /\ Count("delayed", Delayed, to)
    /\ missed' = (missed \/ (Delayed = {} /\ Alive))

Gate(from, to) == CountActive(from) \/ CountWaiting \/ CountDelayed(to)

\* getCooldownRemainingMs.
CheckCooldown(from, to) ==
    /\ open.at = from
    /\ IF cooling THEN open' = NoTick ELSE OpenGoes(to)
    /\ UNCHANGED <<strategy, paper, exchange, jobs, iter, records, history, mishaps>>

\* allocatorStore.load: an error reads as no state at all.
LoadAllocator(from, to) ==
    /\ open.at = from
    /\ \/ open' = [at |-> to, loaded |-> allocator] /\ UNCHANGED mishaps
       \/ open' = [at |-> to, loaded |-> 0] /\ Mishap("blank")
    /\ UNCHANGED <<strategy, paper, exchange, jobs, iter, records, history>>

\* The champion's choice may move the warm-up cursor; then the state loaded
\* above is written back.
SelectChampion(from, to) ==
    /\ open.at = from
    /\ allocator' \in {allocator, open.loaded}
    /\ open' = [NoTick EXCEPT !.at = to]
    /\ UNCHANGED <<strategy, paper, exchange, jobs, iter, cooling, recent, history, mishaps>>

\* Ticker, candles, instrument, quantity and the entry rule: any may skip.
DecideEntry(from) ==
    /\ open.at = from
    /\ open' = NoTick \/ OpenGoes("order")
    /\ UNCHANGED <<strategy, paper, exchange, jobs, iter, records, history, mishaps>>

PlaceEntry ==
    /\ open.at = "order"
    /\ trades < MaxTrades
    /\ Order(pos' = pos + EntryLot /\ UNCHANGED hedge, OpenGoes("enqueue"), open' = NoTick)
    /\ trades' = IF pos' = pos THEN trades ELSE trades + 1
    /\ UNCHANGED <<strategy, paper, jobs, iter, records, managed, missed>>

\* manageQueue.add; when it throws, the position has no manager.
EnqueueManage ==
    /\ open.at = "enqueue"
    /\ open' = NoTick
    /\ \/ /\ queue' = [queue EXCEPT ![trades] = [at |-> "delayed", data |-> EntryData]]
          /\ repeats' = repeats \cup {trades}
          /\ managed' = managed + 1
          /\ UNCHANGED mishaps
       \/ UNCHANGED <<jobs, managed>> /\ Mishap("add")
    /\ UNCHANGED <<strategy, paper, exchange, iter, records, trades, missed>>

OrderAndEnqueue == PlaceEntry \/ EnqueueManage

LongerTfOpen == strategy = "longer-tf" /\ (Gate("idle", "decide") \/ DecideEntry("decide"))
BollingerAdxOpen == strategy = "bollinger-adx" /\ (Gate("idle", "decide") \/ DecideEntry("decide"))
FundingArbOpen == strategy = "funding-arb" /\ (Gate("idle", "decide") \/ DecideEntry("decide"))

\* One symbol after the other is tried until one passes every check.
CascadeOpen == strategy = "liquidation-cascade" /\ (Gate("idle", "decide") \/ DecideEntry("decide"))

\* Mutant: the allocator is loaded before the gate is asked.
MaCrossoverOpenLoadsFirst ==
    /\ strategy = "ma-crossover"
    /\ \/ LoadAllocator("idle", "load")
       \/ Gate("load", "select")
       \/ SelectChampion("select", "decide")
       \/ DecideEntry("decide")

MaCrossoverOpen ==
    /\ strategy = "ma-crossover"
    /\ \/ Gate("idle", "load")
       \/ LoadAllocator("load", "select")
       \/ SelectChampion("select", "decide")
       \/ DecideEntry("decide")

\* Mutant: the cooldown is read before the gate is asked.
LlmManagedOpenCooldownFirst ==
    /\ strategy = "llm-managed"
    /\ \/ CheckCooldown("idle", "cooldown")
       \/ Gate("cooldown", "decide")
       \/ DecideEntry("decide")

LlmManagedOpen ==
    /\ strategy = "llm-managed"
    /\ \/ Gate("idle", "cooldown")
       \/ CheckCooldown("cooldown", "decide")
       \/ DecideEntry("decide")

-----------------------------------------------------------------------------
(* BullMQ hands out the iterations of the manage jobs.                     *)

\* The delay of a queued iteration is over.
Promote(t) ==
    /\ queue[t].at = "delayed"
    /\ queue' = [queue EXCEPT ![t].at = "waiting"]
    /\ UNCHANGED <<strategy, paper, exchange, open, repeats, iter, records, history, mishaps>>

Pick(l) ==
    /\ \/ /\ iter[l].at = "stalled"
          /\ Goes(l, "picked")
          /\ UNCHANGED queue
       \/ /\ iter[l].at = "free"
          /\ \E t \in Waiting :
                /\ iter' = [iter EXCEPT ![l] =
                       [Free EXCEPT !.at = "picked", !.trade = t, !.data = queue[t].data]]
                /\ queue' = [queue EXCEPT ![t] = NotQueued]
    /\ UNCHANGED <<strategy, paper, exchange, open, repeats, records, history, mishaps>>

\* The worker adds the schedule's next iteration, with a copy of the data,
\* and then calls the processor.
ScheduleNext(l) ==
    /\ iter[l].at = "picked"
    /\ Goes(l, "reconcile")
    /\ LET t == iter[l].trade
       IN  queue' = IF t \in repeats /\ queue[t].at = "none"
                    THEN [queue EXCEPT ![t] = [at |-> "delayed", data |-> iter[l].data]]
                    ELSE queue
    /\ UNCHANGED <<strategy, paper, exchange, open, repeats, records, history, mishaps>>

-----------------------------------------------------------------------------
(* An iteration of a manage job.                                           *)

\* Live only: no position left is an external close.  A failed read is
\* caught and the tick goes on.
Reconcile(l) ==
    /\ iter[l].at = "reconcile"
    /\ \/ ~paper /\ pos = 0 /\ Closes(l, "external")
       \/ Goes(l, "decide")
    /\ UNCHANGED <<strategy, paper, exchange, open, jobs, records, history, mishaps>>

\* No ticker, or no reason to act.
Hold(l) ==
    /\ iter[l].at = "decide"
    /\ Leaves(l)
    /\ UNCHANGED <<strategy, paper, exchange, open, jobs, records, history, mishaps>>

\* A reduce-only market order for the recorded quantity; refused, the job
\* lives on.
CloseAll(l, exit) ==
    /\ iter[l].at = "decide"
    /\ Order(pos' = Reduces(iter[l].data.qty, pos) /\ UNCHANGED hedge,
             (paper \/ pos > 0) /\ Closes(l, exit),
             Leaves(l))
    /\ recent' = (recent \/ (exit = "cut" /\ iter'[l].at = "append"))
    /\ UNCHANGED <<strategy, paper, open, jobs, cooling, allocator, history>>

\* tp-partial and scale-out: the slice is recorded in the ledger before the
\* smaller size is kept.
ScaleOut(l) ==
    /\ iter[l].at = "decide"
    /\ \E slice \in 1..iter[l].data.qty - 1 :
          Order(pos' = Reduces(slice, pos) /\ UNCHANGED hedge,
                (paper \/ pos > 0)
                    /\ iter' = [iter EXCEPT ![l] =
                           [@ EXCEPT !.at = "append", !.exit = "slice",
                                     !.next = [iter[l].data EXCEPT !.qty = @ - slice]]],
                Leaves(l))
    /\ UNCHANGED <<strategy, paper, open, jobs, records, history>>

ScaleIn(l) ==
    /\ iter[l].at = "decide"
    /\ iter[l].data.qty + 1 <= Cap
    /\ pos < EntryLot + MaxUnits
    /\ Order(pos' = pos + 1 /\ UNCHANGED hedge,
             ContinuesWith(l, [iter[l].data EXCEPT !.qty = @ + 1]), Leaves(l))
    /\ UNCHANGED <<strategy, paper, open, jobs, records, history>>

\* A plain order against the position's direction.  Without a positionIdx a
\* hedge on the position's own symbol nets with the position.
OpenHedge(l, on) ==
    /\ iter[l].at = "decide"
    /\ iter[l].data.hedge = "none"
    /\ IF on = "own" THEN pos > -MaxUnits ELSE hedge < MaxUnits
    /\ Order(IF on = "own" THEN pos' = pos - 1 /\ UNCHANGED hedge
             ELSE hedge' = hedge + 1 /\ UNCHANGED pos,
             ContinuesWith(l, [iter[l].data EXCEPT !.hedge = on]), Leaves(l))
    /\ UNCHANGED <<strategy, paper, open, jobs, records, history>>

\* A reduce-only order; on the own symbol it needs the position turned round.
CloseHedge(l) ==
    /\ iter[l].at = "decide"
    /\ iter[l].data.hedge # "none"
    /\ LET own == iter[l].data.hedge = "own"
       IN  Order(IF own THEN pos' = -Reduces(1, -pos) /\ UNCHANGED hedge
                 ELSE hedge' = Reduces(1, hedge) /\ UNCHANGED pos,
                 (paper \/ (own /\ pos < 0) \/ (~own /\ hedge > 0))
                     /\ ContinuesWith(l, [iter[l].data EXCEPT !.hedge = "none"]),
                 Leaves(l))
    /\ UNCHANGED <<strategy, paper, open, jobs, records, history>>

\* job.updateData, whose failure is caught, writes to this iteration.
Update(l) ==
    /\ iter[l].at = "update"
    /\ \E data \in {iter[l].data, iter[l].next} :
          /\ iter' = [iter EXCEPT ![l] = [Free EXCEPT !.at = "done", !.trade = iter[l].trade,
                                                   !.data = data]]
          /\ IF data = iter[l].next THEN UNCHANGED mishaps ELSE Mishap("update")
    /\ UNCHANGED <<strategy, paper, exchange, open, jobs, records, history>>

\* The iteration ends after its update.
Finish(l) ==
    /\ iter[l].at = "done"
    /\ Leaves(l)
    /\ UNCHANGED <<strategy, paper, exchange, open, jobs, records, history, mishaps>>

-----------------------------------------------------------------------------
(* What follows a close.  Every write may throw: the job fails and the next *)
(* iteration finds no position; only the external-close branch of Reconcile *)
(* catches the failure and goes on.                                        *)

Throws(l, kind) ==
    /\ Mishap(kind)
    /\ IF iter[l].exit = "external"
       THEN iter' = [iter EXCEPT ![l] = [Free EXCEPT !.at = "decide", !.trade = iter[l].trade,
                                                     !.data = iter[l].data]]
       ELSE Leaves(l)

\* appendClosedPosition, then whatever the strategy writes next.
Appended(exit) ==
    IF exit = "slice" THEN "update"
    ELSE CASE strategy = "ma-crossover" -> "credit"
           [] strategy = "liquidation-cascade" -> "mark"
           [] strategy = "llm-managed" -> IF exit = "cut" THEN "mark" ELSE "complete"
           [] OTHER -> IF exit = "external" THEN "complete" ELSE "mark"

AppendClosed(l) ==
    /\ iter[l].at = "append"
    /\ \/ Goes(l, Appended(iter[l].exit)) /\ UNCHANGED mishaps
       \/ Throws(l, "append")
    /\ UNCHANGED <<strategy, paper, exchange, open, jobs, records, history>>

\* updateAllocator: GET, then SET of what was read plus this trade.
LoadCredits(l) ==
    /\ iter[l].at = "credit"
    /\ \E seen \in {allocator, 0} :
          /\ iter' = [iter EXCEPT ![l] = [@ EXCEPT !.at = "save", !.loaded = seen]]
          /\ IF seen = allocator THEN UNCHANGED mishaps ELSE Mishap("blank")
    /\ UNCHANGED <<strategy, paper, exchange, open, jobs, records, history>>

SaveCredits(l) ==
    /\ iter[l].at = "save"
    /\ \/ /\ allocator' = iter[l].loaded + 1
          /\ Goes(l, IF iter[l].exit = "external" THEN "complete" ELSE "mark")
          /\ UNCHANGED mishaps
       \/ Throws(l, "mark") /\ UNCHANGED allocator
    /\ UNCHANGED <<strategy, paper, exchange, open, jobs, cooling, recent, history>>

\* setLastCutLossAt for a cut loss, setLastTradeAt otherwise (never read).
MarkTime(l) ==
    /\ iter[l].at = "mark"
    /\ \/ /\ Goes(l, "complete")
          /\ cooling' = (cooling \/ iter[l].exit = "cut")
          /\ UNCHANGED mishaps
       \/ Throws(l, "mark") /\ UNCHANGED cooling
    /\ UNCHANGED <<strategy, paper, exchange, open, jobs, recent, allocator, history>>

\* "complete" removes the schedule and its delayed iteration, not one that is
\* waiting or running; a failed removal leaves the schedule firing.
Complete(l) ==
    /\ iter[l].at = "complete"
    /\ Leaves(l)
    /\ LET t == iter[l].trade
       IN  \/ /\ repeats' = repeats \ {t}
              /\ queue' = IF queue[t].at = "delayed" THEN [queue EXCEPT ![t] = NotQueued] ELSE queue
              /\ UNCHANGED mishaps
           \/ UNCHANGED jobs /\ Mishap("remove")
    /\ UNCHANGED <<strategy, paper, exchange, open, records, history>>

Iterate(l) ==
    \/ Pick(l) \/ ScheduleNext(l) \/ Reconcile(l) \/ Hold(l)
    \/ Update(l) \/ Finish(l) \/ AppendClosed(l) \/ MarkTime(l) \/ Complete(l)

LongerTfManage(l) == strategy = "longer-tf" /\ CloseAll(l, "rule")
BollingerAdxManage(l) == strategy = "bollinger-adx" /\ CloseAll(l, "rule")
FundingArbManage(l) == strategy = "funding-arb" /\ CloseAll(l, "rule")
CascadeManage(l) == strategy = "liquidation-cascade" /\ CloseAll(l, "rule")
MaCrossoverManage(l) ==
    strategy = "ma-crossover" /\ (CloseAll(l, "rule") \/ LoadCredits(l) \/ SaveCredits(l))

\* A safety rule, or the model's answer.
LlmManagedManage(l) ==
    /\ strategy = "llm-managed"
    /\ \/ CloseAll(l, "rule") \/ CloseAll(l, "cut")
       \/ ScaleOut(l) \/ ScaleIn(l)
       \/ \E on \in Hedges \ {"none"} : OpenHedge(l, on)
       \/ CloseHedge(l)

-----------------------------------------------------------------------------
(* The exchange, the clock and the process.                                *)

\* Liquidation, a native stop or a manual close.
NativeExit ==
    /\ ~paper
    /\ pos # 0
    /\ pos' = 0
    /\ UNCHANGED <<strategy, paper, hedge, open, jobs, iter, records, history, mishaps>>

\* Losses that have been cut and whose time is not written yet.
CutPending == {l \in Lanes : iter[l].exit = "cut" /\ iter[l].at \in {"append", "mark"}}

CooldownOver ==
    /\ cooling
    /\ cooling' = FALSE
    /\ recent' = (CutPending # {})
    /\ UNCHANGED <<strategy, paper, exchange, open, jobs, iter, allocator, history, mishaps>>

\* The worker process dies; the iterations that ran stall and are run again.
Crash ==
    /\ open # NoTick \/ Active # {}
    /\ Mishap("crash")
    /\ open' = NoTick
    /\ iter' = [l \in Lanes |->
           IF iter[l].at \in Parked THEN iter[l]
           ELSE [Free EXCEPT !.at = "stalled", !.trade = iter[l].trade, !.data = iter[l].data]]
    /\ UNCHANGED <<strategy, paper, exchange, jobs, records, history>>

-----------------------------------------------------------------------------
Init ==
    /\ strategy \in Strategies
    /\ paper \in BOOLEAN
    /\ pos = 0 /\ hedge = 0
    /\ open = NoTick
    /\ queue = [t \in Trades |-> NotQueued]
    /\ repeats = {}
    /\ iter = [l \in Lanes |-> Free]
    /\ cooling = FALSE /\ recent = FALSE /\ allocator = 0
    /\ trades = 0 /\ managed = 0 /\ missed = FALSE
    /\ mishaps = {}

Open ==
    \/ LongerTfOpen \/ BollingerAdxOpen \/ FundingArbOpen
    \/ CascadeOpen \/ MaCrossoverOpen \/ LlmManagedOpen
    \/ OrderAndEnqueue

Manage(l) ==
    \/ Iterate(l)
    \/ LongerTfManage(l) \/ BollingerAdxManage(l) \/ FundingArbManage(l)
    \/ CascadeManage(l) \/ MaCrossoverManage(l) \/ LlmManagedManage(l)

Next ==
    \/ Open
    \/ \E t \in Trades : Promote(t)
    \/ \E l \in Lanes : Manage(l)
    \/ NativeExit \/ CooldownOver \/ Crash

Spec == Init /\ [][Next]_vars

-----------------------------------------------------------------------------
(* Properties.                                                             *)

Data == [qty : 0..Cap, hedge : Hedges]

\* Every variable keeps its type; the recorded size stays within the cap.
TypeOK ==
    /\ strategy \in Strategies
    /\ paper \in BOOLEAN
    /\ pos \in Int
    /\ hedge \in Nat
    /\ open \in [at : {"idle", "waiting", "delayed", "cooldown", "load", "select", "decide",
                       "order", "enqueue"},
                 loaded : Nat]
    /\ queue \in [Trades -> [at : {"none", "delayed", "waiting"}, data : Data]]
    /\ repeats \subseteq Trades
    /\ iter \in [Lanes -> [at : {"free", "stalled", "picked", "reconcile", "decide", "update",
                                "done", "append", "credit", "save", "mark", "complete"},
                          trade : Nat, data : Data, next : Data,
                          exit : {"none", "external", "rule", "cut", "slice"},
                          loaded : Nat]]
    /\ cooling \in BOOLEAN
    /\ recent \in BOOLEAN
    /\ allocator \in Nat
    /\ trades \in 0..MaxTrades
    /\ managed \in Nat
    /\ missed \in BOOLEAN
    /\ mishaps \subseteq MishapKinds

\* After a cut loss no entry is ordered until the cooldown is over, whatever
\* the open tick and the overlapping iterations of the manage job do at the
\* same time: the open tick asks the gate first and the time of the loss is
\* written before the gate reopens.  Left out are behaviours in which the
\* gate's three counts have missed a manage job, and those in which a failed
\* ledger or Redis write, or a death, loses the time of the loss.
CooldownRespected ==
    open.at = "order" /\ ~missed /\ mishaps \cap {"append", "mark", "crash"} = {} => ~recent

\* Every trade that a ma-crossover manage job has finished is credited to the
\* allocator (overlapping iterations may credit it twice), although the open
\* tick and the iterations write the whole state back without a transaction,
\* and whatever other write fails.  Left out are behaviours in which the gate
\* has missed a manage job or a failed GET was taken for an empty state.
CreditsKept ==
    strategy = "ma-crossover" /\ ~missed /\ "blank" \notin mishaps /\ ~Alive =>
        allocator >= managed

===============================================================================
