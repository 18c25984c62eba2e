# TLA+ models and proofs for ai-scalper

ai-scalper trades perpetual futures on Bybit from a Bun/TypeScript monorepo. Two
kinds of process place orders: the long-running **trader session**
(`apps/trader/src/trading/run-trader.ts`) and the **BullMQ workers**
(`apps/worker/src`). Both keep their memory of an open position outside the
exchange (process memory and a Redis snapshot; a repeatable Redis job), and most
of what can go wrong is a disagreement between that memory and the exchange.
That is what the modules here are about.

Prices, indicators and the decision rules of the strategies are left open: a
model decides freely whether to enter, hold or exit, so what is shown holds for
every strategy that uses the machinery.

## 1. Inventory

| Part | State it keeps | Operations | Interacts with | Hard behaviour | What makes it correct |
|---|---|---|---|---|---|
| Trader session, ma-crossover tick (`run-trader.ts` 3706-5527) | `state.position`, `openPositionSymbol`, `pendingClose`, halt and safety flags; Redis snapshot and closed-position list | hydrate, pick symbol, reconcile, poll the close order, close, enter, set stops, trail | Bybit REST, Redis, webhook | an await between any two steps; failed reads mapped to `null`; death and restart by Docker | no position left unmanaged, one ledger entry per trade, at most one close order, a stop on every position, a fresh snapshot |
| Order execution (`executeTrade` 267-526, `execution-policy.ts`) | one in-flight entry | maker order, wait, cancel, flatten a partial fill, taker fallback | Bybit | partial fills, cancel racing a fill | what the caller believes it holds is what the exchange holds |
| Session start (`run-trader.ts` 887-942, `worker/src/index.ts` 151-315, `start-stack.ts`, `start-multi-strategy.ts`) | a pid file, session jobs, subprocesses | lock, release, run and retry the session job, supervise one trader per configuration | file system, Redis, processes | check-then-write, orphans of a dead worker, stale and reused pids | one session trades |
| In-process ticks of the other strategies (`run-trader.ts` 949-3704, `liquidation-cascade-tick.ts`) | position in process memory, partly a snapshot | decide, open one or two legs, compensate, hedge, scale in, close | Bybit, Redis, webhook | orders that fill between poll and cancel, a second leg that fails | nothing held is forgotten without an alert |
| BullMQ pipeline (`pipeline-workers.ts`, `pipeline/`) | jobs and schedules in Redis | evaluate, gate, order, schedule, review, close, record, unschedule | Redis, Bybit | overlapping iterations, stalled jobs, non-atomic counts, lost answers | every position has a reviewer, every close is recorded once, the gate reopens |
| Aggressive traders (`aggressive-workers.ts`, `pump-scanner-worker.ts`, `aggressive/`) | shared manage queue, daily state in Redis | evaluate, open, manage, roll the day | Redis, Bybit, LLM | two evaluators racing through one gate, opposite sides netting on one symbol; day rollover | whatever is held is watched, daily caps, every profit counted once |
| Two-leg strategies (basis-arb, pairs, calendar) | manage job with both legs | open leg 1, leg 2, compensate, close both | Redis, Bybit | one leg of two failing | never a naked leg |
| Maker execution (`pipeline/maker-execution.ts`) | one order | place, poll, cancel, fall back | Bybit | late fills | no double fill |
| Single-leg worker stacks (longer-tf, bollinger-adx, funding-arb, ma-crossover, liquidation-cascade, llm-managed) | manage jobs, ledger, allocator and cooldown keys in Redis | open tick, manage tick, scale in and out, hedge, cool down, credit | Redis, Bybit, Anthropic | two workers writing one key, order of several writes at a close | a closed trade is credited, and a cut loss cools down |
| Bandit's paper variants (`trading-core`, `step.ts`, `variant-shadow-store.ts`) | a paper position and a day's profit per variant | step on every price, credit the allocator | Redis | midnight, two loops with different histories | bounded daily loss, exact credit |
| Drawdown guard (`trading-core` 470-560, `run-trader.ts`) | samples, outcomes, halt in memory | judge a close, halt, resume | - | pruning, restart, midnight | halts when the trades deserve it, and only then |
| Websocket clients (`bybit-client/ws.ts`, `ws-private.ts`) | socket, topics, timers | start, stop, subscribe, reconnect, watch pongs | Bybit | late events of old sockets, half-open connections | never neither socket nor timer; streams again |
| Cached sources (`ws-feeder.ts`, `ws-redis-cache.ts`, `ticker-source.ts`, `position-source.ts`) | Redis hashes, an in-memory map | publish, read with a maximum age, fall back to REST | Redis, Bybit | delayed publishes, two reads, silence | nothing stale is served as fresh |
| Pump scanner's window (`rolling-window.ts`, `pump-scanner.ts`) | samples with times | push, prune, detect | Redis | slow fetches | the detector can see a whole window (it cannot) |
| Decision code (aggressive hunters, tiers, sizing, allocator's scores, strategies' rules) | none | pure functions | - | boundaries | left free in every model |
| Worker bootstrap and health (`worker/src/index.ts`, `health.ts`) | which stacks run | start, probe, alert | Redis, HTTP | - | - |
| Advisory loops (risk officer, execution auditor, strategy advisor, event feeder) | files | periodic reports | LLM, files | none of their output places orders | - |
| Scanner, reports, boards, scripts, indicators | none | read-only | - | none | - |

`PROJECT.json` names the sources and the status of every part, and under
"hazards" each place of the code that is hard to test with the properties that
watch it.

## 2. Modules

| Module | Role |
|---|---|
| `TraderSession` | the live loop, the exchange it talks to, its Redis store, death and restart |
| `MCSession` | the loop without and with reconciliation side by side, fairness |
| `MCTraderSession` | symmetry for TLC |
| `TraderSession_proofs` | TLAPS: types, fresh snapshot, closes only reduce, one close order, stops, exposure, ledger |
| `TradePipeline` | the BullMQ pipeline: intents, gate, opening order, chain of manage iterations, ledger, clean-up, worker death |
| `MCTradePipeline` | symmetry for TLC |
| `TradePipeline_proofs` | TLAPS: types, the chain of iterations survives a worker death, every position is reviewed, nothing happens twice |
| `OrderOutcomes` | what the caller of an order may find: answer, executed and resting units, for market, maker-only and maker-or-taker orders |
| `OrderPlacement` | abstract specification of one placement, in terms of `OrderOutcomes` |
| `MakerExecution` | `placeOrderWithMakerPreference` await by await; implements `OrderPlacement` |
| `TwoLegTrade` | one trade of basis-arb, pairs-trading or calendar-spread: open, compensate, manage, close; its orders are steps of `OrderOutcomes` |
| `MCWorkerTrades` | `TwoLegTrade` and `TradePipeline` side by side, fairness |
| `TwoLegTrade_proofs` | TLAPS: types, a managed trade is hedged, no leg flips, a naked leg is told |
| `AggressiveGuards` | the entry guards of `aggressive/guards.ts` as operators |
| `AggressiveTraders` | both evaluators, their shared gate, the daily hash with its midnight, the manage worker |
| `MCAggressiveTraders` | intents and limits for TLC, behaviours about exposure and about days |
| `SumFacts` | TLAPS: facts about sums over finite functions, which several proofs add up with |
| `AggressiveTraders_proofs` | TLAPS: types, the bound of a day, the account of profit, whatever is held is watched |
| `StrategyWorkers` | open and manage ticks of six single-leg stacks, with resizing, hedge, cooldown and allocator |
| `MCStrategyWorkers` | symmetry and bounds for TLC |
| `StrategyWorkers_proofs` | TLAPS: types, cooldown, credits |
| `TradeExecution` | `executeTrade`: four entry modes, polling, cancel, read-back, flatten, retries, fallback, limit close |
| `SessionTicks` | the eight in-process ticks, on top of `TradeExecution` |
| `SessionStarts` | session lock, session job, stack start, multi-strategy supervisor |
| `MCSessionTicks` | `SessionTicks` and `SessionStarts` side by side, pid symmetry |
| `SessionTicks_proofs` | TLAPS: one session trades, true answers, nothing forgotten |
| `WsClient` | the public websocket client: sockets, timers, topics, late events |
| `TickerFeed` | a ticker's way through feeder, Redis and cached source |
| `PositionFeed` | the private websocket client and the position source |
| `ShadowLearning` | `step()` of a paper variant and the two loops that credit the allocator |
| `DrawdownBreaker` | the drawdown-velocity guard |
| `PumpWindow` | the rolling window of the pump scanner |
| `MCSurroundings` | `WsClient` to `PumpWindow` and `MakerExecution` side by side, fairness |
| `Surroundings_proofs` | TLAPS: the properties of `WsClient` to `PumpWindow`; types, accounts and the refinement of `MakerExecution` |

Definitions whose name starts like an action of the model and whose comment says
"Mutant" are deliberately wrong variants; they are used by no specification and
serve to show that each property is able to fail.

### TraderSession

`pc` names the stage of the tick (`scan`, `reconcile`, `clear`, `pending`,
`exit`, `settle`, `settled`, `entry`, `opened`, `persist`, `protect`); the code
has an await between any two of them, and the exchange and the death of the
process may step in there. `pos`, `stop` and `orders` are the exchange's truth;
`local`, `pending`, `halt`, `force`, `age`, `held`, `safetyPlaced` are the local
variables of `runTrader`; `snap` and `ledger` are the two Redis keys. A position is a
signed number of lots. A close order is a reduce-only GTC limit order that rests
until the exchange fills or ends it. Abstractions: an order fills as a whole, entries are
one-lot market orders (`entryExecutionMode` taker), the ledger is a counter of
entries, the drawdown pause and the risk gates are the choice not to enter, and
the exit decision is free. `ApiErrors` makes the reads that are caught with
`.catch(() => null)` return nothing, the market data calls fail and the stop
calls give up; an exchange call that throws out of `runTrader` is the step
`Crash`.

### TradePipeline

`intents` is the agent queue, `agent` the job in hand with its progress through
the three counts of the gate, the order and the scheduling; `repeats` are the
schedules in Redis and `lane` the iterations of a manage job, each `delayed`,
`waiting`, `picked` (before its successor is scheduled) or at a stage of the
processor. BullMQ is external and modelled by what the repository relies on: a
delayed job becomes waiting, a worker takes it, only then the next iteration is
added, jobs of a dead worker are queued once more. The manage stages are those
of the single-leg strategies (funding-arb is the one mapped). `SlowTicks` lets an
iteration become due while an earlier one runs; otherwise the interval (5 s at
least) is assumed to outlast a tick. Positions have ids of their own, although the code looks them
up by symbol; two positions on one symbol, which exist only after
the gate has failed, are kept apart by the model.

### OrderOutcomes, OrderPlacement and MakerExecution

A strategy places an order and gets one answer; how much was executed, and
whether something still rests in the book, it does not learn. `Outcomes(r)` is
what can be behind the answer to request `r`. `TwoLegTrade` uses it for each of its
orders; `MakerExecution` shows that the maker code delivers nothing else, so the
interleavings inside a maker order are checked once and need not be repeated in
every strategy. `at` is the await the call is at (price, post-only order, poll,
cancellation, market order); `order`, `filled` and `resting` are the limit
order's state on the exchange, which fills or cancels it at any moment. A unit
is the smallest partial fill. `LostAnswers` lets a request be executed and its
answer be lost. The refinement mapping hides the account until the call returns:
`filled` and `resting` are 0 while `Running`.

`Outcomes` is also where two weaknesses of the code are written down. With the
taker fallback up to twice the quantity may be executed: the fallback orders
the full quantity although the limit order may have been filled between the last
poll and the cancellation. And a maker-only order that "failed" may have been
filled in part or still rest, when its cancellation failed.

### TwoLegTrade

`job` is where the open or manage processor stands, `size` the legs on the exchange,
counted in the direction of the entry, `resting` the entry orders left in the
book. The strategies differ in the operators of the first section: which leg is
opened first, how entries are placed, how often a compensation or a close is
tried, which legs the reconciliation looks up (basis-arb cannot see its spot leg),
which closes are reduce-only, which one is maker-first. `"calendar-open"` is the
open processor, `"calendar-adapter"` and `"calendar-maker"` the pipeline adapter in its
two execution modes, and so for basis-arb. Abstractions: a market order is
executed fully or not at all; both legs have `Full` units; one tick runs at a
time (overlapping ticks are `TradePipeline`'s subject); a missing leg is one with no
unit left (the code says under 1 % of the quantity). A maker close that still
rests and fills later is covered by `NativeExit`. `mishaps` is a ghost variable that
records which outside failures have happened, so that a property can say which of them it
tolerates. `alerted` counts an alert as sent when the code sends it, whether it is delivered
or not; the alert of an external close names both symbols and does not say which
one is still open.

### AggressiveTraders

Each action is one await of an evaluator (`eval[e].at`: the three counts of the gate, decision,
seeding of the day, order, manage job, count) or of the manage worker (`manage.at`: price,
close, ledger, day, schedule). The gate counts delayed, active and waiting jobs one after the
other, as the code does, so a job that moves between two counts is missed and a second position
may be opened. `jobs` holds the manage job of each trade: its schedule (`repeats`) and the
iterations in the queue (`queued`); BullMQ adds the next iteration when it hands one out
(`ScheduleNext`), and one iteration runs at a time. The hunter and the pump scanner order
different sizes, so on one symbol their positions may net; a close is a reduce-only order for the
trade's own size and is cut to what is held. Both evaluators share the manage queue, the ledger
and `days`, the Redis hash per UTC day; `Midnight` changes the day between any two awaits.
`realised`, `ordered` and `overwritten` are ghost variables: the profit of all closes, the orders
of each day, and whether seeding has erased a hash that was already written. `mishaps` holds the
kinds of failure that have happened, here and in the modules below; a property names those it
tolerates.

### StrategyWorkers

One stack at a time: `open` is the open tick with the three counts of its gate, `queue` the queued
iteration of each trade's manage job, `iter` the iterations that run, which may overlap
(concurrency 5; a place is a member of `Lanes`). BullMQ adds the next iteration before it calls
the processor, with a copy of the data; so `Update` (`job.updateData` after a scale-in, partial
close or hedge) changes its own iteration only, and the next one manages the old size. The stores a
close writes to one after the other (ledger, allocator, variant state, cooldown mark) are separate
steps, since their order is what `CooldownRespected` is about. `loaded` is the copy of the
allocator an open tick or an iteration has read and will write back. `missed` is a ghost variable:
an open tick has passed the gate although a manage job existed.

### TradeExecution and SessionTicks

`call` is the call of `executeTrade` in progress, `held` what the exchange holds in the
direction of the entry, in units of partial fills; the limit order fills or is cancelled
between any two awaits. An error `executeTrade` does not catch ends it as "thrown" and, where the
tick does not catch it either, the session as "dead". `tracked` is what the tick believes
to hold, `saved` the snapshot, `known` what the operator has been told of. Ticks run one
after the other, as in the code; what a strategy decides is free. A session does not hydrate here: `TraderSession`
models that.

### SessionStarts

A session's check of `session.lock`, its write and its release are separate steps of each
process; `proc` is what runs under each pid. The worker takes one session job at a time, retries it,
and is closed or killed, with its subprocess or without. `OthersRun` gives the pid in a stale
lock to another program. `overlapped` is a ghost variable: two sessions were between check
and write at once.

### The surroundings

`WsClient`: a socket's handlers stay installed after the client has moved on, so its events
may come at any time; `asked` is what each socket has been asked for, `upsets` counts
failures. `TickerFeed`: a ticker is the time at which it was the exchange's, so that
`ServedFresh` needs no prices; publishing and reading take two steps each. `PositionFeed`
is the same for positions, with authentication; `missed` and `served.excused` say whether an update was lost or
under way. `ShadowLearning` runs `step()` on small integer prices for two variants and both
loops; `DrawdownBreaker` works on the profits of trades; `PumpWindow` on times only.
None of these share state with the trading modules, where prices are free and positions
are read from the exchange.

## 3. Runs

| Run | Shows | States |
|---|---|---|
| `session` | logical exits, no failed calls. Without reconciliation, two deaths: no unmanaged position, exact ledger without double entries, one close order, safety stop in time. With reconciliation, one death, fair loop: ended close orders and lost positions are noticed | 329 thousand |
| `session_faults` | exchange-native stops, failing calls, reconciliation, one death: a native stop or the logical fallback, fresh snapshot, closes only reduce | 676 thousand |
| `session_bug_halt` | *violation*: the halt for an unknown position is lifted by the reconciliation of another symbol | - |
| `session_ticks` | eight in-process ticks with every entry mode, and the start of sessions: the answer of `executeTrade` is true, nothing is forgotten, one session trades | 758 thousand |
| `pipeline` | overlapping iterations, failing Redis commands, one death: every position has a reviewer, nothing open is in the ledger, the chain goes on | 142 thousand |
| `worker_trades` | failing and lost calls, one death, fair workers. Two-leg trades in six variants: a manager gets both legs, a naked leg is alerted, no close flips a leg, a missing leg is noticed. Pipeline: intents and closes count once, closed positions are recorded and lose their schedule | 134 thousand |
| `two_leg_bug_naked` | *violation*: a trade with one leg missing is recorded as closed while the other leg is open | - |
| `aggressive` | two evaluators race through one gate: what the exchange holds is watched, bounded number of daily orders over a midnight, profit counted once | 3.16 million |
| `strategy_workers` | six single-leg stacks with overlapping iterations: cooldown, allocator credits | 2.68 million |
| `multi_strategy_bug_lock` | *violation*: the session lock turns away every trader of the multi-strategy supervisor but the first | - |
| `surroundings` | websocket client, ticker and position caches, paper learning, drawdown guard, maker order | 459 thousand |
| `pump_bug_blind` | *violation*: a scan that starts with a sample as old as the window does not show its detector the whole window | - |

Modules that share no state run side by side in `session_ticks`, `worker_trades` and `surroundings`, and
two instances of the loop do in `session`: the first state chooses one of them and the others
stand still, so that a state of the run is a state of one module.

**Bounds.** Two symbols (one is managed, the other is where a stale memory shows),
two close orders (a tracked and a left-over one), two trades (a position and its
successor, which inherits stale flags), up to two deaths; counters of ticks are
capped just past their threshold. Pipeline: one position and three lanes (one
iteration in progress, one overlapping, one delayed), two strategies competing
for one gate. Every safety property of a passing run is also a theorem (section 4), so none of them
depends on these bounds; the liveness properties are checked within them only. Maker order: three units, so that a fill may come in
parts before and after the timeout, and three polls (first, middle, last). Two-leg trade: legs of
two units, the least with a partial fill; one death, because a second one finds the
job in a state the first can leave it in too. Aggressive traders: two units long against one
short on one symbol, which is the least that nets with a remainder, and one trade a day. A
behaviour is about exposure (two orders, a price for each side to profit, one kind of mishap,
no midnight) or about days (up to three paper trades, one midnight, one close, no mishap).
Strategy workers: two iterations at a time, one kind of mishap, additions and hedges of one unit,
two trades where the first leaves something to the second (ma-crossover's allocator), else one; a
hedge on another symbol, which no property looks at, on paper only. Session ticks: entries of two units, two closes
resting, two kinds of mishap. Session starts: three pids (an orphan, a new session and one of the
supervisor), two attempts (the code has three: a middle and a last one), two boots, two
deaths (of the worker, then of a session or the next worker). Websocket client: three sockets (a late one,
a current one, a next one), two upsets. Caches: ages of two ticks against a time to live of four.
Learning: three prices, two window lengths, a day of six ticks out of eight. Drawdown guard:
three trades of three profits (a loss beyond the limit, one within it, a gain), one restart, a
day of five ticks. Pump window: a window of three, up to four samples, fetches of up to two.

**Fairness.** `session` assumes of the loop that reconciles that it keeps taking steps and that a dead
process is restarted: `runTrader` is one sequential `while` loop whose awaits end
by an answer or by the client's timeout, and the container has `restart`. Nothing is assumed of
the exchange. `worker_trades` assumes weak fairness of every manage iteration and of the
agent (workers poll their queues) and strong fairness of a successful position
read (`getPosition` does not fail for ever), in the pipeline and in the two-leg trades; nothing
forces an exit decision.
`surroundings` assumes that every await of the maker call ends, that the timers of the websocket client
fire and that a transport opens or reports its end; sockets that go silent without an end are
allowed, and the number of failures is bounded, because a network that fails for ever never streams.

**Failures that are assumed away.** `session` switches the failed reads off because
the code maps them to "no position" and "filled" (see the hazards): with them a position that
is open is given up in one step. It switches the reconciliation off because of the stale
pending close described below, except for `EndsAreNoticed`. `SafetyStopInTime` leaves out
positions taken over from the snapshot after a restart: their entry tick is `null` (`held` is
-1), and the loop never places a safety stop for them. `pipeline` has every failing Redis
command but the one that adds the manage job: without it the position has no reviewer at
all. The pipeline of `worker_trades` runs
without failing Redis commands: when the removal of a schedule fails
(`safeRemoveRepeatable` swallows it), the job fires again, takes the closed position
for an external close and records it once more, so `NothingTwice` would not hold.
`NakedIsAlerted` is stated for market entries and answered
requests: a maker-only first leg that times out after a partial fill is reported as
skipped (`pilots-spread.ts` 134-142 says that "nothing has been opened yet"), and a lost
answer leaves sizes the job never learns of. `ClosesNeverFlip` leaves out the spot
leg, whose closes are plain orders and are repeated. The properties of `aggressive`,
`strategy_workers` and `session_ticks` name in their text the kinds of failure after which they
may not hold; `CooldownRespected` and `CreditsKept` also leave out what follows once the gate's
three counts have missed a manage job.

**What the code does otherwise than one would expect.** The models contain the following
behaviours as they are; the properties are stated around them, each saying so where it does.

- Session: a death between the ledger entry of a close and the snapshot may enter a trade twice, if an
  earlier death has left another position on the same symbol: hydration takes it for the trade, and it is settled
  again. One death alone cannot do this (`LedgerExact`).
- Session: a reconciliation lifts the halt "until manually cleared" (`run-trader.ts` 4799) once
  the scanner looks at another symbol (`HaltLasts`, the run `session_bug_halt`); a pending close outlives the position it closes
  (4786) and settles the next one; a position the exchange closed is forgotten without profit
  or outcome, so neither the daily loss limit nor the drawdown guard sees a native stop.
- Every worker stack: the gate adds up three counts read one after the other (`bullmq-shared-state.ts`
  66-70, `aggressive-workers.ts` 105, `pump-scanner-worker.ts` 112). A manage job that moves between
  the counted states is missed, and two evaluators may both find nothing; so a second position may be
  opened, although `deploy/README.md` 135 speaks of one global position and `pump-scanner-worker.ts` 7-8
  of one of the two evaluators opening. The models contain both; no run claims one position, and the properties
  say what holds in spite of it (`ExposureManaged`, `TradesPerDayBounded`) or leave such behaviours
  out (`CooldownRespected`, `CreditsKept`).
- Pipeline: a stalled intent is executed again after the worker died between order and manage job.
- Aggressive traders: when the hunter and the pump scanner hold opposite sides of one symbol, their positions
  net; a close is then cut to the net or refused as nothing is left to reduce, and a trade whose close is
  refused stays watched and blocks the gate.
- Single-leg stacks: `job.updateData` (`llm-managed-workers.ts` 154) reaches the iteration that runs, not the one
  that was queued before it began; the next iteration manages, and closes, the old size, so that an
  addition stays open after the close. Overlapping iterations may credit a trade twice, and a missed gate
  lets the open tick write an allocator state back that lacks a trade (`allocator-redis.ts` 7-8 relies on the gate).
- In-process ticks: live closes are resting limit orders nobody awaits, and each
  tick may add another; an order that fills before it is cancelled makes `cancelOrder` throw out of the
  session, which ends without an alert while it holds a position; basis-arb, calendar-spread,
  pairs-trading and llm-managed keep their position in memory only, so a restart forgets it; a full
  close of llm-managed forgets its hedge; a hedge on the position's own symbol nets with it; no tick
  reconciles with the exchange.
- Session starts: a stale lock whose pid was given to another process keeps
  every session out, and the session job fails for good after its attempts; nothing restarts a session that
  ended while the worker lives.
- Websocket client: a late close event of an old socket drops the current one and leaves it open as
  an orphan; after a change of the order book's depth the old topic stays subscribed. Private client: a failed
  authentication is not tried again, a stopped client cannot be started again. The position source
  checks the age of the last message, not of the entry (`position-source.ts` 11-13
  promises the entry's).
- Learning: the reset at midnight is credited as a trade (`ma-crossover-open-processor.ts` 190-193
  takes every change for one); the session does not credit a close that is followed by an entry in the same tick; an entry is
  judged before the loss of the same tick's exit is counted; a variant whose window is longer than the configured
  one never trades in the session, whose history is cut to the configured length.
- Drawdown guard: the samples are of the day's profit, so midnight looks like a fall or hides
  one; the first loss after a quiet window never halts by velocity; the halt is lost with the process.
- Pump scanner: its window is pruned to less than the span its detector asks for, so
  it never reports anything, although `deploy/README.md` 367-370 expects 5 to 20 anomalies a day
  (`WholeWindowSeen`, the run `pump_bug_blind`).

## 4. Proofs

Every safety property that a passing run checks, invariant or action property, is also a theorem: it holds
for every value of the constants that satisfies the module's named assumption, so for any number
of symbols, orders, legs, lanes, pids, sockets, days or deaths. A theorem has a hypothesis only where the run
switches something off that the property does not survive ("Failures that are assumed away"
above), and then it is that setting. Each proof is: `Init` implies an inductive invariant, every
action preserves it (one step per action), the invariant implies the property. The invariants were
checked with TLC on the runs' instances before they were proved.

**`TraderSession_proofs`.** Unconditional: `TypeOK`; `SnapshotFresh`, from the invariant that
names for every stage whether the snapshot is behind; `ClosesOnlyReduce`, since every open
close order is reduce-only with a positive quantity. The others:

- `OneCloseOrder` (`ReconcileTicks = 0`, `~ApiErrors`): `CloseInv` says that the open orders are at
  most the tracked one, which belongs to the position held. The property alone does not say
  why no other order is open when a new one is placed.
- `SafetyStopInTime` (`LogicalExits`, `~ApiErrors`): for positions this process has opened. `SafetyInv` ties the age `held` to the flag `safetyPlaced`, the flag to
  the stop on the exchange, and both to holding a position, so that a flag that outlives
  its position breaks it.
- `StopOrFallback` (`~LogicalExits`): `StopInv`; any call may fail.
- `NoUnmanagedExposure` and `LedgerExact` (`ReconcileTicks = 0`, `~ApiErrors`): `ExposureInv` says that
  the memory is the exchange's truth up to a position the exchange has just closed, and that a
  filled tracked order means its position is gone. The ledger is accounted with `Due`, the
  trade still to be entered: the one in memory or about to be settled, after a death the one that
  the snapshot brings back. Proving the latter refuted a stronger form of `LedgerExact`: with two deaths a
  trade may be entered twice (section 3), so that conjunct now ends with the first death.

**`TradePipeline_proofs`.** `TypeOK`, and `ScheduleCarriesOn` for at most one worker death, from
`ChainInv`: every schedule has a *head*, an iteration that is queued or picked but
not yet rescheduled, and no job is marked stalled before the first death. (An iteration past the
scheduling step no longer carries the chain, which is why the property is not inductive.)
`LiveInv`, unconditional, says that no iteration of a live position is past the close and that a position in the
agent's hands is new to queue and ledger; so the ledger holds closed positions only. `NoOrphan` (`~ApiErrors`, jobs can be
added) combines it with the chain. `NothingTwice` (`~SlowTicks`, entries and removals
succeed) needs to know that iterations of a position overlap only as a delayed and a running one (`AloneInv`) and that
an entered position has nothing left that could enter it again (`EnteredInv`).

**`TwoLegTrade_proofs`.** `TypeOK`; `BothLegsManaged`, whose invariant adds what holds on
the way to the manager: nothing rests under market entries (`NothingRests`), the first leg is open
while the second is being opened (`HalfOpen`), both are open from the moment the job is
to be added until a close is tried (`BothOpen`); `ClosesNeverFlip`, which is inductive; `NakedIsAlerted`, from
`LegsInv`: in a calm run a leg is whole or closed, and the place of the job tells which. All
unconditional, each property naming the mishaps it excludes.

**`AggressiveTraders_proofs`.** All unconditional. The inductive invariant `Inv` adds to the types that a manager
at work has a trade, that an evaluator works on an intent of its own, that every job
comes from an intent, and that a scheduled trade has an iteration queued or about to
queue the next. `TradesPerDayBounded`
rests on `TradesOk`: what is ordered on a day is counted in its hash or about to be, a decided order has its place
below the bound already, and a day that is seeded after its midnight misses at most one order. The
proof is done for one evaluator's view and applied to both. `DayAccount`: the hashes
of all days and the profit owed by the manage worker add up to `realised`, and so does the ledger until it is
trimmed. `ExposureManaged` is inductive over `Inv`: the cover of a side is a sum of weights, one for each trade
watched and one for each entry on its way, an entry adds as much to the cover as to the
position, every other step leaves the position or brings it nearer to zero, and a close takes from the cover what it takes
from the position, unless it was cut, and then nothing is left to cover. `TradesPerDayBounded`
needs `maxTrades` to be an integer, which `AggressiveAssumption` says.

**`StrategyWorkers_proofs`.** All unconditional; `CooldownRespected` and `CreditsKept` say themselves what they leave out.
Everything rests on the gate: past it, unless it has missed a job, no iteration is
queued, running or stalled (`GateInv`), so the open tick and the iterations never cross. `CooldownRespected`: a recent cut loss is written or in the
hands of an iteration that will write it (`CoolInv`). `CreditsKept`: at most the last trade is without a credit, its
schedule is still there, and whatever copy of the allocator's state an iteration or the open tick holds is as recent (`CreditInv`).

**`SessionTicks_proofs`.** All unconditional. `OneSession`: without an overlap, whoever trades is named
in the lock, and a session between check and write is alone with it (`LockOK`). `AnswerIsTrue` and `NothingForgotten` share `HeldInv`: which stage goes with which strategy, call
and order (`Shape`); what is held at each stage of `executeTrade` (`Entering`); that otherwise the session never tracks
less than is held (`Believing`); and for the other ticks that more is left on a leg than is tracked only
if the operator was told or the tick is about to compensate and tell (`HeldOthers`). `SessionsHold` carries all three
properties over to the composition `MCSessionTicks`, which is the one the run `session_ticks` checks.

**`Surroundings_proofs`.** The parts share no state; each property is proved of the part's own
specification. `PartsAreKept` shows that every behaviour of the parts side by side (`AllFairSpec`) is a behaviour of each of them:
a step of one part leaves the variables of the others unchanged. `SurroundingsHold` and `DayLossHolds` carry the
properties over to that composition, which is the one the run `surroundings` checks.

- `ConnectionKept`: close to inductive; before the first start there is no transport whose late close
  could set the timer.
- `ServedFresh`: the hash's data and stamp agree, and a reader between its two reads still
  has the data of the hash unless that was rewritten meanwhile.
- `PositionServed`: updates are on their way only on a streaming connection, and the last of them is the position.
- `ScannerIsBlind`: for every window, cap and fetch time the detector never gets what it asks for, by arithmetic. It is the general
  form of what the run `pump_bug_blind` shows by one counterexample, and no property of a run.
- `CreditIsEarned`: unconditional. `DayLossBounded`: for a limit above zero and prices below some bound (without
  one there is no worst trade). Its invariant leaves a variant that holds a position one worst trade less room than a flat one.
- `HaltIsEarned`: `BreakerInv` says that the samples are the last of the closes and what was pruned is out of the
  window (`Recorded`), that a sample of the current day is above its profit by what was lost since
  (`Reckoned`), and that the outcomes are those since the last resume (`Counted`).
- `MakerExecution`: `TypeOK`, which carries the accounts of the limit order
  (what is executed and resting adds up to the lot as long as the order is live or
  filled), and from it the refinement: `Init` maps to the abstract `Init`; every step
  before the return is a stutter, because the mapping hides the account; the step that
  returns is `Answer`, whose outcome lies in `Outcomes` by the accounts; a fill or a
  cancellation afterwards is `LateFill`. No run lists `TypeOK`: the refinement, which is checked, rests on it.

**`SumFacts`.** `DayAccount`, `ExposureManaged` and `HaltIsEarned` add up families of any size with the
library's `FoldFunction`, whose definition picks elements by `CHOOSE`. The induction theorems of the proof library
cannot be instantiated here, so each fact is proved by a least counterexample instead: among the subsets of the domain that
violate it there is a smallest one, and taking an element out of it gives a contradiction. From this follow
that the recursion has a solution, that any element may be split off first, that
reindexing changes nothing, and what a change, an omission, a removal and a push do to a sum.

Two definitions were rewritten so that they can be reasoned about; TLC found the old and the new ones equal on all
reachable states. `DrawdownBreaker!Young` was a `SelectSeq`, which the prover cannot expand,
and now cuts off the front of the samples, which are in order of time. `LostSince` adds up a function
instead of a subsequence. Two operators (`StrategyWorkers!Appended`, `SessionStarts!JobEnds`) had `CASE`
arms that overlapped, and are now written with `IF`.

**What stays with TLC.** The liveness properties (`EndsAreNoticed`, `ClosedIsFinished`,
`MissingLegNoticed`, `Streams`, `MakerReturns`): they need fairness and ENABLED, which the prover does not handle. The four
violations are counterexamples.

## 5. Plan

All components that place orders, guard them or feed them are modelled, and every safety property of the runs
is proved. What is left:

1. Refinements beyond the maker order: `TwoLegTrade` as an implementation of an abstract trade of two legs, `StrategyWorkers` and
   `SessionTicks` of an abstract trade of one.
2. The safety parts of the liveness arguments: for each of the liveness properties the invariant that says
   which step is enabled while the goal is not reached.

## 6. Not modelled

- Decision rules: the liquidation map and hunter, the pump analyzer, tiers, universe and
  event readers, the strategies' `decide` functions, the allocator's scores, the choice of
  the champion, position sizing and the distance of the trailing stop. They are arithmetic on prices, or a
  language model's answer; every model leaves them free, so what is shown holds for any rule.
- Scanner scoring, indicators, reports, boards, command line tools, advisory loops and the
  health endpoint are read-only or produce advice.
- The REST client: signing, parsing and its retries are conversions; the order-book and liquidation
  caches, which follow the ticker's pattern and feed decisions.
- BullMQ, Redis, Bybit and the operating system are external and modelled by what the code relies
  on.
