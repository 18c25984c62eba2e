---------------------------- MODULE ShadowLearning ----------------------------
(***************************************************************************)
(* Paper trading of a bandit variant: the pure step() of the strategy, its *)
(* risk limits, and the two loops that run it on every price and credit    *)
(* what it earned to the allocator.  "session" is the loop of runTrader,   *)
(* "worker" the shadow pass of the ma-crossover open processor.            *)
(*                                                                         *)
(* One unit is traded, so a profit is a difference of prices less the fee. *)
(* Time is counted in ticks; 0 stands for the null of a time.              *)
(***************************************************************************)
EXTENDS Integers, Sequences, SequencesExt

CONSTANTS
    Prices,        \* prices, a set of positive numbers
    Fast, Slows,   \* windows of the variant: the fast one, choices of the slow
    ConfigSlow,    \* config.slowWindow: what the session keeps of the prices
    ThresholdBps, StopLossBps, TakeProfitBps,
    Fee,           \* of a round trip
    MaxDailyLoss,
    MinIntervals,  \* choices of minTradeIntervalMs
    DayLength, Horizon  \* ticks of a day and of a behaviour

ASSUME LearningAssumption ==
    /\ Prices \subseteq Nat \ {0}
    /\ {Fast, ConfigSlow, DayLength} \cup Slows \subseteq Nat \ {0}
    /\ {ThresholdBps, StopLossBps, TakeProfitBps, Fee, MaxDailyLoss, Horizon}
           \cup MinIntervals \subseteq Nat

VARIABLES
    loop,      \* "session" or "worker"
    slow,      \* slowWindow of the variant
    interval,  \* minTradeIntervalMs
    clock,
    history,   \* prices kept between ticks
    paper,     \* TraderState: [side, entry, last, pnl, day]
    credit,    \* what the tick has to add to the allocator, or NoCredit
    settled    \* ghost: what the close of this tick really earned, or NoCredit

learnVars == <<loop, slow, interval, clock, history, paper, credit, settled>>

Flat == 0                    \* a signal or a side: 1 long, -1 short
NoCredit == <<>>
EmptyState == [side |-> Flat, entry |-> 0, last |-> 0, pnl |-> 0, day |-> 0]

-----------------------------------------------------------------------------
(* trading-core.                                                           *)

SameDay(s, t) == s \div DayLength = t \div DayLength

Latest(n, s) == IF Len(s) > n THEN SubSeq(s, Len(s) - n + 1, Len(s)) ELSE s

Total(s) == FoldSeq(LAMBDA a, b : a + b, 0, s)

RolloverDailyPnl(state, t) ==
    IF state.day = 0 THEN [state EXCEPT !.day = t]
    ELSE IF SameDay(state.day, t) THEN state
    ELSE [state EXCEPT !.pnl = 0, !.day = t]

\* buildSignal: the distance of the averages in basis points of the slow one,
\* multiplied out.
BuildSignal(prices) ==
    LET slowSum  == Total(Latest(slow, prices))
        distance == 10000 * (slow * Total(Latest(Fast, prices)) - Fast * slowSum)
        limit    == ThresholdBps * Fast * slowSum
    IN IF Len(prices) < slow THEN Flat
       ELSE IF distance >= limit THEN 1
       ELSE IF distance <= -limit THEN -1
       ELSE Flat

\* The move from the entry in the direction of the position reaches a target.
HitsTakeProfit(state, price) ==
    10000 * state.side * (price - state.entry) >= TakeProfitBps * state.entry
HitsStopLoss(state, price) ==
    10000 * state.side * (price - state.entry) <= -StopLossBps * state.entry

\* getExitReason # null.
Exits(state, price, signal) ==
    /\ state.side # Flat
    /\ \/ HitsTakeProfit(state, price)
       \/ HitsStopLoss(state, price)
       \/ signal = -state.side

RiskWithoutLossLimit(signal, state, t, marketOk) ==
    /\ signal # Flat
    /\ state.last # 0 => t - state.last >= interval
    /\ marketOk

\* evaluateRisk and evaluateAggressivePerpsRisk allow an entry; spread,
\* funding and notional are left to marketOk.
RiskAllows(signal, state, t, marketOk) ==
    /\ signal # Flat
    /\ state.last # 0 => t - state.last >= interval
    /\ SameDay(state.day, t) => state.pnl > -MaxDailyLoss
    /\ marketOk

\* updatePaperState.
PaperClose(state, price, t) ==
    [RolloverDailyPnl(state, t) EXCEPT
        !.last = t, !.side = Flat, !.entry = 0,
        !.pnl = @ + state.side * (price - state.entry) - Fee]

PaperOpen(state, signal, price, t) ==
    [RolloverDailyPnl(state, t) EXCEPT !.last = t, !.side = signal, !.entry = price]

\* decideStep and step: the risk of an entry is judged on the state before
\* the exit, with the position taken out and its time set, its profit not in.
Step(window, state, price, t, marketOk) ==
    LET today   == RolloverDailyPnl(state, t)
        prices  == IF Len(window) + 1 > slow THEN Tail(Append(window, price))
                   ELSE Append(window, price)
        signal  == BuildSignal(prices)
        exits   == Exits(today, price, signal)
        judged  == IF exits THEN [today EXCEPT !.last = t, !.side = Flat] ELSE today
        allowed == RiskAllows(signal, judged, t, marketOk)
        closed  == IF exits THEN PaperClose(today, price, t) ELSE today
    IN IF closed.side = Flat /\ allowed THEN PaperOpen(closed, signal, price, t) ELSE closed

-----------------------------------------------------------------------------
(* The loops.                                                              *)

\* What a close of this tick earns: the difference to the day's profit after
\* the rollover.
Settlement(before, after, t) ==
    IF before.side # Flat /\ (after.side = Flat \/ after.last = t)
    THEN <<after.pnl - RolloverDailyPnl(before, t).pnl>> ELSE NoCredit

\* runTrader: had a position, has none.
SessionCredit(before, after) ==
    IF before.side # Flat /\ after.side = Flat THEN <<after.pnl - before.pnl>> ELSE NoCredit

WorkerCreditOnFlat(before, after) ==
    IF before.side # Flat /\ after.side = Flat THEN <<after.pnl - before.pnl>> ELSE NoCredit

\* processMaCrossoverOpenTick: any change of the day's profit.
WorkerCredit(before, after) ==
    IF after.pnl # before.pnl THEN <<after.pnl - before.pnl>> ELSE NoCredit

\* getPriceHistory and its truncation to config.slowWindow.
SessionHistory(price) == Latest(ConfigSlow, Append(history, price))

\* The session keeps config.slowWindow prices, and runs the step before it
\* adds the price of the tick.  History and ticker are the active symbol's
\* (4593-4596) while the paper state is kept per variant (4587): after a change
\* of symbol a variant goes on with another symbol's prices, which are free here.
SessionTick(price, marketOk) ==
    /\ loop = "session"
    /\ clock < Horizon
    /\ paper' = Step(history, paper, price, clock, marketOk)
    /\ credit' = SessionCredit(paper, paper')
    /\ settled' = Settlement(paper, paper', clock)
    /\ history' = SessionHistory(price)
    /\ clock' = clock + 1
    /\ UNCHANGED <<loop, slow, interval>>

\* The shadow pass adds the price to a copy that the step adds it to again;
\* the history of the processor gets it only when the tick reads a price for
\* the champion too.  Ticks with a live position are skipped.
WorkerTick(price, marketOk) ==
    /\ loop = "worker"
    /\ clock < Horizon
    /\ paper' = Step(Append(history, price), paper, price, clock, marketOk)
    /\ settled' = Settlement(paper, paper', clock)
    /\ credit' = WorkerCredit(paper, paper')
    /\ history' \in {history, Latest(slow, Append(history, price))}
    /\ clock' = clock + 1
    /\ UNCHANGED <<loop, slow, interval>>

\* A tick is skipped or takes longer than the interval.
TimePasses ==
    /\ clock < Horizon
    /\ clock' = clock + 1
    /\ credit' = NoCredit
    /\ settled' = NoCredit
    /\ UNCHANGED <<loop, slow, interval, history, paper>>

LearnInit ==
    /\ loop \in {"session", "worker"}
    /\ slow \in Slows
    /\ interval \in MinIntervals
    /\ clock = 1
    /\ history = <<>>
    /\ paper = EmptyState
    /\ credit = NoCredit
    /\ settled = NoCredit

LearnNext ==
    \/ \E price \in Prices, marketOk \in BOOLEAN :
        SessionTick(price, marketOk) \/ WorkerTick(price, marketOk)
    \/ TimePasses

LearnSpec == LearnInit /\ [][LearnNext]_learnVars

-----------------------------------------------------------------------------
(* Properties.                                                             *)

\* The most one position can lose between two prices that are seen.
WorstTrade ==
    Fee + CHOOSE d \in {p - q : p, q \in Prices} : \A p, q \in Prices : p - q <= d

\* The daily loss limit stops a variant after the trade that crosses it - and,
\* where a trade may follow at once, after one more: the entry of the tick
\* that closes at a loss is judged before the loss is counted.
DayLossBounded ==
    paper.pnl > -(MaxDailyLoss + (IF interval = 0 THEN 2 ELSE 1) * WorstTrade)

\* Within a day a loop credits the allocator with exactly what the close of a
\* tick earned, or with nothing where it earned nothing.  The session misses a
\* close that is followed by an entry in the same tick.  On the first tick of
\* a day the reset of the day's profit is taken for a trade (worker) or for a
\* part of one (session).
CreditIsEarned ==
    [][paper'.day = paper.day =>
          /\ credit' # NoCredit => credit' = settled'
          /\ settled' \notin {NoCredit, <<0>>} =>
                 \/ credit' # NoCredit
                 \/ loop = "session" /\ paper'.side # Flat]_learnVars

=============================================================================
