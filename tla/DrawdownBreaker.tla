---------------------------- MODULE DrawdownBreaker ----------------------------
(***************************************************************************)
(* The drawdown-velocity guard of the live session: samples of the day's   *)
(* profit and outcomes of closed trades are kept in memory, a close is     *)
(* judged by both, and a verdict pauses entries for a cooldown.            *)
(***************************************************************************)
EXTENDS Integers, Sequences, SequencesExt

CONSTANTS
    Profits,       \* of a trade, a set of integers
    Window,        \* drawdownVelocityWindowMs
    MaxDrawdown,   \* drawdownVelocityMaxUsd
    MaxLosses,     \* drawdownMaxConsecutiveLosses: 0 is off
    Cooldown,      \* drawdownHaltCooldownMs
    BreakerDay,    \* length of a UTC day
    MaxCloses,     \* bound: trades
    MaxRestarts,   \* bound: deaths of the session
    MaxBreakerTime \* bound: of the clock

ASSUME BreakerAssumption ==
    /\ Profits \subseteq Int
    /\ {Window, MaxDrawdown, MaxLosses, MaxCloses, MaxRestarts, MaxBreakerTime} \subseteq Nat
    /\ {Cooldown, BreakerDay} \subseteq Nat \ {0}

VARIABLES
    now,
    inTrade,     \* state.position
    realized,    \* state.realizedPnlUsd
    pnlDay,      \* state.dayStartedAt
    pnlSamples,  \* drawdownVelocityState.recentPnlSamples: [ts, pnl]
    outcomes,    \* recentOutcomes
    haltUntil,   \* drawdownHaltUntilMs
    closes,      \* ghost: every close settled since the start, [ts, pnl]
    resumedAt,   \* ghost: how many closes there were at the last resume
    judged,      \* ghost: the last action was a settled close
    restarts

breakerVars == <<now, inTrade, realized, pnlDay, pnlSamples, outcomes, haltUntil,
                 closes, resumedAt, judged, restarts>>

-----------------------------------------------------------------------------
Day(t) == t \div BreakerDay

\* The filter by age drops the front: samples are recorded in order of time.
Young(samples, t) ==
    LET young == {i \in DOMAIN samples : samples[i].ts >= t - Window}
    IN  SubSeq(samples, Min(young \cup {Len(samples) + 1}), Len(samples))

RecordPnlSample(samples, t, pnl) == Append(Young(samples, t), [ts |-> t, pnl |-> pnl])

\* "drawdown-velocity": the fall from the highest sample to the last.
FallsTooFast(samples, t) ==
    LET inWindow == Young(samples, t)
    IN \E i \in DOMAIN inWindow : inWindow[i].pnl - Last(inWindow).pnl > MaxDrawdown

\* "consecutive-losses".
LosesTooOften(results) ==
    /\ MaxLosses > 0
    /\ Len(results) >= MaxLosses
    /\ \A i \in Len(results) - MaxLosses + 1 .. Len(results) : results[i] = "loss"

EvaluateDrawdownVelocity(samples, results, t) ==
    FallsTooFast(samples, t) \/ LosesTooOften(results)

-----------------------------------------------------------------------------
\* The start of every tick: the day's profit is reset at midnight.
Rollover(t) ==
    IF Day(pnlDay) = Day(t) THEN [pnl |-> realized, day |-> pnlDay] ELSE [pnl |-> 0, day |-> t]

\* The order of a close has filled: profit, outcome, sample, verdict.
SettleClose(profit) ==
    LET pnl     == Rollover(now).pnl + profit
        results == Append(outcomes, IF profit >= 0 THEN "win" ELSE "loss")
        samples == RecordPnlSample(pnlSamples, now, pnl)
    IN /\ inTrade
       /\ Len(closes) < MaxCloses
       /\ inTrade' = FALSE
       /\ realized' = pnl
       /\ pnlDay' = Rollover(now).day
       /\ outcomes' = results
       /\ pnlSamples' = samples
       /\ haltUntil' = IF EvaluateDrawdownVelocity(samples, results, now)
                       THEN now + Cooldown ELSE haltUntil
       /\ closes' = Append(closes, [ts |-> now, pnl |-> profit])
       /\ judged' = TRUE
       /\ UNCHANGED <<now, resumedAt, restarts>>

\* The exchange closed the position and the reconciliation notices: it is
\* forgotten, and neither profit nor outcome is recorded.
ReconcileMissing ==
    /\ inTrade
    /\ inTrade' = FALSE
    /\ realized' = Rollover(now).pnl
    /\ pnlDay' = Rollover(now).day
    /\ judged' = FALSE
    /\ UNCHANGED <<now, pnlSamples, outcomes, haltUntil, closes, resumedAt, restarts>>

OutcomesKept == /\ haltUntil' = 0
                /\ UNCHANGED outcomes

\* The cooldown is over: outcomes are forgotten, the samples are not.
Resume == /\ haltUntil' = 0
          /\ outcomes' = <<>>

\* A tick without a position: a halt that is over is cleared, and only then
\* is an entry possible.
FlatTick(enters) ==
    /\ ~inTrade
    /\ realized' = Rollover(now).pnl
    /\ pnlDay' = Rollover(now).day
    /\ IF haltUntil > 0 /\ now >= haltUntil
       THEN Resume /\ resumedAt' = Len(closes)
       ELSE UNCHANGED <<haltUntil, outcomes, resumedAt>>
    /\ inTrade' = (enters /\ now >= haltUntil)
    /\ judged' = FALSE
    /\ UNCHANGED <<now, pnlSamples, closes, restarts>>

TimeGoesOn ==
    /\ now < MaxBreakerTime
    /\ now' = now + 1
    /\ judged' = FALSE
    /\ UNCHANGED <<inTrade, realized, pnlDay, pnlSamples, outcomes, haltUntil,
                   closes, resumedAt, restarts>>

\* The session dies and is started again: samples, outcomes and the halt are
\* memory only; position and profit come back from the snapshot.
SessionRestarts ==
    /\ restarts < MaxRestarts
    /\ restarts' = restarts + 1
    /\ pnlSamples' = <<>>
    /\ outcomes' = <<>>
    /\ haltUntil' = 0
    /\ closes' = <<>>
    /\ resumedAt' = 0
    /\ judged' = FALSE
    /\ UNCHANGED <<now, inTrade, realized, pnlDay>>

-----------------------------------------------------------------------------
BreakerInit ==
    /\ now = 1
    /\ inTrade = FALSE
    /\ realized = 0
    /\ pnlDay = 1
    /\ pnlSamples = <<>>
    /\ outcomes = <<>>
    /\ haltUntil = 0
    /\ closes = <<>>
    /\ resumedAt = 0
    /\ judged = FALSE
    /\ restarts = 0

BreakerNext ==
    \/ \E profit \in Profits : SettleClose(profit)
    \/ ReconcileMissing
    \/ \E enters \in BOOLEAN : FlatTick(enters)
    \/ TimeGoesOn
    \/ SessionRestarts

BreakerSpec == BreakerInit /\ [][BreakerNext]_breakerVars

-----------------------------------------------------------------------------
(* Properties.                                                             *)

LostSince(i) == -FoldFunction(+, 0, [j \in i + 1 .. Len(closes) |-> closes[j].pnl])

\* What the trades themselves say: since a close of the window they have lost
\* more than MaxDrawdown, or the last MaxLosses since the resume were losses.
HaltDeserved ==
    \/ \E i \in DOMAIN closes : closes[i].ts >= now - Window /\ LostSince(i) > MaxDrawdown
    \/ /\ MaxLosses > 0
       /\ Len(closes) - resumedAt >= MaxLosses
       /\ \A i \in Len(closes) - MaxLosses + 1 .. Len(closes) : closes[i].pnl < 0

WithinOneDay == \A i \in DOMAIN pnlSamples : Day(pnlSamples[i].ts) = Day(now)

\* A settled close halts entries exactly if the trades since the start of the
\* session deserve it, whatever has been pruned, reset or halted before.  Not
\* across midnight: the samples are of the day's profit, whose reset looks like
\* a fall (after a day of profit) or hides one.  A loss counts only from the
\* previous close of the window on, so the first loss after a quiet window
\* never halts by velocity.
HaltIsEarned ==
    judged /\ WithinOneDay => (haltUntil > now <=> HaltDeserved)

=============================================================================
