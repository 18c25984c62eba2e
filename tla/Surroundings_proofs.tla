-------------------------- MODULE Surroundings_proofs --------------------------
(***************************************************************************)
(* Proofs about the parts around the trading loops: the public websocket   *)
(* client, the price path, the position source, the pump scanner's window, *)
(* the paper step of the bandit's variants, the maker order and the        *)
(* drawdown breaker.  The parts share no state; each has its own           *)
(* specification and its own invariant.                                    *)
(***************************************************************************)
EXTENDS MCSurroundings, SumFacts

-----------------------------------------------------------------------------
(* The public websocket client.                                            *)

WsTyped ==
    /\ conn \in [Sockets -> ConnStates]
    /\ asked \in [Sockets -> SUBSET Topics]
    /\ socket \in Sockets \cup {NoSocket}
    /\ phase \in Phases
    /\ retry \in BOOLEAN
    /\ wanted \subseteq Topics

\* Before the first start no transport exists whose late close could set the
\* timer.
WsInv ==
    /\ WsTyped
    /\ ConnectionKept
    /\ phase = "idle" => ~pinging /\ \A s \in Sockets : conn[s] = "none"

LEMMA WsInvariant ==
    /\ WsInit => WsInv
    /\ WsInv /\ [WsNext]_wsVars => WsInv'
<1>1. WsInit => WsInv
  BY WsAssumption DEF WsInit, WsInv, WsTyped, ConnectionKept, ReadyState, ConnStates, Phases, Topics
<1>2. ASSUME WsInv, [WsNext]_wsVars PROVE WsInv'
  <2> USE <1>2, WsAssumption DEF WsInv
  <2>1. CASE UNCHANGED wsVars
    BY <2>1 DEF wsVars, transports, timers, WsTyped, ConnectionKept, ReadyState
  \* A new transport, or the timer again: what connecting does to a client
  \* without a socket.
  <2>2. ASSUME Connect, phase' = "started", socket = NoSocket, UNCHANGED <<asked, wanted>> PROVE WsInv'
    <3>1. CASE retry' = TRUE /\ UNCHANGED <<conn, socket>>
      BY <2>2, <3>1 DEF WsTyped, ConnectionKept, ReadyState, Phases
    <3>2. ASSUME NEW s \in Sockets, conn' = [conn EXCEPT ![s] = "connecting"], socket' = s, retry' = FALSE
          PROVE  WsInv'
      BY <2>2, <3>2 DEF WsTyped, ConnectionKept, ReadyState, Phases, ConnStates
    <3> QED
      BY <2>2, <3>1, <3>2 DEF Connect
  <2>3. CASE Start
    BY <2>2, <2>3 DEF Start, ConnectionKept
  <2>4. CASE ReconnectTimer
    BY <2>2, <2>4 DEF ReconnectTimer, ConnectionKept
  <2>5. CASE Stop
    BY <2>5 DEF Stop, WsTyped, ConnectionKept, ReadyState, Phases, CloseCurrent, ConnStates
  <2>6. ASSUME NEW t \in Topics, Subscribe(t) \/ SubscribeOrderbook(t) PROVE WsInv'
    BY <2>6 DEF Subscribe, SubscribeOrderbook, SendSubscribe, timers, WsTyped, ConnectionKept, ReadyState
  <2>7. ASSUME NEW t \in Topics, Unsubscribe(t) PROVE WsInv'
    BY <2>7 DEF Unsubscribe, SendUnsubscribe, timers, WsTyped, ConnectionKept, ReadyState
  <2>8. ASSUME NEW s \in Sockets, OnOpen(s) PROVE WsInv'
    BY <2>8 DEF OnOpen, WsTyped, ConnectionKept, ReadyState, ConnStates
  <2>9. ASSUME NEW s \in Sockets, OnClose(s) PROVE WsInv'
    BY <2>9 DEF OnClose, ScheduleReconnect, WsTyped, ConnectionKept, ReadyState, ConnStates, Phases
  <2>10. ASSUME NEW s \in Sockets, Drop(s) \/ FallSilent(s) PROVE WsInv'
    BY <2>10 DEF Drop, FallSilent, timers, WsTyped, ConnectionKept, ReadyState, ConnStates
  <2>11. CASE Watchdog
    BY <2>11 DEF Watchdog, CloseCurrent, ScheduleReconnect, WsTyped, ConnectionKept, ReadyState, ConnStates, Phases
  <2> QED
    BY <2>1, <2>3, <2>4, <2>5, <2>6, <2>7, <2>8, <2>9, <2>10, <2>11 DEF WsNext
<1> QED
  BY <1>1, <1>2

\* ConnectionKept: a started client has a socket or a reconnect timer, never
\* both, and an open current socket has been asked for every wanted topic, for
\* any number of transports, topics, failures and late events.
THEOREM ConnectionIsKept == WsSpec => []ConnectionKept
<1>1. WsInv => ConnectionKept
  BY DEF WsInv
<1> QED
  BY <1>1, WsInvariant, PTL DEF WsSpec

-----------------------------------------------------------------------------
(* The price path.                                                         *)

FeedTyped ==
    /\ time \in Nat
    /\ queue \in Seq(Nat)
    /\ hash \in [data : Nat, stamp : Nat, expires : Nat]
    /\ reader \in [at : {"idle", "age", "rest"}, got : Nat, rewritten : BOOLEAN]

\* The hash carries the age of its own ticker, and unless it was rewritten
\* the reader between its two reads has the ticker of the hash or of none.
FeedInv ==
    /\ FeedTyped
    /\ ServedFresh
    /\ hash.data = hash.stamp
    /\ reader.at = "age" /\ ~reader.rewritten => hash = NoHash \/ hash.data = reader.got

LEMMA FeedInvariant ==
    /\ FeedInit => FeedInv
    /\ FeedInv /\ [FeedNext]_feedVars => FeedInv'
<1>1. FeedInit => FeedInv
  BY DEF FeedInit, FeedInv, FeedTyped, ServedFresh, NoHash, NoRead, NoAnswer
<1>2. ASSUME FeedInv, [FeedNext]_feedVars PROVE FeedInv'
  <2> USE <1>2, FeedAssumption DEF FeedInv
  <2>1. CASE UNCHANGED feedVars
    BY <2>1 DEF feedVars, FeedTyped, ServedFresh
  <2>a. time \in Nat /\ queue \in Seq(Nat) /\ time + Ttl \in Nat
    BY DEF FeedTyped
  <2>b. queue # <<>> => Head(queue) \in Nat /\ Tail(queue) \in Seq(Nat)
    BY <2>a
  <2>2. CASE OnTicker \/ PublishFails \/ TimeAdvances
    <3>1. UNCHANGED <<hash, reader, answer>> /\ time' \in {time, time + 1}
          /\ (queue' = queue \/ queue' = Append(queue, time) \/ (queue # <<>> /\ queue' = Tail(queue)))
      BY <2>2 DEF OnTicker, PublishFails, TimeAdvances
    <3>2. time' \in Nat
      BY <2>a, <3>1
    <3>3. queue' \in Seq(Nat)
      <4>1. Append(queue, time) \in Seq(Nat)
        BY <2>a
      <4> QED
        BY <2>a, <2>b, <3>1, <4>1
    <3> QED
      BY <3>1, <3>2, <3>3 DEF FeedTyped, ServedFresh
  <2>3. CASE Publish
    <3>1. PICK aged \in BOOLEAN : aged = (reader.at = "age")
      OBVIOUS
    <3>2. /\ reader' = [reader EXCEPT !.rewritten = aged]
          /\ hash' = [data |-> Head(queue), stamp |-> Head(queue), expires |-> time + Ttl]
          /\ UNCHANGED <<time, answer>> /\ queue # <<>> /\ queue' = Tail(queue)
      BY <2>3, <3>1 DEF Publish, WriteHash
    <3>3. reader'.at = reader.at /\ reader'.rewritten = aged
      BY <3>2 DEF FeedTyped
    <3>4. reader' \in [at : {"idle", "age", "rest"}, got : Nat, rewritten : BOOLEAN]
      BY <3>2 DEF FeedTyped
    <3>5. hash' \in [data : Nat, stamp : Nat, expires : Nat] /\ hash'.data = hash'.stamp
      BY <2>a, <2>b, <3>2
    <3> QED
      BY <2>b, <3>1, <3>2, <3>3, <3>4, <3>5 DEF FeedTyped, ServedFresh
  <2>4. CASE Expire
    BY <2>4 DEF Expire, FeedTyped, ServedFresh, NoHash
  <2>5. CASE ReadHash
    BY <2>5 DEF ReadHash, FeedTyped, ServedFresh
  <2>6. CASE ReadAge
    <3>1. CASE ~YoungEnough
      BY <2>6, <3>1 DEF ReadAge, FeedTyped, ServedFresh
    <3>2. CASE YoungEnough
      <4>1. /\ answer' = [from |-> "cache", stamp |-> reader.got, asOf |-> time, rewritten |-> reader.rewritten]
            /\ reader' = NoRead /\ UNCHANGED <<time, queue, hash>> /\ reader.at = "age"
        BY <2>6, <3>2 DEF ReadAge, Serve
      <4>2. answer'.rewritten = reader.rewritten /\ answer'.stamp = reader.got /\ answer'.asOf = time
        BY <4>1
      <4>3. ServedFresh'
        BY <3>2, <4>1, <4>2 DEF YoungEnough, ServedFresh
      <4>4. FeedTyped' /\ reader'.at = "idle"
        BY <4>1 DEF FeedTyped, NoRead
      <4> QED
        BY <4>1, <4>3, <4>4
    <3> QED
      BY <3>1, <3>2
  <2>7. CASE ReadRest
    <3>1. reader' = NoRead /\ UNCHANGED <<time, queue, hash>> /\ (answer'.from = "rest" \/ answer' = answer)
      BY <2>7 DEF ReadRest, Serve
    <3> QED
      BY <3>1 DEF NoRead, FeedTyped, ServedFresh
  <2> QED
    BY <2>1, <2>2, <2>3, <2>4, <2>5, <2>6, <2>7 DEF FeedNext
<1> QED
  BY <1>1, <1>2

\* ServedFresh: a ticker served from the cache was the exchange's less than
\* MaxAge ago, for every maximum age, expiry, queue and silence of the feed.
THEOREM PriceIsFresh == FeedSpec => []ServedFresh
<1>1. FeedInv => ServedFresh
  BY DEF FeedInv
<1> QED
  BY <1>1, FeedInvariant, PTL DEF FeedSpec

-----------------------------------------------------------------------------
(* The position source.                                                    *)

PosTyped ==
    /\ posClock \in Nat
    /\ mode \in {"idle", "running", "stopped"}
    /\ link \in {"none", "connecting", "open", "streaming"}
    /\ held \in Positions
    /\ pushed \in Seq(Positions)
    /\ cached \in Seq(Positions)
    /\ missed \in BOOLEAN

\* Updates are on their way only on a connection that streams, and the last
\* of them is the position; with none on its way and none missed the cached
\* position is.
PosInv ==
    /\ PosTyped
    /\ PositionServed
    /\ redial \/ mode = "idle" => link = "none"
    /\ redial => mode # "idle"
    /\ pushed # <<>> => link = "streaming" /\ pushed[Len(pushed)] = held
    /\ cached # <<>> /\ pushed = <<>> /\ ~missed => Head(cached) = held

LEMMA PosInvariant ==
    /\ PosInit => PosInv
    /\ PosInv /\ [PosNext]_posVars => PosInv'
<1>a. <<>> \in Seq(Positions)
  OBVIOUS
<1>1. ASSUME PosInit PROVE PosInv
  <2>1. PosTyped
    BY <1>a, <1>1, PositionAssumption DEF PosInit, PosTyped
  <2>3. PositionServed
    BY <1>1 DEF PosInit, PositionServed, NotServed
  <2>2. pushed = <<>> /\ cached = <<>> /\ link = "none" /\ redial = FALSE
    BY <1>1 DEF PosInit
  <2> QED
    BY <2>1, <2>2, <2>3 DEF PosInv
<1>2. ASSUME PosInv, [PosNext]_posVars PROVE PosInv'
  <2> USE <1>2, PositionAssumption DEF PosInv
  <2>1. CASE UNCHANGED posVars
    BY <2>1 DEF posVars, PosTyped, PositionServed
  <2>2. CASE StartPrivate \/ Redial
    <3>1. UNCHANGED <<posClock, held, pushed, cached, missed, served>>
          /\ mode' \in {mode, "running"} /\ link = "none" /\ mode' # "idle"
          /\ ((link' = "connecting" /\ redial' = FALSE) \/ (redial' = TRUE /\ link' = link))
      BY <2>2 DEF StartPrivate, Redial, Dial
    <3>3. pushed = <<>>
      BY <3>1
    <3>4. PosTyped' /\ PositionServed'
      BY <3>1 DEF PosTyped, PositionServed
    <3> QED
      BY <3>1, <3>3, <3>4
  <2>3. CASE StopPrivate \/ Opened \/ Authenticated \/ OtherMessage \/ PosTimePasses
    <3>1. UNCHANGED <<held, pushed, cached, missed, served>> /\ posClock' \in {posClock, posClock + 1}
          /\ (link' = link \/ (link \in {"connecting", "open"} /\ link' \in {"open", "streaming"}))
          /\ ((mode' = mode /\ redial' = redial) \/ (mode = "running" /\ mode' = "stopped" /\ redial' = FALSE))
      BY <2>3 DEF StopPrivate, Opened, Authenticated, OtherMessage, PosTimePasses
    <3>2. PosTyped'
      BY <3>1 DEF PosTyped
    <3> QED
      BY <3>1, <3>2 DEF PositionServed
  <2>4. CASE PositionMessage
    <3>1. /\ pushed # <<>> /\ cached' = <<Head(pushed)>> /\ pushed' = Tail(pushed)
          /\ UNCHANGED <<posClock, mode, link, redial, held, served>> /\ missed' = FALSE
      BY <2>4 DEF PositionMessage, ApplyPosition
    <3>2. pushed \in Seq(Positions)
      BY DEF PosTyped
    <3>3. /\ Head(pushed) \in Positions /\ Head(pushed) = pushed[1] /\ Tail(pushed) \in Seq(Positions)
          /\ Len(pushed) \in Nat /\ Len(pushed) >= 1 /\ Len(Tail(pushed)) = Len(pushed) - 1
          /\ \A i \in 1..Len(Tail(pushed)) : Tail(pushed)[i] = pushed[i + 1]
      BY <3>1, <3>2
    <3>4. CASE Len(pushed) = 1
      <4>1. Head(cached') = held /\ cached' \in Seq(Positions)
        BY <3>1, <3>3, <3>4
      <4>3. pushed' = <<>>
        BY <3>1, <3>2, <3>3, <3>4
      <4>2. PosTyped'
        BY <1>a, <3>1, <4>1, <4>3 DEF PosTyped
      <4> QED
        BY <3>1, <3>3, <4>1, <4>2, <4>3 DEF PositionServed
    <3>5. CASE Len(pushed) # 1
      <4>1. pushed' # <<>> /\ pushed'[Len(pushed')] = held
        <5>0. Len(Tail(pushed)) \in Nat /\ Len(Tail(pushed)) >= 1
          BY <3>3, <3>5
        <5>1. Len(Tail(pushed)) \in Nat /\ Len(Tail(pushed)) >= 1 /\ Tail(pushed) # <<>>
          <6>1. Len(<<>>) = 0
            OBVIOUS
          <6> QED
            BY <5>0, <6>1
        <5>2. Tail(pushed)[Len(Tail(pushed))] = pushed[Len(pushed)]
          BY <3>3, <5>1
        <5> QED
          BY <3>1, <5>1, <5>2
      <4>2. cached' \in Seq(Positions)
        BY <3>1, <3>3
      <4>3. PosTyped'
        BY <3>1, <3>3, <4>2 DEF PosTyped
      <4> QED
        BY <3>1, <3>3, <4>1, <4>3 DEF PositionServed
    <3> QED
      BY <3>4, <3>5
  <2>5. CASE ClosedLink
    <3>1. /\ UNCHANGED <<posClock, mode, held, cached, served>> /\ pushed' = <<>> /\ link' = "none"
          /\ missed' = (missed \/ pushed # <<>>)
      BY <2>5 DEF ClosedLink
    <3>2. ~missed' => ~missed /\ pushed = <<>>
      BY <3>1
    <3>3. PosTyped'
      BY <1>a, <3>1 DEF PosTyped
    <3>4. redial' => mode' # "idle"
      BY <2>5 DEF ClosedLink
    <3> QED
      BY <3>1, <3>2, <3>3, <3>4 DEF PositionServed
  <2>6. CASE GetPosition
    <3>1. UNCHANGED <<posClock, mode, link, redial, held, pushed, cached, missed>>
      BY <2>6 DEF GetPosition
    <3>2. PICK excused : excused = (missed \/ pushed # <<>>)
      OBVIOUS
    <3>3. /\ served'.from = "cache" => cached # <<>> /\ served'.position = Head(cached)
          /\ served'.held = held
          /\ served'.from = "cache" => served'.excused = excused
      BY <2>6, <3>2 DEF GetPosition
    <3>4. ~excused => ~missed /\ pushed = <<>>
      BY <3>2
    <3>5. PositionServed'
      <4>1. SUFFICES ASSUME served'.from = "cache", ~served'.excused
                     PROVE  served'.position = served'.held
        BY DEF PositionServed
      <4>2. ~excused
        BY <3>3, <4>1
      <4> QED
        BY <3>3, <3>4, <4>1, <4>2
    <3> QED
      BY <3>1, <3>5 DEF PosTyped
  <2>7. ASSUME NEW position \in Positions, PositionChanges(position) PROVE PosInv'
    <3>1. UNCHANGED <<posClock, mode, link, redial, cached, served>> /\ held' = position
      BY <2>7 DEF PositionChanges
    <3>2. CASE link = "streaming"
      <4>1. pushed' = Append(pushed, position) /\ missed' = missed /\ pushed \in Seq(Positions)
        BY <2>7, <3>2 DEF PositionChanges, PosTyped
      <4>2. pushed' \in Seq(Positions) /\ pushed' # <<>> /\ pushed'[Len(pushed')] = position
        BY <4>1
      <4> QED
        BY <3>1, <3>2, <4>1, <4>2 DEF PosTyped, PositionServed
    <3>3. CASE link # "streaming"
      <4>1. missed' = TRUE /\ pushed' = pushed /\ pushed = <<>>
        BY <2>7, <3>3 DEF PositionChanges
      <4> QED
        BY <3>1, <4>1 DEF PosTyped, PositionServed
    <3> QED
      BY <3>2, <3>3
  <2> QED
    BY <2>1, <2>2, <2>3, <2>4, <2>5, <2>6, <2>7 DEF PosNext
<1> QED
  BY <1>1, <1>2

\* PositionServed: a position served from the cache is the exchange's, unless
\* an update is on its way or was lost, for every number of changes, broken
\* connections and every maximum age.
THEOREM CachedPositionIsHeld == PosSpec => []PositionServed
<1>1. PosInv => PositionServed
  BY DEF PosInv
<1> QED
  BY <1>1, PosInvariant, PTL DEF PosSpec

-----------------------------------------------------------------------------
(* The pump scanner's window.                                              *)

\* Times less than a window apart do not span it.
LEMMA TooNarrow ==
    ASSUME NEW lo \in Int, NEW hi \in Nat, hi - lo < WindowMs,
           NEW s, s \subseteq Nat, \A x \in s : lo <= x /\ x <= hi
    PROVE  ~Spans(s)
<1>1. SUFFICES ASSUME Spans(s) PROVE FALSE
  OBVIOUS
<1>2. s # {}
  BY <1>1, FS_EmptySet DEF Spans
<1>3. PICK least \in s : least = Min(s)
  <2>1. \E x \in s : \A y \in s : x =< y
    BY <1>2, LeastOfNats
  <2> QED
    BY <2>1 DEF Min
<1>4. PICK greatest \in s : greatest = Max(s)
  <2>1. \E x \in s : \A y \in s : x >= y
    BY <1>2, GreatestOfNats
  <2> QED
    BY <2>1 DEF Max
<1>5. greatest - least >= WindowMs
  BY <1>1, <1>3, <1>4 DEF Spans
<1>6. greatest <= hi /\ lo <= least /\ greatest \in Nat /\ least \in Nat /\ WindowMs \in Nat
  BY PumpAssumption
<1> QED
  BY <1>5, <1>6

\* What the window keeps is not of the future.
PumpInv ==
    /\ ScannerBlind
    /\ scanClock \in Nat
    /\ samples \subseteq {x \in Nat : x <= scanClock}

LEMMA PumpInvariant ==
    /\ PumpInit => PumpInv
    /\ PumpInv /\ [PumpNext]_pumpVars => PumpInv'
<1>1. PumpInit => PumpInv
  BY DEF PumpInit, PumpInv, ScannerBlind
<1>2. ASSUME PumpInv, [PumpNext]_pumpVars PROVE PumpInv'
  <2> USE <1>2, PumpAssumption DEF PumpInv
  <2>1. CASE UNCHANGED pumpVars
    BY <2>1 DEF pumpVars, ScannerBlind
  <2>2. CASE SkipScan
    BY <2>2 DEF SkipScan, ScannerBlind
  <2>3. ASSUME NEW fetch \in 1..MaxFetch, Scan(fetch) PROVE PumpInv'
    <3> DEFINE taken    == PruneOld(samples \cup {scanClock}, scanClock)
               snapshot == PruneOld(taken, scanClock + fetch)
    <3>1. /\ samples' = snapshot /\ detected' \in {detected, detected \/ Spans(snapshot)}
          /\ scanClock' = scanClock + fetch
      BY <2>3 DEF Scan
    <3>2. \A s, t : PruneOld(s, t) \subseteq {x \in s : x >= t - WindowMs}
      BY DEF PruneOld, DropOldest
    <3>3. taken \subseteq {x \in Nat : x <= scanClock}
      <4>1. taken \subseteq samples \cup {scanClock}
        BY <3>2
      <4> HIDE DEF taken
      <4> QED
        BY <4>1
    <3>4. snapshot \subseteq {x \in Nat : x <= scanClock /\ x >= scanClock + fetch - WindowMs}
      BY <3>2, <3>3
    <3> HIDE DEF taken, snapshot
    <3>5. fetch \in Nat /\ fetch >= 1
      OBVIOUS
    <3>6. ~Spans(snapshot)
      <4>1. \A x \in snapshot : scanClock + fetch - WindowMs <= x /\ x <= scanClock
        BY <3>4, <3>5
      <4>2. scanClock - (scanClock + fetch - WindowMs) < WindowMs /\ scanClock + fetch - WindowMs \in Int
        BY <3>5
      <4>3. snapshot \subseteq Nat
        BY <3>4
      <4> QED
        BY <4>1, <4>2, <4>3, TooNarrow
    <3>7. ~detected'
      BY <3>1, <3>6 DEF ScannerBlind
    <3>8. scanClock' \in Nat /\ samples' \subseteq {x \in Nat : x <= scanClock'}
      BY <3>1, <3>4, <3>5
    <3> QED
      BY <3>7, <3>8 DEF ScannerBlind
  <2> QED
    BY <2>1, <2>2, <2>3 DEF PumpNext
<1> QED
  BY <1>1, <1>2

\* ScannerBlind: however long a fetch takes and whatever the cap, no snapshot
\* spans the window the detector asks for, so the scanner never reports.
THEOREM ScannerIsBlind == PumpSpec => []ScannerBlind
<1>1. PumpInv => ScannerBlind
  BY DEF PumpInv
<1> QED
  BY <1>1, PumpInvariant, PTL DEF PumpSpec

-----------------------------------------------------------------------------
(* The paper step of the bandit's variants.                                *)

PaperStates == [side : {-1, 0, 1}, entry : Nat, last : Nat, pnl : Int, day : Nat]

LEMMA SignalRange ==
    ASSUME NEW prices
    PROVE  BuildSignal(prices) \in {-1, 0, 1}
<1> DEFINE slowSum  == Total(Latest(slow, prices))
           distance == 10000 * (slow * Total(Latest(Fast, prices)) - Fast * slowSum)
           limit    == ThresholdBps * Fast * slowSum
           short    == Len(prices) < slow
           up       == distance >= limit
           down     == distance <= -limit
<1>1. BuildSignal(prices) = IF short THEN Flat ELSE IF up THEN 1 ELSE IF down THEN -1 ELSE Flat
  BY DEF BuildSignal
<1> HIDE DEF short, up, down
<1> QED
  BY <1>1 DEF Flat

\* The rollover leaves a state of today as it is, dates a new one, and resets
\* the profit of any other.
LEMMA RolloverFacts ==
    ASSUME NEW state \in PaperStates, NEW t \in Nat \ {0}, NEW r, r = RolloverDailyPnl(state, t)
    PROVE  /\ r \in PaperStates /\ r.day # 0 /\ SameDay(r.day, t)
           /\ r.side = state.side /\ r.entry = state.entry /\ r.last = state.last
           /\ \/ r = state
              \/ r.pnl = state.pnl /\ r.day = t /\ state.day = 0
              \/ r.pnl = 0 /\ r.day = t /\ ~SameDay(state.day, t)
           /\ RolloverDailyPnl(r, t) = r
<1>0. SameDay(t, t) /\ t # 0
  BY DEF SameDay
<1>1. CASE state.day = 0
  <2>1. r = [state EXCEPT !.day = t]
    BY <1>1 DEF RolloverDailyPnl
  <2>2. r \in PaperStates /\ r.side = state.side /\ r.entry = state.entry /\ r.last = state.last
    BY <2>1 DEF PaperStates
  <2>3. r.day = t /\ r.pnl = state.pnl
    BY <2>1 DEF PaperStates
  <2>4. RolloverDailyPnl(r, t) = r
    BY <1>0, <2>3 DEF RolloverDailyPnl
  <2> QED
    BY <1>0, <1>1, <2>2, <2>3, <2>4
<1>2. CASE state.day # 0 /\ SameDay(state.day, t)
  <2>1. r = state
    BY <1>2 DEF RolloverDailyPnl
  <2> QED
    BY <1>2, <2>1 DEF PaperStates, RolloverDailyPnl
<1>3. CASE state.day # 0 /\ ~SameDay(state.day, t)
  <2>1. r = [state EXCEPT !.pnl = 0, !.day = t]
    BY <1>3 DEF RolloverDailyPnl
  <2>a. r = [side |-> state.side, entry |-> state.entry, last |-> state.last, pnl |-> 0, day |-> t]
    BY <2>1 DEF PaperStates
  <2>2. r \in PaperStates /\ r.side = state.side /\ r.entry = state.entry /\ r.last = state.last
    BY <2>a DEF PaperStates
  <2>3. r.day = t /\ r.pnl = 0
    BY <2>1 DEF PaperStates
  <2>4. RolloverDailyPnl(r, t) = r
    BY <1>0, <2>3 DEF RolloverDailyPnl
  <2> QED
    BY <1>0, <1>3, <2>2, <2>3, <2>4
<1> QED
  BY <1>1, <1>2, <1>3

\* What closing a position earns, and what an allowed entry shows.
Earned(state, price) == state.side * (price - state.entry) - Fee

LEMMA CloseFacts ==
    ASSUME NEW r \in PaperStates, NEW t \in Nat \ {0}, RolloverDailyPnl(r, t) = r,
           NEW price \in Nat, NEW s, s = PaperClose(r, price, t)
    PROVE  /\ s \in PaperStates /\ s.side = 0 /\ s.last = t /\ s.day = r.day
           /\ s.pnl = r.pnl + Earned(r, price)
<1>1. s = [r EXCEPT !.last = t, !.side = Flat, !.entry = 0,
                    !.pnl = @ + r.side * (price - r.entry) - Fee]
  BY DEF PaperClose
<1>2. PICK profit \in Int : profit = r.side * (price - r.entry)
  BY DEF PaperStates
<1>3. Fee \in Nat
  BY LearningAssumption
<1>4. s = [side |-> 0, entry |-> 0, last |-> t, pnl |-> r.pnl + profit - Fee, day |-> r.day]
  BY <1>1, <1>2 DEF PaperStates, Flat
<1>5. PICK after \in Int : after = r.pnl + profit - Fee
  BY <1>3 DEF PaperStates
<1>6. s = [side |-> 0, entry |-> 0, last |-> t, pnl |-> after, day |-> r.day]
  BY <1>4, <1>5
<1>7. s \in PaperStates /\ s.side = 0 /\ s.last = t /\ s.day = r.day /\ s.pnl = after
  BY <1>6 DEF PaperStates
<1>8. after = r.pnl + Earned(r, price)
  BY <1>2, <1>3, <1>5 DEF PaperStates, Earned
<1> QED
  BY <1>7, <1>8

LEMMA OpenFacts ==
    ASSUME NEW r \in PaperStates, NEW t \in Nat \ {0}, RolloverDailyPnl(r, t) = r,
           NEW price \in Nat, NEW signal \in {-1, 0, 1},
           NEW s, s = PaperOpen(r, signal, price, t)
    PROVE  /\ s \in PaperStates /\ s.side = signal /\ s.entry = price /\ s.last = t
           /\ s.day = r.day /\ s.pnl = r.pnl
<1>1. s = [r EXCEPT !.last = t, !.side = signal, !.entry = price]
  BY DEF PaperOpen
<1> QED
  BY <1>1 DEF PaperStates

\* What one step makes of a state r that has been rolled over: nothing, an
\* entry, an exit, or an exit and an entry.
StepResult(r, s, price, t) ==
    \/ s = r
    \/ /\ r.side = 0 /\ s.side # 0 /\ s.entry = price /\ s.last = t
       /\ s.pnl = r.pnl /\ r.pnl > -MaxDailyLoss
    \/ /\ r.side # 0 /\ s.side = 0 /\ s.last = t
       /\ s.pnl = r.pnl + Earned(r, price)
    \/ /\ r.side # 0 /\ s.side # 0 /\ s.entry = price /\ s.last = t
       /\ s.pnl = r.pnl + Earned(r, price) /\ r.pnl > -MaxDailyLoss /\ interval = 0

LEMMA StepFacts ==
    ASSUME NEW window, NEW state \in PaperStates, NEW price \in Prices, NEW t \in Nat \ {0},
           NEW marketOk \in BOOLEAN, interval \in Nat, NEW s, s = Step(window, state, price, t, marketOk)
    PROVE  LET r == RolloverDailyPnl(state, t)
           IN  s \in PaperStates /\ s.day = r.day /\ StepResult(r, s, price, t)
<1> DEFINE prices  == IF Len(window) + 1 > slow THEN Tail(Append(window, price))
                      ELSE Append(window, price)
           bought  == BuildSignal(prices)
<1>1. PICK r : r = RolloverDailyPnl(state, t)
  OBVIOUS
<1>2. PICK signal \in {-1, 0, 1} : signal = bought
  BY SignalRange
<1> DEFINE exits   == Exits(r, price, signal)
           viewed  == IF exits THEN [r EXCEPT !.last = t, !.side = Flat] ELSE r
           allowed == RiskAllows(signal, viewed, t, marketOk)
           closed  == IF exits THEN PaperClose(r, price, t) ELSE r
<1>3. s = IF closed.side = Flat /\ allowed THEN PaperOpen(closed, signal, price, t) ELSE closed
  BY <1>1, <1>2 DEF Step
<1>4. r \in PaperStates /\ r.day # 0 /\ SameDay(r.day, t) /\ RolloverDailyPnl(r, t) = r
  BY <1>1, RolloverFacts
<1>5. price \in Nat
  BY LearningAssumption
<1>6. exits => r.side # 0
  BY DEF Exits, Flat
<1>7. /\ viewed \in PaperStates /\ viewed.day = r.day /\ viewed.pnl = r.pnl
      /\ exits => viewed.last = t
  BY <1>4 DEF PaperStates, Flat
<1>8. /\ closed \in PaperStates /\ closed.day = r.day /\ RolloverDailyPnl(closed, t) = closed
      /\ exits => closed.side = 0 /\ closed.last = t /\ closed.pnl = r.pnl + Earned(r, price)
      /\ ~exits => closed = r
  <2>1. CASE exits
    <3>1. closed = PaperClose(r, price, t)
      BY <2>1
    <3>2. /\ closed \in PaperStates /\ closed.side = 0 /\ closed.last = t /\ closed.day = r.day
          /\ closed.pnl = r.pnl + Earned(r, price)
      <4> HIDE DEF closed
      <4> QED
        BY <1>4, <1>5, <3>1, CloseFacts
    <3>3. RolloverDailyPnl(closed, t) = closed
      <4> HIDE DEF closed
      <4> QED
        BY <1>4, <3>2 DEF RolloverDailyPnl
    <3> QED
      BY <2>1, <3>2, <3>3
  <2>2. CASE ~exits
    BY <1>4, <2>2
  <2> QED
    BY <2>1, <2>2
<1>9. allowed => signal # 0 /\ r.pnl > -MaxDailyLoss /\ (exits => interval = 0)
  <2> SUFFICES ASSUME allowed PROVE signal # 0 /\ r.pnl > -MaxDailyLoss /\ (exits => interval = 0)
    OBVIOUS
  <2>1. signal # 0 /\ (viewed.last # 0 => t - viewed.last >= interval)
        /\ (SameDay(viewed.day, t) => viewed.pnl > -MaxDailyLoss)
    BY DEF RiskAllows, Flat
  <2> HIDE DEF viewed, exits, allowed
  <2> QED
    BY <1>4, <1>7, <2>1
<1> HIDE DEF exits, viewed, allowed, closed
<1>10. CASE closed.side = Flat /\ allowed
  <2>1. s = PaperOpen(closed, signal, price, t)
    BY <1>3, <1>10
  <2>2. /\ s \in PaperStates /\ s.side = signal /\ s.entry = price /\ s.last = t
        /\ s.day = closed.day /\ s.pnl = closed.pnl
    BY <1>5, <1>8, <2>1, OpenFacts
  <2>3. s \in PaperStates /\ s.day = r.day
    BY <1>8, <2>2
  <2>4. CASE exits
    BY <1>1, <1>6, <1>8, <1>9, <1>10, <2>2, <2>3, <2>4 DEF StepResult
  <2>5. CASE ~exits
    BY <1>1, <1>8, <1>9, <1>10, <2>2, <2>3, <2>5 DEF StepResult, Flat
  <2> QED
    BY <2>4, <2>5
<1>11. CASE ~(closed.side = Flat /\ allowed)
  <2>1. s = closed
    BY <1>3, <1>11
  <2> QED
    BY <1>1, <1>6, <1>8, <2>1 DEF StepResult
<1> QED
  BY <1>10, <1>11

\* A position has a price that was seen and a day.
LearnInv ==
    /\ loop \in {"session", "worker"}
    /\ interval \in Nat
    /\ clock \in Nat \ {0}
    /\ paper \in PaperStates
    /\ paper.side # 0 => paper.entry \in Prices /\ paper.day # 0

\* A tick runs the step on the state it has, at its own time.
LEMMA TickSteps ==
    ASSUME NEW price, NEW marketOk, SessionTick(price, marketOk) \/ WorkerTick(price, marketOk)
    PROVE  /\ \E window : paper' = Step(window, paper, price, clock, marketOk)
           /\ clock' = clock + 1 /\ UNCHANGED <<loop, slow, interval>>
<1>1. ASSUME SessionTick(price, marketOk)
      PROVE  paper' = Step(history, paper, price, clock, marketOk)
             /\ clock' = clock + 1 /\ UNCHANGED <<loop, slow, interval>>
  BY <1>1 DEF SessionTick
<1>2. ASSUME WorkerTick(price, marketOk)
      PROVE  paper' = Step(Append(history, price), paper, price, clock, marketOk)
             /\ clock' = clock + 1 /\ UNCHANGED <<loop, slow, interval>>
  BY <1>2 DEF WorkerTick
<1> QED
  BY <1>1, <1>2

LEMMA LearnInvariant ==
    /\ LearnInit => LearnInv
    /\ LearnInv /\ [LearnNext]_learnVars => LearnInv'
<1>1. LearnInit => LearnInv
  BY LearningAssumption DEF LearnInit, LearnInv, EmptyState, Flat, PaperStates
<1>2. ASSUME LearnInv, [LearnNext]_learnVars PROVE LearnInv'
  <2> USE <1>2 DEF LearnInv
  <2>1. CASE UNCHANGED learnVars
    BY <2>1 DEF learnVars
  <2>2. CASE TimePasses
    BY <2>2 DEF TimePasses
  <2>3. ASSUME NEW price \in Prices, NEW marketOk \in BOOLEAN,
               SessionTick(price, marketOk) \/ WorkerTick(price, marketOk)
        PROVE  LearnInv'
    <3>1. PICK window : paper' = Step(window, paper, price, clock, marketOk)
      BY <2>3, TickSteps
    <3>2. clock' = clock + 1 /\ UNCHANGED <<loop, slow, interval>>
      BY <2>3, TickSteps
    <3>3. PICK r : r = RolloverDailyPnl(paper, clock)
      OBVIOUS
    <3>4. paper' \in PaperStates /\ paper'.day = r.day /\ StepResult(r, paper', price, clock)
      BY <3>1, <3>3, StepFacts
    <3>5. r.side = paper.side /\ r.entry = paper.entry /\ r.day # 0
      BY <3>3, RolloverFacts
    <3>6. paper'.side # 0 => paper'.entry \in Prices
      BY <3>4, <3>5 DEF StepResult
    <3> QED
      BY <3>2, <3>4, <3>5, <3>6
  <2> QED
    BY <2>1, <2>2, <2>3 DEF LearnNext
<1> QED
  BY <1>1, <1>2

\* On a tick that stays within a day of the state, the step starts from the
\* profit there is.
LEMMA SameDayKeeps ==
    ASSUME LearnInv, NEW r, r = RolloverDailyPnl(paper, clock), r.day = paper.day
    PROVE  r = paper
<1>1. clock # 0 /\ SameDay(clock, clock)
  BY DEF LearnInv, SameDay
<1>2. /\ r.day # 0
      /\ r = paper \/ (r.day = clock /\ (paper.day = 0 \/ ~SameDay(paper.day, clock)))
  BY RolloverFacts DEF LearnInv
<1> QED
  BY <1>1, <1>2

\* CreditIsEarned: within a day the allocator is credited with exactly what the
\* close of a tick earned, for every variant, price series and loop.
THEOREM CreditsAreEarned == LearnSpec => CreditIsEarned
<1>1. ASSUME LearnInv, [LearnNext]_learnVars
      PROVE  [paper'.day = paper.day =>
                /\ credit' # NoCredit => credit' = settled'
                /\ settled' \notin {NoCredit, <<0>>} =>
                       \/ credit' # NoCredit
                       \/ loop = "session" /\ paper'.side # Flat]_learnVars
  <2>1. CASE UNCHANGED learnVars
    BY <2>1
  <2>2. CASE TimePasses
    BY <2>2 DEF TimePasses
  <2>3. ASSUME NEW price \in Prices, NEW marketOk \in BOOLEAN,
               SessionTick(price, marketOk) \/ WorkerTick(price, marketOk),
               paper'.day = paper.day
        PROVE  /\ credit' # NoCredit => credit' = settled'
               /\ settled' \notin {NoCredit, <<0>>} =>
                      credit' # NoCredit \/ (loop = "session" /\ paper'.side # Flat)
    <3>1. PICK window : paper' = Step(window, paper, price, clock, marketOk)
      BY <2>3, TickSteps
    <3>2. PICK r : r = RolloverDailyPnl(paper, clock)
      OBVIOUS
    <3>3. paper' \in PaperStates /\ paper'.day = r.day /\ StepResult(r, paper', price, clock)
      BY <1>1, <3>1, <3>2, StepFacts DEF LearnInv
    <3>4. r = paper
      BY <1>1, <2>3, <3>2, <3>3, SameDayKeeps
    <3>5. settled' = IF paper.side # Flat /\ (paper'.side = Flat \/ paper'.last = clock)
                     THEN <<paper'.pnl - paper.pnl>> ELSE NoCredit
      BY <2>3, <3>2, <3>4 DEF SessionTick, WorkerTick, Settlement
    <3>6. CASE SessionTick(price, marketOk)
      <4>1. credit' = IF paper.side # Flat /\ paper'.side = Flat THEN <<paper'.pnl - paper.pnl>> ELSE NoCredit
        BY <3>6 DEF SessionTick, SessionCredit
      <4>2. loop = "session"
        BY <3>6 DEF SessionTick
      <4> QED
        BY <3>5, <4>1, <4>2 DEF NoCredit
    <3>7. CASE WorkerTick(price, marketOk)
      <4>1. credit' = IF paper'.pnl # paper.pnl THEN <<paper'.pnl - paper.pnl>> ELSE NoCredit
        BY <3>7 DEF WorkerTick, WorkerCredit
      <4>2. paper'.pnl # paper.pnl =>
              paper.side # Flat /\ (paper'.side = Flat \/ paper'.last = clock)
        BY <3>3, <3>4 DEF StepResult, Flat
      <4>3. paper'.pnl = paper.pnl => <<paper'.pnl - paper.pnl>> = <<0>>
        BY <1>1, <3>3 DEF LearnInv, PaperStates
      <4> QED
        BY <3>5, <4>1, <4>2, <4>3 DEF NoCredit
    <3> QED
      BY <2>3, <3>6, <3>7
  <2> QED
    BY <1>1, <2>1, <2>2, <2>3 DEF LearnNext
<1> QED
  BY <1>1, LearnInvariant, PTL DEF LearnSpec, CreditIsEarned

LEMMA LossOfOne ==
    ASSUME NEW price \in Nat, NEW entry \in Nat, NEW fee \in Nat, NEW worst \in Nat,
           price - entry <= worst - fee, entry - price <= worst - fee, NEW side \in {1, -1}
    PROVE  side * (price - entry) - fee \in Int /\ side * (price - entry) - fee >= -worst
<1>1. CASE side = 1
  <2>1. side * (price - entry) = price - entry
    BY <1>1
  <2> QED
    BY <2>1
<1>2. CASE side = -1
  <2>1. side * (price - entry) = entry - price
    BY <1>2
  <2> QED
    BY <2>1
<1> QED
  BY <1>1, <1>2

\* A largest difference exists where prices have a bound, and WorstTrade is a
\* number that no closed position loses more than.
LEMMA WorstIsWorst ==
    ASSUME Prices # {}, NEW top \in Nat, \A p \in Prices : p <= top
    PROVE  /\ WorstTrade \in Nat /\ WorstTrade >= Fee
           /\ \A p, q \in Prices : p - q <= WorstTrade - Fee
<1> DEFINE Differences == {p - q : p, q \in Prices}
           Raised == {d + top : d \in Differences}
<1>1. Prices \subseteq Nat /\ Fee \in Nat
  BY LearningAssumption
<1>2. \A d \in Differences : d \in Int /\ d + top \in Nat /\ d + top <= 2 * top
  BY <1>1
<1>3. PICK p \in Prices : TRUE
  OBVIOUS
<1>4. p - p \in Differences /\ (p - p) + top \in Raised
  BY <1>3
<1> HIDE DEF Differences
<1>5. Raised \subseteq Nat /\ Raised # {} /\ \A x \in Raised : x <= 2 * top
  BY <1>2, <1>4
<1> HIDE DEF Raised
<1>6. 2 * top \in Nat
  OBVIOUS
<1>7. PICK x \in Raised : \A y \in Raised : x >= y
  BY <1>5, <1>6, GreatestOfNats
<1>8. PICK d \in Differences : x = d + top
  BY <1>7 DEF Raised
<1>9. \A e \in Differences : e <= d
  <2> TAKE e \in Differences
  <2>1. e + top \in Raised
    BY DEF Raised
  <2>2. d + top >= e + top
    BY <1>7, <1>8, <2>1
  <2> QED
    BY <1>2, <2>2
<1>10. \A a, b \in Prices : a - b <= d
  <2> TAKE a, b \in Prices
  <2>1. a - b \in Differences
    BY DEF Differences
  <2> QED
    BY <1>9, <2>1
<1> DEFINE most == CHOOSE e \in Differences : \A a, b \in Prices : a - b <= e
<1>11. most \in Differences /\ \A a, b \in Prices : a - b <= most
  BY <1>8, <1>10
<1>12. WorstTrade = Fee + most
  BY DEF WorstTrade, Differences
<1> HIDE DEF most
<1>13. most \in Int
  BY <1>2, <1>11
<1>14. p - p <= most
  BY <1>11
<1>15. most >= 0
  BY <1>1, <1>13, <1>14
<1> QED
  BY <1>1, <1>11, <1>12, <1>13, <1>15

\* The loss limit is kept with the trades still allowed to it: one for a flat
\* state, or two where an entry may follow an exit at once, and one less while
\* a position is open.
Spare == IF interval = 0 THEN 2 * WorstTrade ELSE WorstTrade

LossInv ==
    /\ LearnInv
    /\ paper.pnl > -(MaxDailyLoss + Spare)
    /\ paper.side # 0 => paper.pnl > -(MaxDailyLoss + Spare - WorstTrade)

LEMMA LossInvariant ==
    ASSUME MaxDailyLoss > 0, Prices # {}, NEW top \in Nat, \A p \in Prices : p <= top
    PROVE  /\ LearnInit => LossInv
           /\ LossInv /\ [LearnNext]_learnVars => LossInv'
<1>0. /\ WorstTrade \in Nat /\ WorstTrade >= Fee
      /\ \A p, q \in Prices : p - q <= WorstTrade - Fee
  BY WorstIsWorst
<1>a. MaxDailyLoss \in Nat /\ Fee \in Nat /\ Prices \subseteq Nat
  BY LearningAssumption
<1>b. Spare \in Nat /\ Spare - WorstTrade \in Nat
      /\ (interval = 0 => Spare - WorstTrade = WorstTrade)
  BY <1>0 DEF Spare
<1>1. LearnInit => LossInv
  <2>1. LearnInit => LearnInv
    BY LearnInvariant
  <2>2. LearnInit => paper.pnl = 0 /\ paper.side = 0
    BY DEF LearnInit, EmptyState, Flat
  <2> QED
    BY <1>a, <1>b, <2>1, <2>2 DEF LossInv
<1>2. ASSUME LossInv, [LearnNext]_learnVars PROVE LossInv'
  <2> USE <1>2 DEF LossInv
  <2>1. LearnInv'
    BY LearnInvariant
  <2>2. CASE UNCHANGED learnVars
    BY <2>1, <2>2 DEF learnVars, Spare
  <2>3. CASE TimePasses
    BY <2>1, <2>3 DEF TimePasses, Spare
  <2>4. ASSUME NEW price \in Prices, NEW marketOk \in BOOLEAN,
               SessionTick(price, marketOk) \/ WorkerTick(price, marketOk)
        PROVE  LossInv'
    <3>1. PICK window : paper' = Step(window, paper, price, clock, marketOk)
      BY <2>4, TickSteps
    <3>2. PICK r : r = RolloverDailyPnl(paper, clock)
      OBVIOUS
    <3>3. paper' \in PaperStates /\ StepResult(r, paper', price, clock)
      BY <3>1, <3>2, StepFacts DEF LearnInv
    <3>4. /\ r \in PaperStates /\ r.side = paper.side /\ r.entry = paper.entry
          /\ r.pnl = paper.pnl \/ r.pnl = 0
      BY <3>2, RolloverFacts DEF LearnInv
    <3>5. Spare' = Spare
      BY <2>4, TickSteps DEF Spare
    <3>6. PICK spare \in Nat, worst \in Nat :
            /\ spare = Spare /\ worst = WorstTrade /\ spare - worst \in Nat
            /\ interval = 0 => spare - worst = worst
      BY <1>0, <1>b
    <3>7. r.side # 0 => Earned(r, price) \in Int /\ Earned(r, price) >= -worst
      <4>1. SUFFICES ASSUME r.side # 0 PROVE Earned(r, price) \in Int /\ Earned(r, price) >= -worst
        OBVIOUS
      <4>2. r.entry \in Prices /\ r.side \in {1, -1}
        BY <3>4, <4>1 DEF LearnInv, PaperStates
      <4>3. price - r.entry <= worst - Fee /\ r.entry - price <= worst - Fee
        BY <1>0, <3>6, <4>2
      <4> QED
        BY <1>a, <4>2, <4>3, LossOfOne DEF Earned
    <3>8. /\ r.pnl \in Int /\ r.pnl > -(MaxDailyLoss + spare)
          /\ r.side # 0 => r.pnl > -(MaxDailyLoss + spare - worst)
      BY <1>a, <3>4, <3>6 DEF PaperStates
    <3>9. /\ paper'.pnl > -(MaxDailyLoss + spare)
          /\ paper'.side # 0 => paper'.pnl > -(MaxDailyLoss + spare - worst)
      <4>1. CASE paper' = r
        BY <3>8, <4>1
      <4>2. CASE paper'.pnl = r.pnl /\ r.pnl > -MaxDailyLoss
        BY <1>a, <3>6, <3>8, <4>2
      <4>3. CASE r.side # 0 /\ paper'.side = 0 /\ paper'.pnl = r.pnl + Earned(r, price)
        BY <1>a, <3>6, <3>7, <3>8, <4>3
      <4>4. CASE r.side # 0 /\ paper'.pnl = r.pnl + Earned(r, price)
                 /\ r.pnl > -MaxDailyLoss /\ interval = 0
        BY <1>a, <3>6, <3>7, <3>8, <4>4
      <4> QED
        BY <3>3, <4>1, <4>2, <4>3, <4>4 DEF StepResult
    <3> QED
      BY <2>1, <3>5, <3>6, <3>9
  <2> QED
    BY <2>2, <2>3, <2>4 DEF LearnNext
<1> QED
  BY <1>1, <1>2

\* DayLossBounded: a variant's loss of a day stays below the limit and one
\* losing trade, or two where a trade may follow at once, for every limit
\* above zero and all prices below some bound.
THEOREM DayLossIsBounded ==
    ASSUME MaxDailyLoss > 0, Prices # {}, NEW top \in Nat, \A p \in Prices : p <= top
    PROVE  LearnSpec => []DayLossBounded
<1>1. LossInv => DayLossBounded
  <2>1. WorstTrade \in Nat
    BY WorstIsWorst
  <2>2. Spare = (IF interval = 0 THEN 2 ELSE 1) * WorstTrade
    BY <2>1 DEF Spare
  <2> QED
    BY <2>2 DEF LossInv, DayLossBounded
<1>2. LearnInit => LossInv
  BY LossInvariant
<1>3. LossInv /\ [LearnNext]_learnVars => LossInv'
  BY LossInvariant
<1> QED
  BY <1>1, <1>2, <1>3, PTL DEF LearnSpec

-----------------------------------------------------------------------------
(* The maker order.                                                        *)

\* The lot of a request is never more than the order or, reduce-only, than
\* what is held.
LEMMA LotBounds ==
    ASSUME request \in MakerRequests
    PROVE  /\ Lot \in 0..Full
           /\ request.reduceOnly => Lot <= request.held
           /\ request.reduceOnly \in BOOLEAN
           /\ request.held \in 0..2 * Full
           /\ request.mode \in {"maker", "maker-or-taker"}
BY MakerAssumption DEF MakerRequests, Lot

\* A market order after the limit order executes at most its quantity, and a
\* reduce-only one completes the lot.
LEMMA ReducibleBounds ==
    ASSUME TypeOK, NEW q \in 0..Full
    PROVE  /\ Reducible(q) \in Int
           /\ Reducible(q) <= q
           /\ request.reduceOnly => filled + Reducible(q) <= request.held
           /\ Reducible(q) = q \/ (request.reduceOnly /\ filled + Reducible(q) = request.held)
BY LotBounds, MakerAssumption DEF TypeOK, Reducible

LEMMA MakerInitType == Init => TypeOK
BY MakerAssumption, LotBounds DEF Init, TypeOK, Running

LEMMA MakerStepType == TypeOK /\ [Next]_vars => TypeOK'
<1> SUFFICES ASSUME TypeOK, [Next]_vars PROVE TypeOK'
    OBVIOUS
<1> USE MakerAssumption
<1>l. /\ request' = request
      /\ Lot' = Lot
  BY DEF Next, Call, vars, FindPrice, PostLimit, Poll, Cancel, PlaceTakerFallback,
         ExchangeFills, ExchangeCancels, Lot
<1>b. /\ Lot \in 0..Full
      /\ request.reduceOnly => Lot <= request.held
      /\ request.held \in 0..2 * Full
  BY LotBounds DEF TypeOK
<1>1. CASE FindPrice
  BY <1>1, <1>l, <1>b DEF FindPrice, GiveUp, Return, TypeOK, Running
<1>2. CASE PostLimit
  BY <1>2, <1>l, <1>b DEF PostLimit, GiveUp, Return, TypeOK, Running
<1>3. CASE Poll
  BY <1>3, <1>l, <1>b DEF Poll, GiveUp, Return, TypeOK, Running
<1>4. CASE Cancel
  BY <1>4, <1>l, <1>b DEF Cancel, GiveUp, Return, TypeOK, Running
<1>5. CASE PlaceTakerFallback
  <2>1. /\ Reducible(Full) \in Int
        /\ Reducible(Full) <= Full
        /\ request.reduceOnly => filled + Reducible(Full) <= request.held
    BY ReducibleBounds
  <2> QED BY <1>5, <1>l, <1>b, <2>1 DEF PlaceTakerFallback, Return, TypeOK, Running
<1>6. CASE ExchangeCancels
  BY <1>6, <1>l, <1>b DEF ExchangeCancels, TypeOK, Running
<1>7. ASSUME NEW q \in 1..Full, ExchangeFills(q) PROVE TypeOK'
  <2>1. /\ Reducible(resting) <= resting
        /\ request.reduceOnly => filled + Reducible(resting) <= request.held
        /\ Reducible(resting) \in Int
    BY ReducibleBounds DEF TypeOK
  <2>2. /\ order = "live"
        /\ filled' = filled + q
        /\ resting' = resting - q
        /\ q <= Reducible(resting)
        /\ order' = IF resting' = 0 THEN "filled" ELSE "live"
        /\ UNCHANGED <<request, at, result, polls>>
    BY <1>7 DEF ExchangeFills
  <2>3. /\ filled \in Nat
        /\ resting \in 0..Full
        /\ q \in 1..resting
    BY <2>1, <2>2 DEF TypeOK
  <2>4. request.reduceOnly => filled' <= request.held
    <3> SUFFICES ASSUME request.reduceOnly PROVE filled' <= request.held
        OBVIOUS
    <3> QED BY <1>b, <2>1, <2>2, <2>3
  <2>5. /\ filled' + resting' = filled + resting
        /\ resting' \in 0..Full
        /\ filled' \in Nat
    BY <2>2, <2>3
  <2>6. /\ request' \in MakerRequests
        /\ at' = at /\ result' = result /\ polls' = polls
        /\ order' \in {"live", "filled"}
        /\ Lot' > 0
        /\ filled' + resting' <= 2 * Full
        /\ order' # "live" => resting' = 0
        /\ at \notin {"price", "post"}
    BY <2>2, <2>5, <1>l DEF TypeOK
  <2>7. at # "done" => filled' + resting' = Lot /\ filled' + resting' <= Lot
    BY <1>b, <2>2, <2>5 DEF TypeOK, Running
  <2> QED BY <1>l, <2>2, <2>4, <2>5, <2>6, <2>7, Zenon DEF TypeOK, Running
<1>8. CASE UNCHANGED vars
  BY <1>8, <1>l DEF vars, TypeOK, Running
<1> QED BY <1>1, <1>2, <1>3, <1>4, <1>5, <1>6, <1>7, <1>8 DEF Next, Call

\* The accounts of the limit order agree in every reachable state of the call,
\* whatever the quantity and the number of polls.
THEOREM MakerTypes == Spec => []TypeOK
<1> QED BY MakerInitType, MakerStepType, PTL DEF Spec

-----------------------------------------------------------------------------
(* Refinement: the call answers in one step, what happens before is hidden. *)

LEMMA InitPlacement == Init => Placement!Init
BY DEF Init, Placement!Init, Running, MakerRequests, Placement!Requests

\* The step that returns does so with an outcome the abstraction allows.
LEMMA ReturnStep ==
    ASSUME TypeOK, [Next]_vars, at # "done", at' = "done"
    PROVE  Placement!Answer
<1>n. Full \in Nat \ {0}
  BY MakerAssumption
<1> DEFINE o == [answer |-> IF result' = "skipped-failed" THEN "failed" ELSE "ok",
                 filled |-> filled', resting |-> resting']
<1>b. /\ Lot \in 0..Full
      /\ request.reduceOnly => Lot <= request.held
      /\ request.held \in 0..2 * Full
      /\ request.mode \in {"maker", "maker-or-taker"}
  BY LotBounds DEF TypeOK
<1>r. request' = request
  BY DEF Next, Call, vars, FindPrice, PostLimit, Poll, Cancel, PlaceTakerFallback,
         ExchangeFills, ExchangeCancels
<1>t. TypeOK'
  BY MakerStepType
<1>1. /\ result' \in {"filled-maker", "filled-taker-fallback", "skipped-failed"}
      /\ filled' \in 0..2 * Full
      /\ resting' \in 0..Full
      /\ filled' + resting' <= 2 * Full
  <2>1. /\ filled' \in Nat
        /\ resting' \in 0..Full
        /\ filled' + resting' <= 2 * Full
    BY <1>t DEF TypeOK
  <2>2. result' \in {"filled-maker", "filled-taker-fallback", "skipped-failed"}
    BY <1>t DEF TypeOK
  <2>3. filled' \in 0..2 * Full
    <3>1. ASSUME NEW f \in Nat, NEW r \in 0..Full, f + r <= 2 * Full
          PROVE  f \in 0..2 * Full
      BY <1>n, <3>1
    <3> QED BY <2>1, <3>1
  <2> QED BY <2>1, <2>2, <2>3
<1>h. request.reduceOnly => filled' <= request.held
  BY <1>t, <1>r, Zenon DEF TypeOK
<1>2. \/ result' = "skipped-failed" /\ filled' + resting' <= Lot
      \/ /\ result' = "skipped-failed"
         /\ request.mode = "maker-or-taker"
         /\ LostAnswers
      \/ /\ result' = "filled-maker" /\ Lot > 0
         /\ filled' >= Lot /\ filled' + resting' <= Lot
      \/ /\ result' = "filled-taker-fallback" /\ Lot > 0
         /\ request.mode = "maker-or-taker"
         /\ filled' >= Lot
  <2>1. CASE FindPrice \/ PostLimit \/ Cancel
    BY <2>1, <1>t, <1>r DEF FindPrice, PostLimit, Cancel, GiveUp, Return, TypeOK, Running
  <2>2. CASE Poll
    BY <2>2, <1>b DEF Poll, GiveUp, Return, TypeOK, Running
  <2>3. CASE PlaceTakerFallback
    <3>1. /\ at = "taker"
          /\ filled + resting <= Lot
          /\ filled \in Nat
          /\ resting \in 0..Full
      BY <2>3 DEF PlaceTakerFallback, TypeOK, Running
    <3>2. resting' = resting
      BY <2>3 DEF PlaceTakerFallback
    <3>3. request.mode = "maker-or-taker"
      BY <3>1 DEF TypeOK
    <3>4. CASE filled' = filled /\ result' = "skipped-failed"
      BY <3>1, <3>2, <3>4
    <3>5. ASSUME Reducible(Full) > 0, filled' = filled + Reducible(Full)
          PROVE  Lot > 0 /\ filled' >= Lot
      <4>1. CASE request.reduceOnly
        BY <1>n, <3>1, <3>5, <1>b, <4>1 DEF Reducible, Lot
      <4>2. CASE ~request.reduceOnly
        BY <1>n, <3>1, <3>5, <1>b, <4>2 DEF Reducible, Lot
      <4> QED BY <4>1, <4>2
    <3> QED BY <2>3, <3>3, <3>4, <3>5 DEF PlaceTakerFallback, Return
  <2>4. ASSUME NEW q \in 1..Full, ExchangeFills(q) PROVE FALSE
    BY <2>4 DEF ExchangeFills
  <2>5. CASE ExchangeCancels
    BY <2>5 DEF ExchangeCancels
  <2>6. CASE UNCHANGED vars
    BY <2>6 DEF vars
  <2> QED BY <2>1, <2>2, <2>3, <2>4, <2>5, <2>6 DEF Next, Call
<1>3. o \in [answer : {"ok", "failed"}, filled : 0..2 * Full, resting : 0..Full]
  BY <1>1
<1>p. /\ o.answer = IF result' = "skipped-failed" THEN "failed" ELSE "ok"
      /\ o.filled = filled'
      /\ o.resting = resting'
  OBVIOUS
<1>q. /\ result' # "skipped-failed" => Lot > 0 /\ filled' >= Lot
      /\ request.mode = "maker" => filled' + resting' <= Lot
  BY <1>2, Zenon
<1>4. o.answer = "ok" => Lot > 0 /\ o.filled >= Lot
  BY <1>q, <1>p
<1>5. request.mode = "maker" => o.filled + o.resting <= Lot
  BY <1>q, <1>p
<1>6. request.mode = "maker-or-taker" =>
           /\ o.filled + o.resting <= 2 * Full
           /\ o.answer = "failed" => LostAnswers \/ o.filled + o.resting <= Lot
  <2>1. CASE result' = "skipped-failed" /\ filled' + resting' <= Lot
    BY <1>1, <1>p, <2>1
  <2>2. CASE result' = "skipped-failed" /\ LostAnswers
    BY <1>1, <1>p, <2>2
  <2>3. CASE result' # "skipped-failed"
    BY <1>1, <1>p, <2>3
  <2> QED BY <1>2, <2>1, <2>2, <2>3
<1>7. Lot = Placement!Lot(request)
  BY DEF Lot, Placement!Lot
<1>8. o \in Placement!Outcomes(request)
  BY <1>b, <1>h, <1>p, <1>3, <1>4, <1>5, <1>6, <1>7, Zenon
     DEF Placement!Outcomes, Placement!MakerOutcome, Placement!FallbackOutcome
<1> QED BY <1>1, <1>8, <1>r, <1>t DEF Placement!Answer, Running, TypeOK

\* Before it returns, the call shows nothing of what it does.
LEMMA HiddenStep ==
    ASSUME TypeOK, [Next]_vars, at # "done", at' # "done"
    PROVE  UNCHANGED Placement!vars
<1>1. request' = request
  BY DEF Next, Call, vars, FindPrice, PostLimit, Poll, Cancel, PlaceTakerFallback,
         ExchangeFills, ExchangeCancels
<1>2. TypeOK'
  BY MakerStepType
<1>3. result = "none" /\ result' = "none"
  BY <1>2 DEF TypeOK
<1> QED BY <1>1, <1>3 DEF Placement!vars, Running

\* After it has returned, only the order left in the book changes.
LEMMA LateStep ==
    ASSUME TypeOK, [Next]_vars, at = "done"
    PROVE  [Placement!Next]_Placement!vars
<1>0. /\ result # "none"
      /\ result \in {"filled-maker", "filled-taker-fallback", "skipped-failed"}
  BY DEF TypeOK
<1>t. filled \in Nat /\ resting \in Nat
  BY MakerAssumption DEF TypeOK
<1>1. CASE UNCHANGED vars
  BY <1>1 DEF vars, Placement!vars, Running
<1>2. CASE ExchangeCancels
  <2>1. /\ resting' = 0 /\ filled' = filled
        /\ at' = at /\ result' = result /\ request' = request
    BY <1>2 DEF ExchangeCancels
  <2>2. CASE resting = 0
    BY <2>1, <2>2 DEF Placement!vars, Running
  <2>3. CASE resting > 0
    <3>1. /\ resting' \in 0..resting - 1
          /\ filled' \in filled..filled + resting - resting'
      BY <1>t, <2>1, <2>3
    <3>2. request.reduceOnly => filled' <= request.held
      BY <2>1 DEF TypeOK
    <3> QED BY <1>0, <2>1, <3>1, <3>2 DEF Placement!Next, Placement!LateFill, Running
  <2> QED BY <1>t, <2>2, <2>3
<1>3. ASSUME NEW q \in 1..Full, ExchangeFills(q) PROVE Placement!LateFill
  <2>1. /\ resting' = resting - q /\ filled' = filled + q
        /\ at' = at /\ result' = result /\ request' = request
    BY <1>3 DEF ExchangeFills
  <2>2. /\ Reducible(resting) \in Int
        /\ Reducible(resting) <= resting
    BY ReducibleBounds DEF TypeOK
  <2>3. q <= Reducible(resting)
    BY <1>3 DEF ExchangeFills
  <2>4. /\ resting' \in 0..resting - 1
        /\ filled' \in filled..filled + resting - resting'
    BY <1>t, <2>1, <2>2, <2>3, MakerAssumption
  <2>5. request.reduceOnly => filled' <= request.held
    BY <1>3, MakerStepType, <2>1 DEF TypeOK, Next
  <2> QED BY <1>0, <2>1, <2>4, <2>5 DEF Placement!LateFill, Running
<1> QED BY <1>1, <1>2, <1>3
        DEF Next, Call, FindPrice, PostLimit, Poll, Cancel, PlaceTakerFallback, Placement!Next

\* placeOrderWithMakerPreference implements the abstract placement: whatever
\* the exchange does between its awaits, its answer is one that
\* OrderOutcomes allows, for every quantity and every number of polls.
THEOREM MakerImplements == Spec => PlacementKept
<1>1. TypeOK /\ [Next]_vars => [Placement!Next]_Placement!vars
  <2> SUFFICES ASSUME TypeOK, [Next]_vars PROVE [Placement!Next]_Placement!vars
      OBVIOUS
  <2>1. CASE at = "done"
    BY <2>1, LateStep
  <2>2. CASE at # "done" /\ at' = "done"
    BY <2>2, ReturnStep DEF Placement!Next
  <2>3. CASE at # "done" /\ at' # "done"
    BY <2>3, HiddenStep
  <2> QED BY <2>1, <2>2, <2>3
<1> QED BY <1>1, InitPlacement, MakerTypes, PTL DEF Spec, PlacementKept, Placement!Spec

-----------------------------------------------------------------------------
(* The drawdown breaker.                                                   *)

Marks == [ts : Nat, pnl : Int]

InOrder(s) == \A i \in 1..Len(s) : \A j \in i..Len(s) : s[i].ts <= s[j].ts

\* LostSince of any sequence of closes.
Lost(s, i) == -SumOf([j \in i + 1 .. Len(s) |-> s[j].pnl])

LEMMA LostOfNone ==
    ASSUME NEW s \in Seq(Marks)
    PROVE  Lost(s, Len(s)) = 0
<1> DEFINE D == Len(s) + 1 .. Len(s)
           f == [j \in D |-> s[j].pnl]
<1>1. D = {}
  OBVIOUS
<1>2. IsFiniteSet(D) /\ f \in [D -> Int] /\ \A x \in D : f[x] = 0
  BY <1>1, FS_EmptySet
<1>3. Lost(s, Len(s)) = -SumOf(f)
  BY DEF Lost
<1> HIDE DEF f, D
<1>4. SumOf(f) = 0
  BY <1>2, SumOfZeros
<1>5. \A x \in Int : x <= 0 /\ x >= 0 => -x <= 0 /\ -x >= 0 /\ -x \in Int
  OBVIOUS
<1>6. SumOf(f) \in Int /\ SumOf(f) <= 0 /\ SumOf(f) >= 0
  BY <1>4
<1>7. -SumOf(f) <= 0 /\ -SumOf(f) >= 0 /\ -SumOf(f) \in Int
  BY <1>5, <1>6
<1> QED
  BY <1>3, <1>7

LEMMA LostOfOneMore ==
    ASSUME NEW s \in Seq(Marks), NEW c \in Marks, NEW i \in 0..Len(s)
    PROVE  Lost(Append(s, c), i) = Lost(s, i) - c.pnl /\ Lost(s, i) \in Int
<1> DEFINE n == Len(s)
           E == i + 1 .. n
           D == i + 1 .. n + 1
           g == [j \in E |-> s[j].pnl]
           f == [j \in D |-> Append(s, c)[j].pnl]
           b == [j \in E |-> j]
<1>1. n \in Nat /\ Len(Append(s, c)) = n + 1 /\ n + 1 \in D
  OBVIOUS
<1>2. \A j \in E : s[j] \in Marks /\ Append(s, c)[j] = s[j]
  OBVIOUS
<1>3. Append(s, c)[n + 1] = c
  OBVIOUS
<1>4. \A j \in D : Append(s, c)[j] \in Marks
  BY <1>2, <1>3
<1>5. Summable(f, D) /\ Summable(g, E)
  <2>1. IsFiniteSet(D) /\ IsFiniteSet(E)
    BY <1>1, FS_Interval
  <2>2. \A j \in D : Append(s, c)[j].pnl \in Int
    BY <1>4 DEF Marks
  <2>3. \A j \in E : s[j].pnl \in Int
    BY <1>2 DEF Marks
  <2> QED
    BY <2>1, <2>2, <2>3 DEF Summable
<1>6. \A x \in E : g[x] = f[b[x]]
  BY <1>2
<1>7. b \in [E -> D] /\ (\A x, y \in E : b[x] = b[y] => x = y)
  BY <1>1
<1>8. {b[x] : x \in E} = D \ {n + 1}
  BY <1>1
<1>9. f[n + 1] = c.pnl
  BY <1>1, <1>3
<1>10. Lost(s, i) = -SumOf(g) /\ Lost(Append(s, c), i) = -SumOf(f)
  BY <1>1 DEF Lost
<1> HIDE DEF n, E, D, f, g, b
<1>11. Omits(f, D, g, E, n + 1, b)
  BY <1>1, <1>5, <1>6, <1>7, <1>8 DEF Omits
<1>12. SumOf(g) = SumOf(f) - f[n + 1]
  BY <1>11, SumOfOmission
<1>13. SumOf(f) \in Int /\ SumOf(g) \in Int
  BY <1>5, SumOfType DEF Summable
<1>14. c.pnl \in Int
  BY DEF Marks
<1> QED
  BY <1>9, <1>10, <1>12, <1>13, <1>14

LEMMA MarkParts ==
    ASSUME NEW s \in Seq(Marks)
    PROVE  \A i \in 1..Len(s) : s[i].ts \in Nat /\ s[i].pnl \in Int
<1>1. \A i \in 1..Len(s) : s[i] \in Marks
  OBVIOUS
<1> QED
  BY <1>1 DEF Marks

\* The filter by age cuts a sequence in order of time in two.
LEMMA YoungIsSuffix ==
    ASSUME NEW s \in Seq(Marks), InOrder(s), NEW t \in Nat
    PROVE  \E a \in 0..Len(s) :
               /\ Young(s, t) = SubSeq(s, a + 1, Len(s))
               /\ \A i \in 1..a : s[i].ts < t - Window
               /\ \A i \in a + 1 .. Len(s) : s[i].ts >= t - Window
<1> DEFINE young == {i \in DOMAIN s : s[i].ts >= t - Window}
           T == young \cup {Len(s) + 1}
<1>0. Window \in Nat
  BY BreakerAssumption
<1>1. T \subseteq Nat /\ T # {} /\ Len(s) \in Nat /\ DOMAIN s = 1..Len(s)
  OBVIOUS
<1>2. PICK x \in T : \A y \in T : x <= y
  <2> HIDE DEF T
  <2> QED
    BY <1>1, LeastOfNats
<1>3. Min(T) = x
  <2>1. \A z \in T : (\A y \in T : z <= y) => z = x
    BY <1>1, <1>2
  <2> HIDE DEF T
  <2> QED
    BY <1>2, <2>1 DEF Min
<1>4. x \in 1..Len(s) + 1
  BY <1>1
<1>5. \A i \in 1..x - 1 : s[i].ts < t - Window
  <2> TAKE i \in 1..x - 1
  <2>1. i \in 1..Len(s) /\ i < x /\ s[i].ts \in Nat
    BY <1>1, <1>4, MarkParts
  <2>2. i \notin T
    BY <1>1, <1>2, <2>1
  <2> QED
    BY <1>0, <1>1, <2>1, <2>2
<1>6. \A i \in x..Len(s) : s[i].ts >= t - Window
  <2> TAKE i \in x..Len(s)
  <2>1. x \in 1..Len(s) /\ s[i].ts \in Nat /\ s[x].ts \in Nat
    BY <1>1, <1>4, MarkParts
  <2>2. s[x].ts <= s[i].ts
    BY <2>1 DEF InOrder
  <2>3. s[x].ts >= t - Window
    BY <1>1, <2>1
  <2> QED
    BY <1>0, <2>1, <2>2, <2>3
<1>7. Young(s, t) = SubSeq(s, x, Len(s))
  BY <1>3 DEF Young
<1>8. PICK a \in 0..Len(s) : a = x - 1 /\ x = a + 1
  BY <1>1, <1>4
<1> QED
  BY <1>5, <1>6, <1>7, <1>8

LEMMA YoungIsAll ==
    ASSUME NEW s \in Seq(Marks), InOrder(s), NEW t \in Nat,
           \A i \in 1..Len(s) : s[i].ts >= t - Window
    PROVE  Young(s, t) = s
<1>1. PICK a \in 0..Len(s) :
          /\ Young(s, t) = SubSeq(s, a + 1, Len(s))
          /\ \A i \in 1..a : s[i].ts < t - Window
  BY YoungIsSuffix
<1>2. a = 0
  <2>1. SUFFICES ASSUME a >= 1 PROVE FALSE
    OBVIOUS
  <2>2. 1 \in 1..a /\ 1 \in 1..Len(s) /\ s[1].ts \in Nat
    BY <2>1, MarkParts
  <2>3. Window \in Nat
    BY BreakerAssumption
  <2> QED
    BY <1>1, <2>2, <2>3
<1>3. SubSeq(s, 1, Len(s)) = s
  OBVIOUS
<1> QED
  BY <1>1, <1>2, <1>3

\* The samples are the last of the closes, and what was pruned is out of the
\* window.
Recorded(s, q, t) ==
    /\ InOrder(s)
    /\ Len(q) <= Len(s)
    /\ \A k \in 1..Len(q) : q[k].ts = s[Len(s) - Len(q) + k].ts
    /\ \A i \in 1..Len(s) : s[i].ts <= t
    /\ \A i \in 1..Len(s) - Len(q) : s[i].ts < t - Window

\* A sample of the day d is above its profit r by what was lost since.
Reckoned(s, q, r, d) ==
    \A k \in 1..Len(q) :
        /\ Day(q[k].ts) <= Day(d)
        /\ Day(q[k].ts) = Day(d) => q[k].pnl - r = Lost(s, Len(s) - Len(q) + k)

\* The outcomes are those of the closes since the last resume.
Counted(s, results, from) ==
    /\ from <= Len(s) /\ Len(results) = Len(s) - from
    /\ \A i \in 1..Len(results) : results[i] = "loss" <=> s[from + i].pnl < 0

BreakerTyped ==
    /\ {now, pnlDay, haltUntil, resumedAt} \subseteq Nat
    /\ inTrade \in BOOLEAN /\ realized \in Int
    /\ pnlSamples \in Seq(Marks) /\ closes \in Seq(Marks)
    /\ outcomes \in Seq({"win", "loss"})

BreakerInv ==
    /\ BreakerTyped
    /\ inTrade => haltUntil <= now
    /\ pnlDay <= now
    /\ Recorded(closes, pnlSamples, now)
    /\ Reckoned(closes, pnlSamples, realized, pnlDay)
    /\ Counted(closes, outcomes, resumedAt)
    /\ HaltIsEarned

LEMMA SamplesInOrder ==
    ASSUME NEW s \in Seq(Marks), NEW q \in Seq(Marks), NEW t \in Nat, Recorded(s, q, t)
    PROVE  InOrder(q)
<1>1. SUFFICES ASSUME NEW i \in 1..Len(q), NEW j \in i..Len(q) PROVE q[i].ts <= q[j].ts
  BY DEF InOrder
<1>0. Len(q) \in Nat /\ Len(s) \in Nat /\ Len(q) <= Len(s)
  BY DEF Recorded
<1> DEFINE o == Len(s) - Len(q)
<1>2. o \in Nat /\ o = Len(s) - Len(q) /\ Len(s) = o + Len(q)
  BY <1>0
<1> HIDE DEF o
<1>3. j \in 1..Len(q) /\ o + i \in 1..Len(s) /\ o + j \in o + i .. Len(s)
  BY <1>0, <1>2
<1>4. q[i].ts = s[o + i].ts /\ q[j].ts = s[o + j].ts
  BY <1>2, <1>3 DEF Recorded
<1>5. s[o + i].ts <= s[o + j].ts
  BY <1>3 DEF Recorded, InOrder
<1> QED
  BY <1>4, <1>5

\* What recording a sample leaves of the older ones, a their pruned number.
Pruned(q, q2, t, y, a) ==
    /\ a \in 0..Len(q) /\ Len(q2) = Len(q) - a + 1
    /\ \A k \in 1..Len(q) - a : q2[k] = q[a + k]
    /\ q2[Len(q2)] = [ts |-> t, pnl |-> y]
    /\ \A k \in 1..a : q[k].ts < t - Window
    /\ \A k \in a + 1 .. Len(q) : q[k].ts >= t - Window

LEMMA RecordPrunes ==
    ASSUME NEW q \in Seq(Marks), InOrder(q), NEW t \in Nat, NEW y \in Int
    PROVE  /\ RecordPnlSample(q, t, y) \in Seq(Marks)
           /\ \E a \in 0..Len(q) : Pruned(q, RecordPnlSample(q, t, y), t, y, a)
<1>1. PICK a \in 0..Len(q) :
          /\ Young(q, t) = SubSeq(q, a + 1, Len(q))
          /\ \A i \in 1..a : q[i].ts < t - Window
          /\ \A i \in a + 1 .. Len(q) : q[i].ts >= t - Window
  BY YoungIsSuffix
<1>2. PICK young : young = SubSeq(q, a + 1, Len(q))
  OBVIOUS
<1>3. /\ young \in Seq(Marks) /\ Len(young) = Len(q) - a
      /\ \A k \in 1..Len(q) - a : young[k] = q[a + k]
  BY <1>2
<1>4. PICK c \in Marks : c = [ts |-> t, pnl |-> y]
  BY DEF Marks
<1>5. RecordPnlSample(q, t, y) = Append(young, c)
  BY <1>1, <1>2, <1>4 DEF RecordPnlSample
<1>6. PICK q2 : q2 = Append(young, c)
  OBVIOUS
<1>7. /\ q2 \in Seq(Marks) /\ Len(q2) = Len(young) + 1 /\ q2[Len(young) + 1] = c
      /\ \A k \in 1..Len(young) : q2[k] = young[k]
  BY <1>3, <1>6
<1>8. Len(q2) = Len(q) - a + 1 /\ \A k \in 1..Len(q) - a : q2[k] = q[a + k]
  BY <1>3, <1>7
<1>9. q2[Len(q2)] = c
  BY <1>7
<1>10. Pruned(q, q2, t, y, a)
  BY <1>1, <1>4, <1>8, <1>9 DEF Pruned
<1> QED
  BY <1>5, <1>6, <1>7, <1>10

\* s2 is s with one more close.
Closes(s, s2, t, p) ==
    /\ s2 = Append(s, [ts |-> t, pnl |-> p])
    /\ s2 \in Seq(Marks) /\ Len(s2) = Len(s) + 1
    /\ \A i \in 1..Len(s) : s2[i] = s[i]
    /\ s2[Len(s2)].ts = t /\ s2[Len(s2)].pnl = p
    /\ \A i \in 0..Len(s) : Lost(s2, i) = Lost(s, i) - p /\ Lost(s, i) \in Int
    /\ Lost(s2, Len(s2)) = 0

LEMMA CloseAppends ==
    ASSUME NEW s \in Seq(Marks), NEW t \in Nat, NEW p \in Int
    PROVE  \E s2 \in Seq(Marks) : Closes(s, s2, t, p)
<1>1. PICK c \in Marks : c = [ts |-> t, pnl |-> p]
  BY DEF Marks
<1>2. PICK s2 : s2 = Append(s, c)
  OBVIOUS
<1>3. /\ s2 \in Seq(Marks) /\ Len(s2) = Len(s) + 1 /\ s2[Len(s) + 1] = c
      /\ \A i \in 1..Len(s) : s2[i] = s[i]
  BY <1>2
<1>4. s2[Len(s2)] = c /\ c.ts = t /\ c.pnl = p
  BY <1>1, <1>3
<1>5. \A i \in 0..Len(s) : Lost(s2, i) = Lost(s, i) - p /\ Lost(s, i) \in Int
  BY <1>2, <1>4, LostOfOneMore
<1>6. Lost(s2, Len(s2)) = 0
  BY <1>3, LostOfNone
<1> QED
  BY <1>1, <1>2, <1>3, <1>4, <1>5, <1>6 DEF Closes

LEMMA RecordedAfterClose ==
    ASSUME NEW s \in Seq(Marks), NEW q \in Seq(Marks), NEW t \in Nat, Recorded(s, q, t),
           NEW s2 \in Seq(Marks), NEW p \in Int, Closes(s, s2, t, p),
           NEW q2 \in Seq(Marks), NEW y \in Int, NEW a \in Nat, Pruned(q, q2, t, y, a)
    PROVE  Recorded(s2, q2, t)
<1>0. Window \in Nat
  BY BreakerAssumption
<1>1. PICK n \in Nat, m \in Nat, o \in Nat : n = Len(s) /\ m = Len(q) /\ o = n - m /\ n = o + m
  BY DEF Recorded
<1>2. Len(s2) = n + 1 /\ Len(q2) = m - a + 1 /\ a \in 0..m /\ Len(s2) - Len(q2) = o + a
  BY <1>1 DEF Closes, Pruned
<1>3. /\ \A i \in 1..n : s2[i] = s[i] /\ s2[i].ts <= t /\ s2[i].ts \in Nat
      /\ s2[n + 1].ts = t
  <2>1. \A i \in 1..n : s2[i] = s[i] /\ s[i].ts <= t
    BY <1>1 DEF Closes, Recorded
  <2>2. s2[n + 1].ts = t
    BY <1>2 DEF Closes
  <2> QED
    BY <1>1, <2>1, <2>2, MarkParts
<1>4. ASSUME NEW i \in 1..n + 1, NEW j \in i..n + 1 PROVE s2[i].ts <= s2[j].ts
  <2>1. CASE j = n + 1
    BY <1>3, <2>1
  <2>2. CASE j # n + 1
    <3>1. i \in 1..n /\ j \in i..n /\ j \in 1..n
      BY <2>2
    <3>2. s[i].ts <= s[j].ts
      BY <1>1, <3>1 DEF Recorded, InOrder
    <3> QED
      BY <1>3, <3>1, <3>2
  <2> QED
    BY <2>1, <2>2
<1>5. InOrder(s2)
  BY <1>2, <1>4 DEF InOrder
<1>6. ASSUME NEW k \in 1..m - a + 1 PROVE q2[k].ts = s2[o + a + k].ts
  <2>1. CASE k = m - a + 1
    <3>0. k = Len(q2) /\ q2[Len(q2)] = [ts |-> t, pnl |-> y]
      BY <1>2, <2>1 DEF Pruned
    <3>1. q2[k].ts = t
      BY <3>0
    <3>2. o + a + k = n + 1
      BY <1>1, <1>2, <2>1
    <3> QED
      BY <1>3, <3>1, <3>2
  <2>2. CASE k # m - a + 1
    <3>1. k \in 1..m - a
      BY <1>2, <2>2
    <3>2. PICK j \in 1..m : j = a + k
      BY <1>2, <3>1
    <3>3. q2[k] = q[j]
      BY <1>1, <3>1, <3>2 DEF Pruned
    <3>4. o + j \in 1..n /\ o + j = o + a + k
      BY <1>1, <1>2, <3>2
    <3>5. q[j].ts = s[o + j].ts
      BY <1>1, <3>2 DEF Recorded
    <3>6. s2[o + j] = s[o + j]
      BY <1>3, <3>4
    <3> QED
      BY <3>3, <3>4, <3>5, <3>6
  <2> QED
    BY <2>1, <2>2
<1>7. \A i \in 1..Len(s2) : s2[i].ts <= t
  BY <1>2, <1>3
<1>8. ASSUME NEW i \in 1..o + a PROVE s2[i].ts < t - Window
  <2>1. i \in 1..n /\ s2[i] = s[i]
    BY <1>1, <1>2, <1>3
  <2>2. CASE i <= o
    BY <1>1, <2>1, <2>2 DEF Recorded
  <2>3. CASE i > o
    <3>1. PICK k \in 1..a : k = i - o /\ i = o + k
      BY <2>3
    <3>2. k \in 1..m
      BY <1>2
    <3>3. q[k].ts = s[o + k].ts
      BY <1>1, <3>2 DEF Recorded
    <3>4. q[k].ts < t - Window
      BY <3>1 DEF Pruned
    <3> QED
      BY <2>1, <3>1, <3>3, <3>4
  <2> QED
    BY <2>2, <2>3
<1>9. Len(q2) <= Len(s2)
  BY <1>1, <1>2
<1>10. \A k \in 1..Len(q2) : q2[k].ts = s2[Len(s2) - Len(q2) + k].ts
  BY <1>2, <1>6
<1>11. \A i \in 1..Len(s2) - Len(q2) : s2[i].ts < t - Window
  BY <1>2, <1>8
<1> QED
  BY <1>5, <1>7, <1>9, <1>10, <1>11 DEF Recorded

LEMMA AllYoung ==
    ASSUME NEW q \in Seq(Marks), NEW t \in Nat,
           NEW q2 \in Seq(Marks), NEW y \in Int, NEW a \in Nat, Pruned(q, q2, t, y, a),
           InOrder(q2)
    PROVE  Young(q2, t) = q2 /\ \A i \in 1..Len(q2) : q2[i].ts >= t - Window
<1>0. Window \in Nat
  BY BreakerAssumption
<1>1. ASSUME NEW i \in 1..Len(q2) PROVE q2[i].ts >= t - Window
  <2>1. Len(q2) = Len(q) - a + 1 /\ a \in 0..Len(q)
    BY DEF Pruned
  <2>2. CASE i = Len(q2)
    BY <1>0, <2>2 DEF Pruned
  <2>3. CASE i # Len(q2)
    <3>1. i \in 1..Len(q) - a /\ a + i \in a + 1 .. Len(q)
      BY <2>1, <2>3
    <3> QED
      BY <3>1 DEF Pruned
  <2> QED
    BY <2>2, <2>3
<1>2. Young(q2, t) = q2
  BY <1>1, YoungIsAll
<1> QED
  BY <1>1, <1>2

LEMMA DayGrows ==
    ASSUME NEW t \in Nat, NEW d \in Nat, d <= t
    PROVE  Day(d) <= Day(t) /\ Day(d) \in Nat /\ Day(t) \in Nat
<1>1. BreakerDay \in Nat \ {0}
  BY BreakerAssumption
<1> QED
  BY <1>1 DEF Day

LEMMA DayType ==
    ASSUME NEW t \in Nat
    PROVE  Day(t) \in Nat
<1>1. BreakerDay \in Nat \ {0}
  BY BreakerAssumption
<1> QED
  BY <1>1 DEF Day

\* A rollover moves the day on, past every sample of an earlier day.
LEMMA ReckonedAfterRollover ==
    ASSUME NEW s \in Seq(Marks), NEW q \in Seq(Marks), NEW t \in Nat, NEW d \in Nat, d <= t,
           NEW r \in Int, Reckoned(s, q, r, d), NEW r2 \in Int, NEW d2 \in Nat,
           IF Day(d) = Day(t) THEN r2 = r /\ d2 = d ELSE r2 = 0 /\ d2 = t
    PROVE  Reckoned(s, q, r2, d2) /\ d2 <= t /\ Day(d2) = Day(t)
<1>1. Day(d) <= Day(t) /\ Day(d) \in Nat /\ Day(t) \in Nat
  BY DayGrows
<1>2. CASE Day(d) = Day(t)
  BY <1>2
<1>3. CASE Day(d) # Day(t)
  <2>1. d2 = t /\ Day(d2) = Day(t)
    BY <1>3
  <2>2. ASSUME NEW k \in 1..Len(q) PROVE Day(q[k].ts) < Day(d2)
    <3>1. q[k].ts \in Nat
      BY MarkParts
    <3>2. Day(q[k].ts) \in Nat
      BY <3>1, DayType
    <3>3. Day(q[k].ts) <= Day(d)
      BY DEF Reckoned
    <3> QED
      BY <1>1, <1>3, <2>1, <3>2, <3>3
  <2>3. ASSUME NEW k \in 1..Len(q) PROVE Day(q[k].ts) <= Day(d2) /\ Day(q[k].ts) # Day(d2)
    <3>1. q[k].ts \in Nat
      BY MarkParts
    <3>2. Day(q[k].ts) \in Nat
      BY <3>1, DayType
    <3> QED
      BY <1>1, <2>1, <2>2, <3>2
  <2> QED
    BY <2>1, <2>3 DEF Reckoned
<1> QED
  BY <1>2, <1>3

LEMMA ReckonedAfterClose ==
    ASSUME NEW s \in Seq(Marks), NEW q \in Seq(Marks), NEW t \in Nat, Len(q) <= Len(s),
           NEW r \in Int, NEW d \in Nat, Reckoned(s, q, r, d), Day(d) = Day(t),
           NEW s2 \in Seq(Marks), NEW p \in Int, Closes(s, s2, t, p),
           NEW q2 \in Seq(Marks), NEW a \in Nat, Pruned(q, q2, t, r + p, a)
    PROVE  Reckoned(s2, q2, r + p, d)
<1>1. PICK n \in Nat, m \in Nat, o \in Nat : n = Len(s) /\ m = Len(q) /\ o = n - m /\ n = o + m
  OBVIOUS
<1>2. Len(s2) = n + 1 /\ Len(q2) = m - a + 1 /\ a \in 0..m /\ Len(s2) - Len(q2) = o + a
  BY <1>1 DEF Closes, Pruned
<1>3. Day(t) <= Day(d)
  BY DayGrows
<1>4. ASSUME NEW k \in 1..m - a + 1
      PROVE  /\ Day(q2[k].ts) <= Day(d)
             /\ Day(q2[k].ts) = Day(d) => q2[k].pnl - (r + p) = Lost(s2, o + a + k)
  <2>1. CASE k = m - a + 1
    <3>1. q2[k] = [ts |-> t, pnl |-> r + p]
      BY <1>2, <2>1 DEF Pruned
    <3>2. q2[k].ts = t /\ q2[k].pnl - (r + p) = 0
      BY <3>1
    <3>3. o + a + k = Len(s2)
      BY <1>1, <1>2, <2>1
    <3>4. Lost(s2, o + a + k) = 0
      BY <3>3 DEF Closes
    <3> QED
      BY <1>3, <3>2, <3>4
  <2>2. CASE k # m - a + 1
    <3>1. k \in 1..m - a
      BY <1>2, <2>2
    <3>2. PICK j \in 1..m : j = a + k
      BY <1>2, <3>1
    <3>a. o + j \in 0..n /\ o + j = o + a + k
      BY <1>1, <1>2, <3>2
    <3>3. PICK x \in 0..n : x = o + j /\ x = o + a + k
      BY <3>a
    <3>4. q2[k] = q[j] /\ q[j].pnl \in Int
      BY <1>1, <3>1, <3>2, MarkParts DEF Pruned
    <3>5. Day(q[j].ts) <= Day(d) /\ (Day(q[j].ts) = Day(d) => q[j].pnl - r = Lost(s, x))
      BY <1>1, <3>2, <3>3 DEF Reckoned
    <3>6. Lost(s2, x) = Lost(s, x) - p /\ Lost(s, x) \in Int
      BY <1>1, <3>3 DEF Closes
    <3>b. \A u, v \in Int : u - r = v => u - (r + p) = v - p
      OBVIOUS
    <3>7. q[j].pnl - r = Lost(s, x) => q[j].pnl - (r + p) = Lost(s2, x)
      BY <3>4, <3>6, <3>b
    <3>8. /\ Day(q2[k].ts) <= Day(d)
          /\ Day(q2[k].ts) = Day(d) => q2[k].pnl - (r + p) = Lost(s2, x)
      BY <3>4, <3>5, <3>7
    <3> QED
      BY <3>3, <3>8
  <2> QED
    BY <2>1, <2>2
<1> QED
  BY <1>2, <1>4 DEF Reckoned

\* The last sample was just taken, at the profit r, and none is too old.
Fresh(q, t, r) ==
    /\ Len(q) >= 1 /\ q[Len(q)].pnl = r
    /\ Young(q, t) = q
    /\ \A i \in 1..Len(q) : q[i].ts >= t - Window

\* Within one day the fall of the samples is what the closes have lost.
LEMMA VelocityIsExact ==
    ASSUME NEW s \in Seq(Marks), NEW q \in Seq(Marks), NEW t \in Nat, Recorded(s, q, t),
           NEW r \in Int, Fresh(q, t, r), NEW d \in Nat, Reckoned(s, q, r, d),
           \A k \in 1..Len(q) : Day(q[k].ts) = Day(d)
    PROVE  FallsTooFast(q, t) <=>
               \E i \in DOMAIN s : s[i].ts >= t - Window /\ Lost(s, i) > MaxDrawdown
<1>0. Window \in Nat
  BY BreakerAssumption
<1>a. Len(q) <= Len(s) /\ Len(q) \in Nat /\ Len(s) \in Nat
  BY DEF Recorded
<1>b. Len(s) - Len(q) \in Nat /\ Len(s) = (Len(s) - Len(q)) + Len(q)
  BY <1>a
<1>1. PICK o \in Nat : o = Len(s) - Len(q) /\ Len(s) = o + Len(q)
  BY <1>b
<1>2. FallsTooFast(q, t) <=> \E k \in 1..Len(q) : q[k].pnl - r > MaxDrawdown
  <2>1. Last(q) = q[Len(q)] /\ DOMAIN q = 1..Len(q)
    BY DEF Last
  <2>2. Young(q, t) = q /\ q[Len(q)].pnl = r
    BY DEF Fresh
  <2> QED
    BY <2>1, <2>2 DEF FallsTooFast
<1>3. \A k \in 1..Len(q) : q[k].pnl - r = Lost(s, o + k) /\ q[k].ts = s[o + k].ts
  BY <1>1 DEF Reckoned, Recorded
<1>4. \A i \in 1..o : s[i].ts < t - Window /\ s[i].ts \in Nat
  <2>1. \A i \in 1..o : s[i].ts < t - Window
    BY <1>1 DEF Recorded
  <2>2. \A i \in 1..o : i \in 1..Len(s)
    BY <1>1, <1>a
  <2> QED
    BY <2>1, <2>2, MarkParts
<1>5. ASSUME NEW k \in 1..Len(q), q[k].pnl - r > MaxDrawdown
      PROVE  \E i \in DOMAIN s : s[i].ts >= t - Window /\ Lost(s, i) > MaxDrawdown
  <2>1. o + k \in DOMAIN s
    BY <1>1
  <2>2. s[o + k].ts >= t - Window /\ Lost(s, o + k) > MaxDrawdown
    BY <1>3, <1>5 DEF Fresh
  <2> QED
    BY <2>1, <2>2
<1>6. ASSUME NEW i \in DOMAIN s, s[i].ts >= t - Window, Lost(s, i) > MaxDrawdown
      PROVE  \E k \in 1..Len(q) : q[k].pnl - r > MaxDrawdown
  <2>1. i \in 1..Len(s) /\ i > o
    BY <1>0, <1>4, <1>6
  <2>2. PICK k \in 1..Len(q) : k = i - o /\ i = o + k
    BY <1>1, <2>1
  <2> QED
    BY <1>3, <1>6, <2>2
<1> QED
  BY <1>2, <1>5, <1>6

\* The outcomes lose as often as the closes since the resume do.
LEMMA LossesAreExact ==
    ASSUME NEW s \in Seq(Marks), NEW results \in Seq({"win", "loss"}), NEW from \in Nat,
           Counted(s, results, from)
    PROVE  LosesTooOften(results) <=>
               /\ MaxLosses > 0
               /\ Len(s) - from >= MaxLosses
               /\ \A i \in Len(s) - MaxLosses + 1 .. Len(s) : s[i].pnl < 0
<1>0. MaxLosses \in Nat
  BY BreakerAssumption
<1>1. Len(results) = Len(s) - from /\ Len(s) = from + Len(results)
  BY DEF Counted
<1>2. SUFFICES ASSUME MaxLosses > 0, Len(results) >= MaxLosses
               PROVE  (\A i \in Len(results) - MaxLosses + 1 .. Len(results) : results[i] = "loss")
                      <=> \A i \in Len(s) - MaxLosses + 1 .. Len(s) : s[i].pnl < 0
  BY <1>1 DEF LosesTooOften
<1>3. \A i \in 1..Len(results) : results[i] = "loss" <=> s[from + i].pnl < 0
  BY DEF Counted
<1>4. ASSUME \A i \in Len(results) - MaxLosses + 1 .. Len(results) : results[i] = "loss",
             NEW i \in Len(s) - MaxLosses + 1 .. Len(s)
      PROVE  s[i].pnl < 0
  <2>1. PICK j \in 1..Len(results) : i = from + j /\ j \in Len(results) - MaxLosses + 1 .. Len(results)
    <3>1. i - from \in Len(results) - MaxLosses + 1 .. Len(results)
      BY <1>0, <1>1
    <3>2. i - from \in 1..Len(results) /\ i = from + (i - from)
      BY <1>0, <1>1, <1>2
    <3> QED
      BY <3>1, <3>2
  <2> QED
    BY <1>3, <1>4, <2>1
<1>5. ASSUME \A i \in Len(s) - MaxLosses + 1 .. Len(s) : s[i].pnl < 0,
             NEW i \in Len(results) - MaxLosses + 1 .. Len(results)
      PROVE  results[i] = "loss"
  <2>1. from + i \in Len(s) - MaxLosses + 1 .. Len(s) /\ i \in 1..Len(results)
    BY <1>0, <1>1, <1>2
  <2> QED
    BY <1>3, <1>5, <2>1
<1> QED
  BY <1>4, <1>5

LEMMA CountedAfterClose ==
    ASSUME NEW s \in Seq(Marks), NEW results \in Seq({"win", "loss"}), NEW from \in Nat,
           Counted(s, results, from), NEW t \in Nat,
           NEW s2 \in Seq(Marks), NEW p \in Int, Closes(s, s2, t, p),
           NEW results2, results2 = Append(results, IF p >= 0 THEN "win" ELSE "loss")
    PROVE  results2 \in Seq({"win", "loss"}) /\ Counted(s2, results2, from)
<1>1. PICK o \in {"win", "loss"} : o = (IF p >= 0 THEN "win" ELSE "loss") /\ (o = "loss" <=> p < 0)
  OBVIOUS
<1>2. results2 = Append(results, o)
  BY <1>1
<1>3. /\ results2 \in Seq({"win", "loss"}) /\ Len(results2) = Len(results) + 1
      /\ results2[Len(results) + 1] = o
      /\ \A i \in 1..Len(results) : results2[i] = results[i]
  BY <1>2
<1>4. Len(s2) = Len(s) + 1 /\ Len(s) = from + Len(results) /\ from <= Len(s)
  BY DEF Closes, Counted
<1>5. ASSUME NEW i \in 1..Len(results2) PROVE results2[i] = "loss" <=> s2[from + i].pnl < 0
  <2>1. CASE i = Len(results) + 1
    <3>1. from + i = Len(s2)
      BY <1>4, <2>1
    <3>2. s2[from + i].pnl = p
      BY <3>1 DEF Closes
    <3> QED
      BY <1>1, <1>3, <2>1, <3>2
  <2>2. CASE i # Len(results) + 1
    <3>1. i \in 1..Len(results) /\ from + i \in 1..Len(s)
      BY <1>3, <1>4, <2>2
    <3>2. s2[from + i] = s[from + i]
      BY <3>1 DEF Closes
    <3>3. results[i] = "loss" <=> s[from + i].pnl < 0
      BY <3>1 DEF Counted
    <3> QED
      BY <1>3, <3>1, <3>2, <3>3
  <2> QED
    BY <2>1, <2>2
<1> QED
  BY <1>3, <1>4, <1>5 DEF Counted

LEMMA LostSinceIs == \A i \in Nat : LostSince(i) = Lost(closes, i)
<1> TAKE i \in Nat
<1> DEFINE f == [j \in i + 1 .. Len(closes) |-> closes[j].pnl]
<1>1. LostSince(i) = -FoldFunction(+, 0, f)
  BY DEF LostSince
<1>2. Lost(closes, i) = -SumOf(f)
  BY DEF Lost
<1> HIDE DEF f
<1>3. SumOf(f) = SumUp(f)[DOMAIN f] /\ FoldFunction(+, 0, f) = SumUp(f)[DOMAIN f]
  BY SumUnfolds DEF FoldFunction, FoldFunctionOnSet, MapThenFoldSet, SumUp, Recursion, Some
<1> QED
  BY <1>1, <1>2, <1>3

LEMMA RolloverReckons ==
    ASSUME BreakerInv
    PROVE  /\ Rollover(now).pnl \in Int /\ Rollover(now).day \in Nat
           /\ Rollover(now).day <= now /\ Day(Rollover(now).day) = Day(now)
           /\ Reckoned(closes, pnlSamples, Rollover(now).pnl, Rollover(now).day)
<1>1. /\ now \in Nat /\ pnlDay \in Nat /\ pnlDay <= now /\ realized \in Int
      /\ closes \in Seq(Marks) /\ pnlSamples \in Seq(Marks)
      /\ Reckoned(closes, pnlSamples, realized, pnlDay)
  BY DEF BreakerInv, BreakerTyped
<1>a. /\ Rollover(now).pnl = IF Day(pnlDay) = Day(now) THEN realized ELSE 0
      /\ Rollover(now).day = IF Day(pnlDay) = Day(now) THEN pnlDay ELSE now
  BY DEF Rollover
<1>b. Rollover(now).pnl \in Int /\ Rollover(now).day \in Nat
  BY <1>1, <1>a
<1>2. PICK r2 \in Int, d2 \in Nat : r2 = Rollover(now).pnl /\ d2 = Rollover(now).day
  BY <1>b
<1>c. IF Day(pnlDay) = Day(now) THEN r2 = realized /\ d2 = pnlDay ELSE r2 = 0 /\ d2 = now
  BY <1>2, <1>a
<1>3. Reckoned(closes, pnlSamples, r2, d2) /\ d2 <= now /\ Day(d2) = Day(now)
  BY <1>1, <1>c, ReckonedAfterRollover
<1> QED
  BY <1>2, <1>3

\* What a settled close leaves, and its verdict.
LEMMA CloseJudges ==
    ASSUME BreakerInv, NEW profit \in Profits, SettleClose(profit)
    PROVE  BreakerInv'
<1> DEFINE roll == Rollover(now)
<1>0. profit \in Int /\ Cooldown \in Nat \ {0}
  BY BreakerAssumption
<1>1. /\ now \in Nat /\ closes \in Seq(Marks) /\ pnlSamples \in Seq(Marks)
      /\ outcomes \in Seq({"win", "loss"}) /\ resumedAt \in Nat /\ haltUntil \in Nat
      /\ Recorded(closes, pnlSamples, now) /\ Counted(closes, outcomes, resumedAt)
  BY DEF BreakerInv, BreakerTyped
<1>2. /\ roll.pnl \in Int /\ roll.day \in Nat /\ roll.day <= now /\ Day(roll.day) = Day(now)
      /\ Reckoned(closes, pnlSamples, roll.pnl, roll.day)
  BY RolloverReckons
<1>3. PICK r \in Int, d \in Nat : r = roll.pnl /\ d = roll.day
  BY <1>2
<1>4. /\ d <= now /\ Day(d) = Day(now) /\ r + profit \in Int
      /\ Reckoned(closes, pnlSamples, r, d)
  BY <1>0, <1>2, <1>3
<1> HIDE DEF roll
<1>5. /\ inTrade /\ inTrade' = FALSE /\ realized' = r + profit /\ pnlDay' = d
      /\ pnlSamples' = RecordPnlSample(pnlSamples, now, r + profit)
      /\ UNCHANGED <<now, resumedAt>> /\ judged' = TRUE
  BY <1>3 DEF SettleClose, roll
<1>6. PICK s2 \in Seq(Marks) : s2 = closes' /\ Closes(closes, s2, now, profit)
  <2>1. closes' = Append(closes, [ts |-> now, pnl |-> profit])
    BY DEF SettleClose
  <2>2. PICK s2 \in Seq(Marks) : Closes(closes, s2, now, profit)
    BY <1>0, <1>1, CloseAppends
  <2> QED
    BY <2>1, <2>2 DEF Closes
<1>7. PICK q2 \in Seq(Marks), a \in Nat :
          q2 = pnlSamples' /\ Pruned(pnlSamples, q2, now, r + profit, a)
  <2>1. InOrder(pnlSamples)
    BY <1>1, SamplesInOrder
  <2>2. /\ RecordPnlSample(pnlSamples, now, r + profit) \in Seq(Marks)
        /\ \E a \in 0..Len(pnlSamples) :
               Pruned(pnlSamples, RecordPnlSample(pnlSamples, now, r + profit),
                      now, r + profit, a)
    BY <1>1, <1>4, <2>1, RecordPrunes
  <2> QED
    BY <1>5, <2>2
<1>8. PICK results2 \in Seq({"win", "loss"}) :
          results2 = outcomes' /\ Counted(s2, results2, resumedAt)
  <2>1. outcomes' = Append(outcomes, IF profit >= 0 THEN "win" ELSE "loss")
    BY DEF SettleClose
  <2>2. outcomes' \in Seq({"win", "loss"}) /\ Counted(s2, outcomes', resumedAt)
    BY <1>0, <1>1, <1>6, <2>1, CountedAfterClose
  <2> QED
    BY <2>2
<1>9. Recorded(s2, q2, now)
  BY <1>0, <1>1, <1>4, <1>6, <1>7, RecordedAfterClose
<1>10. Reckoned(s2, q2, r + profit, d)
  <2>1. Len(pnlSamples) <= Len(closes)
    BY <1>1 DEF Recorded
  <2> QED
    BY <1>0, <1>1, <1>4, <1>6, <1>7, <2>1, ReckonedAfterClose
<1>11. Fresh(q2, now, r + profit)
  <2>1. InOrder(q2)
    BY <1>1, <1>6, <1>7, <1>9, SamplesInOrder
  <2>2. Young(q2, now) = q2 /\ \A i \in 1..Len(q2) : q2[i].ts >= now - Window
    BY <1>1, <1>4, <1>7, <2>1, AllYoung
  <2>3. q2[Len(q2)] = [ts |-> now, pnl |-> r + profit]
        /\ Len(q2) = Len(pnlSamples) - a + 1 /\ a \in 0..Len(pnlSamples)
    BY <1>7 DEF Pruned
  <2>4. q2[Len(q2)].pnl = r + profit
    BY <2>3
  <2>5. Len(q2) >= 1
    BY <1>1, <2>3
  <2> QED
    BY <2>2, <2>4, <2>5 DEF Fresh
<1>12. haltUntil' = IF FallsTooFast(q2, now) \/ LosesTooOften(results2)
                    THEN now + Cooldown ELSE haltUntil
  <2>1. q2 = RecordPnlSample(pnlSamples, now, Rollover(now).pnl + profit)
    BY <1>3, <1>5, <1>7 DEF roll
  <2>2. results2 = Append(outcomes, IF profit >= 0 THEN "win" ELSE "loss")
    BY <1>8 DEF SettleClose
  <2> QED
    BY <2>1, <2>2 DEF SettleClose, EvaluateDrawdownVelocity
<1>13. haltUntil' > now <=> FallsTooFast(q2, now) \/ LosesTooOften(results2)
  <2>1. haltUntil <= now
    BY <1>5 DEF BreakerInv
  <2> QED
    BY <1>0, <1>1, <1>12, <2>1
<1>14. HaltIsEarned'
  <2>1. SUFFICES ASSUME WithinOneDay' PROVE haltUntil' > now' <=> HaltDeserved'
    BY DEF HaltIsEarned
  <2>2. \A k \in 1..Len(q2) : Day(q2[k].ts) = Day(d)
    BY <1>4, <1>5, <1>7, <2>1 DEF WithinOneDay
  <2>3. FallsTooFast(q2, now) <=>
            \E i \in DOMAIN s2 : s2[i].ts >= now - Window /\ Lost(s2, i) > MaxDrawdown
    BY <1>1, <1>4, <1>9, <1>10, <1>11, <2>2, VelocityIsExact
  <2>4. LosesTooOften(results2) <=>
            /\ MaxLosses > 0
            /\ Len(s2) - resumedAt >= MaxLosses
            /\ \A i \in Len(s2) - MaxLosses + 1 .. Len(s2) : s2[i].pnl < 0
    BY <1>1, <1>8, LossesAreExact
  <2>a. (\A i \in Nat : LostSince(i) = Lost(closes, i))'
    BY LostSinceIs, PTL
  <2>5. \A i \in DOMAIN s2 : LostSince(i)' = Lost(s2, i)
    BY <1>6, <2>a
  <2>6. HaltDeserved' <=>
            \/ \E i \in DOMAIN s2 : s2[i].ts >= now - Window /\ Lost(s2, i) > MaxDrawdown
            \/ /\ MaxLosses > 0
               /\ Len(s2) - resumedAt >= MaxLosses
               /\ \A i \in Len(s2) - MaxLosses + 1 .. Len(s2) : s2[i].pnl < 0
    BY <1>5, <1>6, <2>5 DEF HaltDeserved
  <2> QED
    BY <1>5, <1>13, <2>3, <2>4, <2>6
<1>15. haltUntil' \in Nat
  BY <1>0, <1>1, <1>12
<1>16. BreakerTyped'
  BY <1>1, <1>4, <1>5, <1>6, <1>7, <1>8, <1>15 DEF BreakerTyped
<1> QED
  BY <1>4, <1>5, <1>6, <1>7, <1>8, <1>9, <1>10, <1>14, <1>16 DEF BreakerInv

LEMMA RecordedLater ==
    ASSUME NEW s \in Seq(Marks), NEW q \in Seq(Marks), NEW t \in Nat, Recorded(s, q, t)
    PROVE  Recorded(s, q, t + 1)
<1>1. PICK t2 \in Nat : t2 = t + 1
  OBVIOUS
<1>2. Window \in Nat
  BY BreakerAssumption
<1>3. \A i \in 1..Len(s) : s[i].ts <= t2
  <2>1. \A i \in 1..Len(s) : s[i].ts \in Nat /\ s[i].ts <= t
    BY MarkParts DEF Recorded
  <2> QED
    BY <1>1, <2>1
<1>4. ASSUME NEW i \in 1..Len(s) - Len(q) PROVE s[i].ts < t2 - Window
  <2>1. i \in 1..Len(s) /\ s[i].ts < t - Window
    BY DEF Recorded
  <2> QED
    BY <1>1, <1>2, <2>1, MarkParts
<1>5. Recorded(s, q, t2)
  BY <1>3, <1>4 DEF Recorded
<1> QED
  BY <1>1, <1>5

\* Steps that settle no close.
LEMMA OthersKeep ==
    ASSUME BreakerInv,
           \/ ReconcileMissing
           \/ \E enters \in BOOLEAN : FlatTick(enters)
           \/ TimeGoesOn
           \/ SessionRestarts
    PROVE  BreakerInv'
<1>1. /\ {now, pnlDay, haltUntil, resumedAt} \subseteq Nat
      /\ inTrade \in BOOLEAN /\ realized \in Int
      /\ pnlSamples \in Seq(Marks) /\ closes \in Seq(Marks)
      /\ outcomes \in Seq({"win", "loss"})
      /\ inTrade => haltUntil <= now
      /\ pnlDay <= now
      /\ Recorded(closes, pnlSamples, now)
      /\ Reckoned(closes, pnlSamples, realized, pnlDay)
      /\ Counted(closes, outcomes, resumedAt)
  BY DEF BreakerInv, BreakerTyped
<1>2. /\ Rollover(now).pnl \in Int /\ Rollover(now).day \in Nat
      /\ Rollover(now).day <= now
      /\ Reckoned(closes, pnlSamples, Rollover(now).pnl, Rollover(now).day)
  BY RolloverReckons
<1>3. CASE ReconcileMissing
  <2>1. /\ inTrade' = FALSE /\ judged' = FALSE
        /\ realized' = Rollover(now).pnl /\ pnlDay' = Rollover(now).day
        /\ UNCHANGED <<now, pnlSamples, outcomes, haltUntil, closes, resumedAt>>
    BY <1>3 DEF ReconcileMissing
  <2>2. Reckoned(closes', pnlSamples', realized', pnlDay')
    BY <1>2, <2>1
  <2> QED
    BY <1>1, <1>2, <2>1, <2>2 DEF BreakerInv, BreakerTyped, HaltIsEarned
<1>4. ASSUME NEW enters \in BOOLEAN, FlatTick(enters) PROVE BreakerInv'
  <2>1. /\ judged' = FALSE /\ inTrade' \in BOOLEAN
        /\ realized' = Rollover(now).pnl /\ pnlDay' = Rollover(now).day
        /\ UNCHANGED <<now, pnlSamples, closes>>
    BY <1>4 DEF FlatTick
  <2>2. Reckoned(closes', pnlSamples', realized', pnlDay')
    BY <1>2, <2>1
  <2>3. CASE haltUntil > 0 /\ now >= haltUntil
    <3>1. haltUntil' = 0 /\ outcomes' = <<>> /\ resumedAt' = Len(closes)
      BY <1>4, <2>3 DEF FlatTick, Resume
    <3>2. outcomes' \in Seq({"win", "loss"}) /\ Len(outcomes') = 0
      BY <3>1
    <3>3. Counted(closes', outcomes', resumedAt')
      BY <1>1, <2>1, <3>1, <3>2 DEF Counted
    <3>4. resumedAt' \in Nat /\ haltUntil' \in Nat /\ haltUntil' <= now'
      BY <1>1, <2>1, <3>1
    <3> QED
      BY <1>1, <1>2, <2>1, <2>2, <3>2, <3>3, <3>4 DEF BreakerInv, BreakerTyped, HaltIsEarned
  <2>4. CASE ~ (haltUntil > 0 /\ now >= haltUntil)
    <3>1. UNCHANGED <<haltUntil, outcomes, resumedAt>> /\ (inTrade' => now >= haltUntil)
      BY <1>4, <2>4 DEF FlatTick
    <3>2. inTrade' => haltUntil' <= now'
      BY <1>1, <2>1, <3>1
    <3>3. Counted(closes', outcomes', resumedAt')
      BY <1>1, <2>1, <3>1
    <3> QED
      BY <1>1, <1>2, <2>1, <2>2, <3>1, <3>2, <3>3 DEF BreakerInv, BreakerTyped, HaltIsEarned
  <2> QED
    BY <2>3, <2>4
<1>5. CASE TimeGoesOn
  <2>1. now' = now + 1 /\ judged' = FALSE
        /\ UNCHANGED <<inTrade, realized, pnlDay, pnlSamples, outcomes, haltUntil, closes, resumedAt>>
    BY <1>5 DEF TimeGoesOn
  <2>2. Recorded(closes, pnlSamples, now + 1)
    BY <1>1, RecordedLater
  <2>3. Recorded(closes', pnlSamples', now')
    BY <2>1, <2>2
  <2>4. now' \in Nat /\ pnlDay' <= now' /\ (inTrade' => haltUntil' <= now')
    BY <1>1, <2>1
  <2>5. Reckoned(closes', pnlSamples', realized', pnlDay') /\ Counted(closes', outcomes', resumedAt')
    BY <1>1, <2>1
  <2> QED
    BY <1>1, <2>1, <2>3, <2>4, <2>5 DEF BreakerInv, BreakerTyped, HaltIsEarned
<1>6. CASE SessionRestarts
  <2>1. /\ pnlSamples' = <<>> /\ outcomes' = <<>> /\ closes' = <<>>
        /\ haltUntil' = 0 /\ resumedAt' = 0 /\ judged' = FALSE
        /\ UNCHANGED <<now, inTrade, realized, pnlDay>>
    BY <1>6 DEF SessionRestarts
  <2>2. /\ pnlSamples' \in Seq(Marks) /\ closes' \in Seq(Marks)
        /\ outcomes' \in Seq({"win", "loss"})
        /\ Len(pnlSamples') = 0 /\ Len(closes') = 0 /\ Len(outcomes') = 0
    BY <2>1
  <2>3. Recorded(closes', pnlSamples', now') /\ Reckoned(closes', pnlSamples', realized', pnlDay')
        /\ Counted(closes', outcomes', resumedAt')
    BY <2>1, <2>2 DEF Recorded, InOrder, Reckoned, Counted
  <2> QED
    BY <1>1, <2>1, <2>2, <2>3 DEF BreakerInv, BreakerTyped, HaltIsEarned
<1> QED
  BY <1>3, <1>4, <1>5, <1>6

\* HaltIsEarned: a settled close halts entries exactly if the trades since the
\* start of the session deserve it, for every window, limit, cooldown and
\* sequence of profits, whatever was pruned, resumed or restarted before.
THEOREM HaltsAreEarned == BreakerSpec => []HaltIsEarned
<1>1. BreakerInit => BreakerInv
  <2> SUFFICES ASSUME BreakerInit PROVE BreakerInv
    OBVIOUS
  <2>1. /\ now = 1 /\ inTrade = FALSE /\ realized = 0 /\ pnlDay = 1 /\ judged = FALSE
        /\ haltUntil = 0 /\ resumedAt = 0
    BY DEF BreakerInit
  <2>2. <<>> \in Seq(Marks) /\ <<>> \in Seq({"win", "loss"}) /\ Len(<<>>) = 0
    OBVIOUS
  <2>3. /\ pnlSamples \in Seq(Marks) /\ closes \in Seq(Marks)
        /\ outcomes \in Seq({"win", "loss"})
        /\ Len(pnlSamples) = 0 /\ Len(closes) = 0 /\ Len(outcomes) = 0
    BY <2>2 DEF BreakerInit
  <2>4. Recorded(closes, pnlSamples, now) /\ Reckoned(closes, pnlSamples, realized, pnlDay)
        /\ Counted(closes, outcomes, resumedAt)
    BY <2>1, <2>3 DEF Recorded, InOrder, Reckoned, Counted
  <2>5. now \in Nat /\ pnlDay \in Nat /\ haltUntil \in Nat /\ resumedAt \in Nat /\ realized \in Int
    BY <2>1
  <2>6. inTrade \in BOOLEAN
    BY <2>1
  <2>7. BreakerTyped
    BY <2>3, <2>5, <2>6 DEF BreakerTyped
  <2>8. HaltIsEarned
    BY <2>1 DEF HaltIsEarned
  <2>9. (inTrade => haltUntil <= now) /\ pnlDay <= now
    BY <2>1
  <2> QED
    BY <2>4, <2>7, <2>8, <2>9 DEF BreakerInv
<1>2. ASSUME BreakerInv, [BreakerNext]_breakerVars PROVE BreakerInv'
  <2>1. ASSUME NEW profit \in Profits, SettleClose(profit) PROVE BreakerInv'
    BY <1>2, <2>1, CloseJudges
  <2>2. CASE \/ ReconcileMissing
             \/ \E enters \in BOOLEAN : FlatTick(enters)
             \/ TimeGoesOn
             \/ SessionRestarts
    BY <1>2, <2>2, OthersKeep
  <2>3. CASE UNCHANGED breakerVars
    <3>1. UNCHANGED <<now, inTrade, realized, pnlDay, pnlSamples, outcomes, haltUntil,
                      closes, resumedAt, judged>>
      BY <2>3 DEF breakerVars
    <3>a. \A i \in Nat : LostSince(i) = Lost(closes, i)
      BY LostSinceIs
    <3>b. (\A i \in Nat : LostSince(i) = Lost(closes, i))'
      BY LostSinceIs, PTL
    <3>c. closes \in Seq(Marks) /\ DOMAIN closes \subseteq Nat
      BY <1>2 DEF BreakerInv, BreakerTyped
    <3>d. HaltDeserved' <=> HaltDeserved
      BY <3>1, <3>a, <3>b, <3>c DEF HaltDeserved
    <3>2. HaltIsEarned'
      BY <1>2, <3>1, <3>d DEF BreakerInv, HaltIsEarned, WithinOneDay
    <3> QED
      BY <1>2, <3>1, <3>2 DEF BreakerInv, BreakerTyped
  <2> QED
    BY <1>2, <2>1, <2>2, <2>3 DEF BreakerNext
<1>3. BreakerInv => HaltIsEarned
  BY DEF BreakerInv
<1> QED
  BY <1>1, <1>2, <1>3, PTL DEF BreakerSpec

-----------------------------------------------------------------------------
(* The parts side by side.                                                 *)

LEMMA PartsStart ==
    AllInit => WsInit /\ FeedInit /\ PosInit /\ PumpInit /\ LearnInit /\ BreakerInit /\ Init
  BY DEF AllInit

\* A step of the composition is a step of each part or leaves it alone.
LEMMA PartsStep ==
    ASSUME [AllNext]_allVars
    PROVE  /\ [WsNext]_wsVars /\ [FeedNext]_feedVars /\ [PosNext]_posVars
           /\ [PumpNext]_pumpVars /\ [LearnNext]_learnVars /\ [BreakerNext]_breakerVars
           /\ [Next]_vars
  BY DEF AllNext, allVars

\* Each part of the composition that the run checks behaves as the part alone.
THEOREM PartsAreKept ==
    AllFairSpec => WsSpec /\ FeedSpec /\ PosSpec /\ PumpSpec /\ LearnSpec /\ BreakerSpec /\ Spec
  BY PartsStart, PartsStep, PTL
     DEF AllFairSpec, WsSpec, FeedSpec, PosSpec, PumpSpec, LearnSpec, BreakerSpec, Spec

\* What is proved of each part holds of their composition: whatever one part
\* does, the others keep their properties.
THEOREM SurroundingsHold ==
    AllFairSpec =>
        /\ [](ConnectionKept /\ ServedFresh /\ PositionServed /\ HaltIsEarned)
        /\ CreditIsEarned /\ PlacementKept
  BY PartsAreKept, ConnectionIsKept, PriceIsFresh, CachedPositionIsHeld,
     HaltsAreEarned, CreditsAreEarned, MakerImplements, PTL

\* And so is the bound of a day's loss, under the hypotheses of DayLossIsBounded.
THEOREM DayLossHolds ==
    ASSUME MaxDailyLoss > 0, Prices # {}, NEW top \in Nat, \A p \in Prices : p <= top
    PROVE  AllFairSpec => []DayLossBounded
<1>1. LearnSpec => []DayLossBounded
  BY DayLossIsBounded
<1> QED
  BY <1>1, PartsAreKept, PTL

=============================================================================
