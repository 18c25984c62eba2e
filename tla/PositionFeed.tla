----------------------------- MODULE PositionFeed -----------------------------
(***************************************************************************)
(* The private websocket client and the position source in front of it:    *)
(* positions of one symbol are pushed over an authenticated connection and *)
(* cached, and a reader takes the cached one while the last message of any *)
(* kind is young, else asks REST.                                          *)
(*                                                                         *)
(* There is one socket at a time: only its close event, or a transport     *)
(* that cannot be made, schedules the next.                                *)
(***************************************************************************)
EXTENDS Integers, Sequences

CONSTANTS
    Positions,    \* of the symbol, one of them Closed
    Closed,
    PosMaxAge,    \* defaultMaxAgeMs of the source
    MaxChanges,   \* bound: changes of the position
    MaxBreaks,    \* bound: connections that end
    MaxPosTime    \* bound: of the clock

ASSUME PositionAssumption ==
    /\ Closed \in Positions
    /\ {PosMaxAge, MaxChanges, MaxBreaks, MaxPosTime} \subseteq Nat

VARIABLES
    posClock,
    mode,       \* "idle", "running", "stopped": (started, stopped)
    link,       \* "none", "connecting", "open", "streaming"
    redial,     \* reconnectTimer is set
    held,       \* the position at the exchange
    pushed,     \* updates on their way to the client
    cached,     \* positions.get(symbol): <<>> or a position
    lastMsg,    \* stats.lastMessageAt: 0 is null
    missed,     \* ghost: a change will not reach the cache
    served,     \* the source's last answer: [from, position, held, excused]
    changes, breaks

posVars == <<posClock, mode, link, redial, held, pushed, cached, lastMsg,
             missed, served, changes, breaks>>

NotServed == [from |-> "none", position |-> Closed, held |-> Closed, excused |-> FALSE]

-----------------------------------------------------------------------------
(* The client.                                                             *)

\* connect: the transport is made, or making it throws.
Dial ==
    \/ link' = "connecting" /\ redial' = FALSE /\ UNCHANGED breaks
    \/ /\ breaks < MaxBreaks
       /\ breaks' = breaks + 1
       /\ redial' = TRUE
       /\ UNCHANGED link

StartPrivate ==
    /\ mode = "idle"
    /\ mode' = "running"
    /\ Dial
    /\ UNCHANGED <<posClock, held, pushed, cached, lastMsg, missed, served, changes>>

Redial ==
    /\ redial
    /\ Dial
    /\ UNCHANGED <<posClock, mode, held, pushed, cached, lastMsg, missed, served, changes>>

\* stop leaves started set: the client cannot be started again.
StopPrivate ==
    /\ mode = "running"
    /\ mode' = "stopped"
    /\ redial' = FALSE
    /\ UNCHANGED <<posClock, link, held, pushed, cached, lastMsg, missed, served, changes, breaks>>

\* onopen sends the authentication.
Opened ==
    /\ link = "connecting"
    /\ link' = "open"
    /\ UNCHANGED <<posClock, mode, redial, held, pushed, cached, lastMsg, missed,
                   served, changes, breaks>>

\* The answer: channels are subscribed, or the connection stays as it is.
Authenticated ==
    /\ link = "open"
    /\ link' \in {"open", "streaming"}
    /\ lastMsg' = posClock
    /\ UNCHANGED <<posClock, mode, redial, held, pushed, cached, missed, served, changes, breaks>>

\* A pong or the answer to a subscription: counts as a message.
OtherMessage ==
    /\ link \in {"open", "streaming"}
    /\ lastMsg' = posClock
    /\ UNCHANGED <<posClock, mode, link, redial, held, pushed, cached, missed,
                   served, changes, breaks>>

ApplyOpenOnly(position) ==
    cached' = IF position = Closed THEN cached ELSE <<position>>

\* applyPositionPayload: the whole position replaces the cached one, also
\* when it has been closed.
ApplyPosition(position) == cached' = <<position>>

PositionMessage ==
    /\ pushed # <<>>
    /\ ApplyPosition(Head(pushed))
    /\ pushed' = Tail(pushed)
    /\ lastMsg' = posClock
    /\ missed' = FALSE
    /\ UNCHANGED <<posClock, mode, link, redial, held, served, changes, breaks>>

\* onclose: what was on its way is lost; the cache stays as it is.
ClosedLink ==
    /\ link # "none"
    /\ \/ mode = "stopped" /\ UNCHANGED breaks
       \/ breaks < MaxBreaks /\ breaks' = breaks + 1
    /\ link' = "none"
    /\ pushed' = <<>>
    /\ missed' = (missed \/ pushed # <<>>)
    /\ redial' = (mode = "running")
    /\ UNCHANGED <<posClock, mode, held, cached, lastMsg, served, changes>>

-----------------------------------------------------------------------------
(* The source, the exchange and the clock.                                 *)

Younger == lastMsg # 0 /\ posClock - lastMsg < PosMaxAge

\* getPosition: the cached position, or the one REST tells, or the call throws.
GetPosition ==
    /\ served' =
           IF cached # <<>> /\ Younger
           THEN [from |-> "cache", position |-> Head(cached), held |-> held,
                 excused |-> missed \/ pushed # <<>>]
           ELSE [from |-> "rest", position |-> held, held |-> held, excused |-> FALSE]
    /\ UNCHANGED <<posClock, mode, link, redial, held, pushed, cached, lastMsg,
                   missed, changes, breaks>>

\* A fill, a stop, a liquidation.
PositionChanges(position) ==
    /\ position # held
    /\ changes < MaxChanges
    /\ changes' = changes + 1
    /\ held' = position
    /\ IF link = "streaming"
       THEN pushed' = Append(pushed, position) /\ UNCHANGED missed
       ELSE missed' = TRUE /\ UNCHANGED pushed
    /\ UNCHANGED <<posClock, mode, link, redial, cached, lastMsg, served, breaks>>

PosTimePasses ==
    /\ posClock < MaxPosTime
    /\ posClock' = posClock + 1
    /\ UNCHANGED <<mode, link, redial, held, pushed, cached, lastMsg, missed,
                   served, changes, breaks>>

-----------------------------------------------------------------------------
PosInit ==
    /\ posClock = 1
    /\ mode = "idle"
    /\ link = "none"
    /\ redial = FALSE
    /\ held = Closed
    /\ pushed = <<>>
    /\ cached = <<>>
    /\ lastMsg = 0
    /\ missed = FALSE
    /\ served = NotServed
    /\ changes = 0
    /\ breaks = 0

PosNext ==
    \/ StartPrivate \/ StopPrivate \/ Redial
    \/ Opened \/ Authenticated \/ OtherMessage \/ PositionMessage \/ ClosedLink
    \/ GetPosition
    \/ \E position \in Positions : PositionChanges(position)
    \/ PosTimePasses

PosSpec == PosInit /\ [][PosNext]_posVars

-----------------------------------------------------------------------------
(* Properties.                                                             *)

\* A position served from the cache is the one at the exchange, unless an
\* update is on its way or has been lost with a connection since the last one
\* that arrived.  Only such a loss makes it wrong - and then for as long as
\* any message comes in: the age is the last message's, not the entry's.
PositionServed ==
    served.from = "cache" /\ ~served.excused => served.position = served.held

=============================================================================
