------------------------------- MODULE WsClient -------------------------------
(***************************************************************************)
(* The public websocket client: one current socket, a reconnect timer, a   *)
(* ping loop with a pong watchdog, and the topics wanted.  The handlers of *)
(* a socket stay installed when the client has moved on: a close event, an *)
(* open event or a message of an earlier socket may come at any time.      *)
(*                                                                         *)
(* A socket is reused once its close event has been delivered.  What the   *)
(* messages carry is left to TickerFeed.                                   *)
(***************************************************************************)
EXTENDS Naturals

CONSTANTS
    Sockets,   \* transports
    NoSocket,
    Books,     \* orderbook depths of the symbol, as topics
    Feeds,     \* other topics: a ticker, the public trades
    MaxUpsets  \* bound: failures of sockets, late answers and stops

Topics == Books \cup Feeds

ASSUME WsAssumption ==
    /\ NoSocket \notin Sockets
    /\ Books \cap Feeds = {}
    /\ MaxUpsets \in Nat

VARIABLES
    conn,      \* per socket: "none", "connecting", "open", "silent", "closing"
    asked,     \* per socket: the topics the server streams on it
    socket,    \* the current socket
    phase,     \* "idle", "started", "stopped": (started, stopped)
    retry,     \* reconnectTimer is set
    pinging,   \* the ping timer and the pong watchdog are set
    wanted,    \* subscriptions, orderbookSubs, publicTradeSubs
    upsets     \* ghost: failures, late answers and stops so far

transports == <<conn, asked>>
timers     == <<retry, pinging>>
wsVars     == <<transports, socket, phase, timers, wanted, upsets>>

ConnStates == {"none", "connecting", "open", "silent", "closing"}
Phases     == {"idle", "started", "stopped"}

-----------------------------------------------------------------------------
Live(s) == s # NoSocket /\ conn[s] = "open"

\* readyState = OPEN, also when the peer has fallen silent.
ReadyState(s) == s # NoSocket /\ conn[s] \in {"open", "silent"}

Upset ==
    /\ upsets < MaxUpsets
    /\ upsets' = upsets + 1

\* scheduleReconnect.
ScheduleReconnect == retry' = (phase # "stopped")

\* transportFactory(url): a new transport, or it throws.
Connect ==
    \/ \E s \in Sockets :
        /\ conn[s] = "none"
        /\ conn' = [conn EXCEPT ![s] = "connecting"]
        /\ socket' = s
        /\ retry' = FALSE
        /\ UNCHANGED upsets
    \/ /\ Upset
       /\ retry' = TRUE
       /\ UNCHANGED <<conn, socket>>

\* sendOp: nothing is sent unless the current socket is open.
SendSubscribe(topics) ==
    asked' = IF ReadyState(socket)
             THEN [asked EXCEPT ![socket] = @ \cup topics] ELSE asked

SendUnsubscribe(topics) ==
    asked' = IF ReadyState(socket)
             THEN [asked EXCEPT ![socket] = @ \ topics] ELSE asked

CloseCurrent ==
    conn' = IF socket # NoSocket /\ conn[socket] # "none"
            THEN [conn EXCEPT ![socket] = "closing"] ELSE conn

-----------------------------------------------------------------------------
(* Calls.                                                                  *)

Start ==
    /\ phase # "started"
    /\ phase' = "started"
    /\ Connect
    /\ UNCHANGED <<asked, pinging, wanted>>

\* The feeder stops the client once; more stops are a bound.
Stop ==
    /\ phase = "started"
    /\ Upset
    /\ phase' = "stopped"
    /\ retry' = FALSE
    /\ pinging' = FALSE
    /\ CloseCurrent
    /\ socket' = NoSocket
    /\ UNCHANGED <<asked, wanted>>

\* subscribeTicker, subscribePublicTrade.
Subscribe(t) ==
    /\ t \in Feeds \ wanted
    /\ wanted' = wanted \cup {t}
    /\ SendSubscribe({t})
    /\ UNCHANGED <<conn, socket, phase, timers, upsets>>

\* A new depth replaces the wanted one; the old topic stays subscribed.
SubscribeOrderbook(t) ==
    /\ t \in Books \ wanted
    /\ wanted' = (wanted \ Books) \cup {t}
    /\ SendSubscribe({t})
    /\ UNCHANGED <<conn, socket, phase, timers, upsets>>

Unsubscribe(t) ==
    /\ t \in wanted
    /\ wanted' = wanted \ {t}
    /\ SendUnsubscribe({t})
    /\ UNCHANGED <<conn, socket, phase, timers, upsets>>

-----------------------------------------------------------------------------
(* Events.                                                                 *)

ReconnectTimer ==
    /\ retry
    /\ Connect
    /\ UNCHANGED <<asked, phase, pinging, wanted>>

OnOpenForgets(s) ==
    /\ conn[s] = "connecting"
    /\ conn' = [conn EXCEPT ![s] = "open"]
    /\ pinging' = TRUE
    /\ UNCHANGED <<asked, socket, phase, retry, wanted, upsets>>

OnOpenUnwatched(s) ==
    /\ conn[s] = "connecting"
    /\ conn' = [conn EXCEPT ![s] = "open"]
    /\ asked' = IF socket = s \/ ReadyState(socket)
                THEN [asked EXCEPT ![socket] = @ \cup wanted] ELSE asked
    /\ UNCHANGED <<socket, phase, timers, wanted, upsets>>

\* onopen: the ping loop is restarted and everything wanted is asked for
\* again - on the current socket, whichever socket has opened.
OnOpen(s) ==
    /\ conn[s] = "connecting"
    /\ conn' = [conn EXCEPT ![s] = "open"]
    /\ pinging' = TRUE
    /\ asked' = IF socket = s \/ ReadyState(socket)
                THEN [asked EXCEPT ![socket] = @ \cup wanted] ELSE asked
    /\ UNCHANGED <<socket, phase, retry, wanted, upsets>>

\* onclose, of any socket: the client drops its current one and reconnects.
OnClose(s) ==
    /\ conn[s] = "closing"
    /\ conn' = [conn EXCEPT ![s] = "none"]
    /\ asked' = [asked EXCEPT ![s] = {}]
    /\ pinging' = FALSE
    /\ socket' = NoSocket
    /\ ScheduleReconnect
    /\ UNCHANGED <<phase, wanted, upsets>>

\* pongWatchdog: no pong for two intervals.  Pings go to the current socket,
\* so one that is not open never answers; an open one may answer too late.
Watchdog ==
    /\ pinging
    /\ IF Live(socket) THEN Upset ELSE UNCHANGED upsets
    /\ pinging' = FALSE
    /\ CloseCurrent
    /\ socket' = NoSocket
    /\ ScheduleReconnect
    /\ UNCHANGED <<asked, phase, wanted>>

-----------------------------------------------------------------------------
(* The exchange and the network.                                           *)

\* The peer closes, or the connection is lost and the transport notices.
Drop(s) ==
    /\ conn[s] \in {"connecting", "open"}
    /\ Upset
    /\ conn' = [conn EXCEPT ![s] = "closing"]
    /\ UNCHANGED <<asked, socket, phase, timers, wanted>>

\* The connection is lost and the transport does not notice.
FallSilent(s) ==
    /\ conn[s] = "open"
    /\ Upset
    /\ conn' = [conn EXCEPT ![s] = "silent"]
    /\ UNCHANGED <<asked, socket, phase, timers, wanted>>

-----------------------------------------------------------------------------
WsInit ==
    /\ conn = [s \in Sockets |-> "none"]
    /\ asked = [s \in Sockets |-> {}]
    /\ socket = NoSocket
    /\ phase = "idle"
    /\ retry = FALSE
    /\ pinging = FALSE
    /\ wanted = {}
    /\ upsets = 0

WsNext ==
    \/ Start \/ Stop
    \/ \E t \in Topics : Subscribe(t) \/ SubscribeOrderbook(t) \/ Unsubscribe(t)
    \/ ReconnectTimer \/ Watchdog
    \/ \E s \in Sockets : OnOpen(s) \/ OnClose(s) \/ Drop(s) \/ FallSilent(s)

WsSpec == WsInit /\ [][WsNext]_wsVars

\* Timers fire, and a transport opens or reports its end.
WsFairness ==
    /\ WF_wsVars(ReconnectTimer)
    /\ WF_wsVars(Watchdog /\ ~Live(socket))
    /\ \A s \in Sockets : WF_wsVars(OnOpen(s)) /\ WF_wsVars(OnClose(s))

-----------------------------------------------------------------------------
(* Properties.                                                             *)

\* Through drops, silent peers and late events of earlier sockets a started
\* client has either a socket or a reconnect timer, never neither and never
\* both, a stopped one has none, and a current socket that is open has been
\* asked for every topic that is wanted.
ConnectionKept ==
    /\ phase = "started" <=> (socket # NoSocket \/ retry)
    /\ ~(socket # NoSocket /\ retry)
    /\ ReadyState(socket) => wanted \subseteq asked[socket]

\* Failures end, and then a client that is not stopped has a socket that
\* streams, also when the peer of one has fallen silent.
Streams == []<>(phase # "started" \/ Live(socket))

=============================================================================
