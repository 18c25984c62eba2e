---------------------------- MODULE MCSurroundings ----------------------------
(* Small instances of seven parts around the trading loops: market data,   *)
(* learning, braking and the maker order.  They share no state: each       *)
(* behaviour is one of them, and the others stand still.                   *)
EXTENDS WsClient, TickerFeed, PositionFeed, ShadowLearning, PumpWindow, DrawdownBreaker,
        MakerExecution

VARIABLE part

\* A loss beyond MaxDrawdown, a loss within it and a gain.
MCProfits == {-3, -1, 2}

AllInit ==
    /\ part \in {"connection", "price", "position", "learning", "scanner", "breaker", "maker"}
    /\ WsInit /\ FeedInit /\ PosInit /\ PumpInit /\ BreakerInit
    /\ IF part = "learning" THEN LearnInit
       ELSE LearnInit /\ loop = "session" /\ slow = ConfigSlow /\ interval = 0
    /\ IF part = "maker" THEN Init
       ELSE Init /\ request = [mode |-> "maker", reduceOnly |-> FALSE, held |-> 0]

AllNext ==
    \/ /\ part = "connection"
       /\ WsNext
       /\ UNCHANGED <<feedVars, posVars, learnVars, pumpVars, breakerVars, vars, part>>
    \/ /\ part = "price"
       /\ FeedNext
       /\ UNCHANGED <<wsVars, posVars, learnVars, pumpVars, breakerVars, vars, part>>
    \/ /\ part = "position"
       /\ PosNext
       /\ UNCHANGED <<wsVars, feedVars, learnVars, pumpVars, breakerVars, vars, part>>
    \/ /\ part = "learning"
       /\ LearnNext
       /\ UNCHANGED <<wsVars, feedVars, posVars, pumpVars, breakerVars, vars, part>>
    \/ /\ part = "scanner"
       /\ PumpNext
       /\ UNCHANGED <<wsVars, feedVars, posVars, learnVars, breakerVars, vars, part>>
    \/ /\ part = "breaker"
       /\ BreakerNext
       /\ UNCHANGED <<wsVars, feedVars, posVars, learnVars, pumpVars, vars, part>>
    \/ /\ part = "maker"
       /\ Next
       /\ UNCHANGED <<wsVars, feedVars, posVars, learnVars, pumpVars, breakerVars, part>>

allVars == <<wsVars, feedVars, posVars, learnVars, pumpVars, breakerVars, vars, part>>

\* The timers of the client fire, and a transport opens or reports its end;
\* every await of the maker order ends.
AllFairSpec ==
    /\ AllInit /\ [][AllNext]_allVars
    /\ part = "connection" => WsFairness
    /\ part = "maker" => WF_vars(Call)

\* The maker call returns whatever the exchange does with the order.
MakerReturns == part = "maker" => Returns

=============================================================================
