--------------------------- MODULE MCWorkerTrades ---------------------------
(* Small instances of what the worker's trades have to come to, with calls  *)
(* that fail, answers that are lost and a worker that dies: a two-leg trade, *)
(* in legs of two units, so that an order can be filled in half, and the     *)
(* pipeline with one strategy and one position.  They share no state: a      *)
(* behaviour is one of the two, and the other stands still.                  *)
EXTENDS TwoLegTrade

CONSTANTS Agents, NoStrategy, Positions, NoPosition, Lanes

VARIABLES part, intents, agent, live, repeats, lane, ledger, orders, restarts

pipeVars == <<intents, agent, live, repeats, lane, ledger, orders, restarts>>

Pipe == INSTANCE TradePipeline WITH
            Strategies <- Agents, crashes <- restarts,
            SlowTicks <- FALSE, ApiErrors <- TRUE, RedisErrors <- {}, MaxCrashes <- 1

MCInit ==
    /\ part \in {"legs", "pipeline"}
    /\ IF part = "legs" THEN Init ELSE Init /\ strategy = "basis-arb"
    /\ Pipe!Init

MCNext ==
    \/ part = "legs" /\ Next /\ UNCHANGED <<pipeVars, part>>
    \/ part = "pipeline" /\ Pipe!Next /\ UNCHANGED <<vars, part>>

allVars == <<vars, pipeVars, part>>

\* The reads of positions answer.
LegsRead == Reconcile /\ (Missing => job'.at = "over")
PositionRead(p, l) ==
    /\ lane[p][l].at = "reconcile"
    /\ Pipe!ReconcilePosition(p, l)
    /\ lane'[p][l].at = IF p \in live THEN "decide" ELSE "external"

\* The workers keep consuming: a due iteration is promoted, picked, and every
\* await of its processor ends.  Reads of a position do not fail for ever.
FairSpec ==
    /\ MCInit /\ [][MCNext]_allVars
    /\ WF_vars(part = "legs" /\ (Open \/ Manage))
    /\ SF_vars(part = "legs" /\ LegsRead)
    /\ \A p \in Positions, l \in Lanes :
          /\ WF_pipeVars(part = "pipeline" /\ Pipe!Manage(p, l))
          /\ SF_pipeVars(part = "pipeline" /\ PositionRead(p, l))
    /\ WF_pipeVars(part = "pipeline" /\ Pipe!Agent)

\* TradePipeline.NothingTwice: with failed and lost calls no intent is executed,
\* and no position entered, twice.
NothingTwice == Pipe!NothingTwice

\* TradePipeline.ClosedIsFinished: a scheduled position that is gone is entered
\* in the ledger and loses its schedule.
ClosedIsFinished == part = "pipeline" => Pipe!ClosedIsFinished

=============================================================================
