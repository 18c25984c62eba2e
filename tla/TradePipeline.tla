--------------------------- MODULE TradePipeline ---------------------------
(***************************************************************************)
(* The BullMQ pipeline of apps/worker/src/pipeline-workers.ts: recurring   *)
(* evaluate jobs emit intents, one trading agent turns intents into orders *)
(* behind a "no position is open" gate, and a repeatable manage job per    *)
(* position reviews it, closes it, enters it in the ledger and removes its *)
(* own schedule.                                                           *)
(*                                                                         *)
(* A manage job is a chain of iterations: an iteration is delayed, becomes *)
(* due, is picked by a worker and only then is its successor scheduled.    *)
(* A lane of a position holds one iteration.  Redis and the exchange act   *)
(* atomically per command; everything between two awaits may interleave.   *)
(***************************************************************************)
EXTENDS Integers, FiniteSets

CONSTANTS
    Strategies,   \* strategies with an evaluator and an adapter
    NoStrategy,   \* no intent in hand
    Positions,    \* bound: identities of the positions explored
    NoPosition,
    Lanes,        \* bound: iterations of one manage job that coexist
    SlowTicks,    \* a manage tick may outlast its repeat interval
    ApiErrors,    \* exchange calls may fail or lose their answer
    RedisErrors,  \* queue and ledger commands that may fail
    MaxCrashes    \* bound: deaths of the worker process

ASSUME PipelineAssumption ==
    /\ NoStrategy \notin Strategies
    /\ NoPosition \notin Positions
    /\ Lanes # {}
    /\ SlowTicks \in BOOLEAN
    /\ ApiErrors \in BOOLEAN
    /\ RedisErrors \subseteq {"add", "append", "remove"}
    /\ MaxCrashes \in Nat

VARIABLES
    intents,   \* the agent queue: "none", "waiting", "stalled" per strategy
    agent,     \* the agent worker: [stage, strategy, stalled, found, position]
    live,      \* positions the exchange holds
    repeats,   \* positions whose manage schedule exists in Redis
    lane,      \* iterations: [Positions -> [Lanes -> [at, stalled]]]
    ledger,    \* ledger entries per position, counted up to 2
    orders,    \* opening orders sent for the intent in hand, counted up to 2
    crashes

vars == <<intents, agent, live, repeats, lane, ledger, orders, crashes>>

-----------------------------------------------------------------------------
Queued == {"delayed", "waiting"}
Running == {"picked", "reconcile", "external", "decide", "close", "settle",
            "cleanup"}
AgentStages == {"idle", "active", "waiting", "delayed", "order", "enqueue"}

Idle == [stage |-> "idle", strategy |-> NoStrategy, stalled |-> FALSE,
         found |-> FALSE, position |-> NoPosition]
Empty == [at |-> "none", stalled |-> FALSE]

At(p, places) == \E l \in Lanes : lane[p][l].at \in places
Move(p, l, at) == lane' = [lane EXCEPT ![p][l].at = at]
Leave(p, l) == lane' = [lane EXCEPT ![p][l] = Empty]

\* A position id is used once.
Used(p) == p \in live \/ ledger[p] > 0 \/ p \in repeats
               \/ At(p, Queued \cup Running) \/ agent.position = p

-----------------------------------------------------------------------------
(* Evaluate: one intent per strategy, deduplicated by its jobId while the  *)
(* previous one is waiting or active.                                      *)

Evaluate(s) ==
    /\ intents[s] = "none"
    /\ agent.strategy # s
    /\ intents' = [intents EXCEPT ![s] = "waiting"]
    /\ UNCHANGED <<agent, live, repeats, lane, ledger, orders, crashes>>

-----------------------------------------------------------------------------
(* The trading agent (concurrency 1).  hasActivePosition counts active,    *)
(* waiting and delayed manage jobs with three separate reads.              *)

PickIntent(s) ==
    /\ agent.stage = "idle"
    /\ intents[s] # "none"
    /\ agent' = [Idle EXCEPT !.stage = "active", !.strategy = s,
                              !.stalled = intents[s] = "stalled"]
    /\ orders' = IF intents[s] = "stalled" THEN orders
                 ELSE [orders EXCEPT ![s] = 0]
    /\ intents' = [intents EXCEPT ![s] = "none"]
    /\ UNCHANGED <<live, repeats, lane, ledger, crashes>>

NextRead(stage) == CASE stage = "active"  -> "waiting"
                     [] stage = "waiting" -> "delayed"
                     [] stage = "delayed" -> "order"

Counted(stage) == IF stage = "active" THEN Running ELSE {stage}

ReadCount ==
    /\ agent.stage \in {"active", "waiting", "delayed"}
    /\ LET found == agent.found \/ \E p \in Positions : At(p, Counted(agent.stage))
       IN agent' = IF agent.stage = "delayed" /\ found THEN Idle
                   ELSE [agent EXCEPT !.stage = NextRead(agent.stage),
                                      !.found = found]
    /\ UNCHANGED <<intents, live, repeats, lane, ledger, orders, crashes>>

\* The adapter's market order.  An order that fails, or whose answer is lost
\* after the exchange executed it, is reported as "open-order-failed".
OpenOrder ==
    /\ agent.stage = "order"
    /\ \/ \E p \in Positions :
            /\ ~Used(p)
            /\ live' = live \cup {p}
            /\ orders' = [orders EXCEPT ![agent.strategy] =
                              IF @ < 2 THEN @ + 1 ELSE @]
            /\ \/ agent' = [agent EXCEPT !.stage = "enqueue", !.position = p]
               \/ ApiErrors /\ agent' = Idle
       \/ /\ ApiErrors
          /\ agent' = Idle
          /\ UNCHANGED <<live, orders>>
    /\ UNCHANGED <<intents, repeats, lane, ledger, crashes>>

\* No id is left: the bound on positions is reached.
OutOfPositions ==
    /\ agent.stage = "order"
    /\ \A p \in Positions : Used(p)
    /\ agent' = Idle
    /\ UNCHANGED <<intents, live, repeats, lane, ledger, orders, crashes>>

\* Mutant: the worker does not let go of the intent.
EnqueueManageKeeps ==
    /\ agent.stage = "enqueue"
    /\ repeats' = repeats \cup {agent.position}
    /\ \E l \in Lanes :
          lane' = [lane EXCEPT ![agent.position][l].at = "delayed"]
    /\ agent' = [agent EXCEPT !.stage = "idle"]
    /\ UNCHANGED <<intents, live, ledger, orders, crashes>>

\* manageQueue.add with repeat: the schedule and its first iteration.  A
\* failed add is caught by the agent and reported as "adapter-error".
EnqueueManage ==
    /\ agent.stage = "enqueue"
    /\ \/ /\ repeats' = repeats \cup {agent.position}
          /\ \E l \in Lanes :
                lane' = [lane EXCEPT ![agent.position][l].at = "delayed"]
       \/ "add" \in RedisErrors /\ UNCHANGED <<repeats, lane>>
    /\ agent' = Idle
    /\ UNCHANGED <<intents, live, ledger, orders, crashes>>

-----------------------------------------------------------------------------
(* A manage iteration.                                                     *)

Promote(p, l) ==
    /\ lane[p][l].at = "delayed"
    /\ ~SlowTicks => ~At(p, Running)
    /\ Move(p, l, "waiting")
    /\ UNCHANGED <<intents, agent, live, repeats, ledger, orders, crashes>>

Pick(p, l) ==
    /\ lane[p][l].at = "waiting"
    /\ Move(p, l, "picked")
    /\ UNCHANGED <<intents, agent, live, repeats, ledger, orders, crashes>>

\* The worker adds the next iteration after it has picked this one, if the
\* schedule still exists and no next iteration is there.
ScheduleNext(p, l) ==
    /\ lane[p][l].at = "picked"
    /\ IF p \in repeats /\ ~At(p, Queued)
       THEN \E free \in Lanes :
               /\ lane[p][free] = Empty
               /\ lane' = [lane EXCEPT ![p][l].at = "reconcile",
                                       ![p][free].at = "delayed"]
       ELSE Move(p, l, "reconcile")
    /\ UNCHANGED <<intents, agent, live, repeats, ledger, orders, crashes>>

\* Mutant: the position is never looked up.
ReconcileSkipped(p, l) ==
    /\ lane[p][l].at = "reconcile"
    /\ Move(p, l, "decide")
    /\ UNCHANGED <<intents, agent, live, repeats, ledger, orders, crashes>>

\* A failed read is caught and the tick goes on.
ReconcilePosition(p, l) ==
    /\ lane[p][l].at = "reconcile"
    /\ \/ Move(p, l, IF p \in live THEN "decide" ELSE "external")
       \/ ApiErrors /\ Move(p, l, "decide")
    /\ UNCHANGED <<intents, agent, live, repeats, ledger, orders, crashes>>

\* Mutant: "hold" completes the job.
DecideHoldCompletes(p, l) ==
    /\ lane[p][l].at = "decide"
    /\ Move(p, l, "cleanup") \/ Move(p, l, "close")
    /\ UNCHANGED <<intents, agent, live, repeats, ledger, orders, crashes>>

\* Hold, or no ticker: the iteration ends with "continue".
Decide(p, l) ==
    /\ lane[p][l].at = "decide"
    /\ Leave(p, l) \/ Move(p, l, "close")
    /\ UNCHANGED <<intents, agent, live, repeats, ledger, orders, crashes>>

\* Mutant: the answer of the close order is not looked at.
ClosePositionUnchecked(p, l) ==
    /\ lane[p][l].at = "close"
    /\ live' \in {live, live \ {p}}
    /\ Move(p, l, "settle")
    /\ UNCHANGED <<intents, agent, repeats, ledger, orders, crashes>>

\* Reduce-only market close.  The exchange rejects it without a position; a
\* rejected or failed close ends the iteration with "continue".
ClosePosition(p, l) ==
    /\ lane[p][l].at = "close"
    /\ \/ /\ p \in live
          /\ live' = live \ {p}
          /\ Move(p, l, "settle") \/ (ApiErrors /\ Leave(p, l))
       \/ /\ p \notin live \/ ApiErrors
          /\ Leave(p, l)
          /\ UNCHANGED live
    /\ UNCHANGED <<intents, agent, repeats, ledger, orders, crashes>>

\* Mutant: the iteration that entered the close ends with "continue".
AppendEntryContinues(p, l) ==
    /\ lane[p][l].at \in {"external", "settle"}
    /\ ledger' = [ledger EXCEPT ![p] = IF @ < 2 THEN @ + 1 ELSE @]
    /\ Leave(p, l)
    /\ UNCHANGED <<intents, agent, live, repeats, orders, crashes>>

\* appendClosedPosition, for a close of our own or an external one.  A Redis
\* command that fails, before or after the entry is written, is caught on the
\* external path, where the tick goes on, and fails the job on the other.
AppendEntry(p, l) ==
    /\ lane[p][l].at \in {"external", "settle"}
    /\ \/ /\ ledger' = [ledger EXCEPT ![p] = IF @ < 2 THEN @ + 1 ELSE @]
          /\ Move(p, l, "cleanup")
       \/ /\ "append" \in RedisErrors
          /\ \/ UNCHANGED ledger
             \/ ledger' = [ledger EXCEPT ![p] = IF @ < 2 THEN @ + 1 ELSE @]
          /\ IF lane[p][l].at = "external" THEN Move(p, l, "decide")
             ELSE Leave(p, l)
    /\ UNCHANGED <<intents, agent, live, repeats, orders, crashes>>

\* Mutant: the schedule is never removed.
CompleteKeepsSchedule(p, l) ==
    /\ lane[p][l].at = "cleanup"
    /\ Leave(p, l)
    /\ UNCHANGED <<intents, agent, live, repeats, ledger, orders, crashes>>

\* safeRemoveRepeatable: the schedule goes, with an iteration still delayed.
\* A failure is swallowed.  Either way the iteration completes.
Complete(p, l) ==
    /\ lane[p][l].at = "cleanup"
    /\ \/ /\ repeats' = repeats \ {p}
          /\ lane' = [lane EXCEPT ![p] =
                 [k \in Lanes |-> IF k = l \/ @[k].at = "delayed" THEN Empty
                                  ELSE @[k]]]
       \/ /\ "remove" \in RedisErrors
          /\ Leave(p, l)
          /\ UNCHANGED repeats
    /\ UNCHANGED <<intents, agent, live, ledger, orders, crashes>>

-----------------------------------------------------------------------------
\* Exchange-side stop, liquidation or manual close.
NativeExit(p) ==
    /\ p \in live
    /\ live' = live \ {p}
    /\ UNCHANGED <<intents, agent, repeats, lane, ledger, orders, crashes>>

\* Mutant: stalled manage iterations fail at once (maxStalledCount 0).
CrashDropsJobs ==
    /\ crashes < MaxCrashes
    /\ crashes' = crashes + 1
    /\ agent' = Idle
    /\ lane' = [p \in Positions |-> [l \in Lanes |->
           IF lane[p][l].at \in Running THEN Empty ELSE lane[p][l]]]
    /\ UNCHANGED <<intents, live, repeats, ledger, orders>>

\* The worker process dies and is restarted.  Its active jobs stall; each is
\* queued again once, a second stall fails it (maxStalledCount 1).
Crash ==
    /\ crashes < MaxCrashes
    /\ crashes' = crashes + 1
    /\ agent' = Idle
    /\ intents' = IF agent.strategy = NoStrategy \/ agent.stalled THEN intents
                  ELSE [intents EXCEPT ![agent.strategy] = "stalled"]
    /\ lane' = [p \in Positions |-> [l \in Lanes |->
           IF lane[p][l].at \notin Running THEN lane[p][l]
           ELSE IF lane[p][l].stalled THEN Empty
           ELSE [at |-> "waiting", stalled |-> TRUE]]]
    /\ UNCHANGED <<live, repeats, ledger, orders>>

-----------------------------------------------------------------------------
Init ==
    /\ intents = [s \in Strategies |-> "none"]
    /\ agent = Idle
    /\ live = {}
    /\ repeats = {}
    /\ lane = [p \in Positions |-> [l \in Lanes |-> Empty]]
    /\ ledger = [p \in Positions |-> 0]
    /\ orders = [s \in Strategies |-> 0]
    /\ crashes = 0

Agent == ReadCount \/ OpenOrder \/ OutOfPositions \/ EnqueueManage

Manage(p, l) ==
    \/ Promote(p, l) \/ Pick(p, l) \/ ScheduleNext(p, l)
    \/ ReconcilePosition(p, l) \/ Decide(p, l) \/ ClosePosition(p, l)
    \/ AppendEntry(p, l) \/ Complete(p, l)

Next ==
    \/ \E s \in Strategies : Evaluate(s) \/ PickIntent(s)
    \/ Agent
    \/ \E p \in Positions : NativeExit(p) \/ \E l \in Lanes : Manage(p, l)
    \/ Crash

Spec == Init /\ [][Next]_vars

-----------------------------------------------------------------------------
(* Properties.                                                             *)

\* Every variable keeps its type, and the agent holds an intent exactly while
\* it is busy and a position exactly between its order and its manage job.
TypeOK ==
    /\ intents \in [Strategies -> {"none", "waiting", "stalled"}]
    /\ agent \in [stage : AgentStages, strategy : Strategies \cup {NoStrategy},
                  stalled : BOOLEAN, found : BOOLEAN,
                  position : Positions \cup {NoPosition}]
    /\ agent.stage = "idle" <=> agent.strategy = NoStrategy
    /\ agent.stage = "enqueue" <=> agent.position # NoPosition
    /\ live \subseteq Positions
    /\ repeats \subseteq Positions
    /\ lane \in [Positions -> [Lanes -> [at : {"none"} \cup Queued \cup Running,
                                         stalled : BOOLEAN]]]
    /\ ledger \in [Positions -> 0..2]
    /\ orders \in [Strategies -> 0..2]
    /\ crashes \in 0..MaxCrashes

LedgerOnlyClosed == \A p \in live : ledger[p] = 0

\* A position on the exchange is never in the ledger of closed ones; and as long
\* as the worker lives it has an iteration that will review it, except while the
\* agent is about to enqueue the first.
NoOrphan ==
    /\ LedgerOnlyClosed
    /\ crashes = 0 => \A p \in live :
           \/ agent.position = p
           \/ p \in repeats /\ At(p, Queued \cup Running)

\* As long as the schedule of a position exists there is an iteration that
\* carries the chain on, also across a crash between picking one and
\* scheduling the next.
ScheduleCarriesOn == \A p \in repeats : At(p, Queued \cup Running)

\* With failed and lost calls no ledger entry is written for a position the
\* exchange still holds; and as long as the worker lives an intent is executed
\* once and a position entered once, whether the close was our own, external,
\* or our own with its answer lost.
NothingTwice ==
    /\ LedgerOnlyClosed
    /\ crashes = 0 => /\ \A s \in Strategies : orders[s] <= 1
                     /\ \A p \in Positions : ledger[p] <= 1

\* A scheduled position that is gone is entered in the ledger eventually, and
\* loses its schedule, so that the agent's gate opens again.
ClosedIsFinished ==
    \A p \in Positions :
        /\ (p \in repeats /\ p \notin live) ~> (ledger[p] > 0)
        /\ (p \in repeats /\ p \notin live) ~> (p \notin repeats)

=============================================================================
