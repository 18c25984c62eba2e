----------------------- MODULE TradePipeline_proofs -----------------------
(* Proofs about the worker pipeline, for any strategies, positions and     *)
(* lanes.                                                                  *)
EXTENDS TradePipeline, TLAPS

Places == {"none"} \cup Queued \cup Running
Iterations == [at : Places, stalled : BOOLEAN]

LEMMA CountUpType ==
    ASSUME NEW S, NEW f \in [S -> 0..2], NEW s \in S
    PROVE  [f EXCEPT ![s] = IF @ < 2 THEN @ + 1 ELSE @] \in [S -> 0..2]
OBVIOUS

\* Counting from zero.
LEMMA CountUpOnce ==
    ASSUME NEW S, NEW f \in [S -> 0..2], NEW s \in S, f[s] = 0, NEW g,
           g = [f EXCEPT ![s] = IF @ < 2 THEN @ + 1 ELSE @]
    PROVE  g[s] = 1 /\ \A t \in S : t # s => g[t] = f[t]
OBVIOUS

LEMMA EmptyType == Empty \in Iterations
BY DEF Empty, Iterations, Places

LEMMA LaneType ==
    ASSUME TypeOK
    PROVE  /\ lane \in [Positions -> [Lanes -> Iterations]]
           /\ \A p \in Positions, l \in Lanes : lane[p][l] \in Iterations
BY DEF TypeOK, Iterations, Places

\* Updating one lane of one position.
LEMMA UpdateLane ==
    ASSUME NEW f \in [Positions -> [Lanes -> Iterations]],
           NEW p \in Positions, NEW l \in Lanes, NEW it \in Iterations
    PROVE  LET g == [f EXCEPT ![p][l] = it]
           IN  /\ g \in [Positions -> [Lanes -> Iterations]]
               /\ g[p][l] = it
               /\ \A q \in Positions, k \in Lanes :
                      q # p \/ k # l => g[q][k] = f[q][k]
OBVIOUS

\* What a step of one iteration does to all iterations.
LEMMA MoveEffect ==
    ASSUME TypeOK, NEW p \in Positions, NEW l \in Lanes,
           NEW place \in Places, Move(p, l, place)
    PROVE  /\ lane' \in [Positions -> [Lanes -> Iterations]]
           /\ lane'[p][l].at = place
           /\ \A q \in Positions, k \in Lanes :
                  q # p \/ k # l => lane'[q][k] = lane[q][k]
<1> DEFINE it == [lane[p][l] EXCEPT !.at = place]
<1>1. it \in Iterations /\ it.at = place
  BY LaneType DEF Iterations
<1>2. lane' = [lane EXCEPT ![p][l] = it]
  BY LaneType DEF Move
<1> QED
  BY <1>1, <1>2, LaneType, UpdateLane

LEMMA LeaveEffect ==
    ASSUME TypeOK, NEW p \in Positions, NEW l \in Lanes, Leave(p, l)
    PROVE  /\ lane' \in [Positions -> [Lanes -> Iterations]]
           /\ lane'[p][l].at = "none"
           /\ \A q \in Positions, k \in Lanes :
                  q # p \/ k # l => lane'[q][k] = lane[q][k]
<1>1. Empty.at = "none"
  BY DEF Empty
<1> QED
  BY <1>1, EmptyType, LaneType, UpdateLane DEF Leave

\* The successor that ScheduleNext puts into a free lane.
Successor(p, l, free) ==
    /\ lane[p][l].at = "picked"
    /\ lane[p][free] = Empty
    /\ lane' = [lane EXCEPT ![p][l].at = "reconcile", ![p][free].at = "delayed"]

LEMMA ScheduleSplits ==
    ASSUME NEW p, NEW l, ScheduleNext(p, l)
    PROVE  \/ Move(p, l, "reconcile") /\ (p \in repeats => At(p, Queued))
           \/ ~At(p, Queued) /\ \E free \in Lanes : Successor(p, l, free)
BY DEF ScheduleNext, Successor

LEMMA SuccessorEffect ==
    ASSUME TypeOK, NEW p \in Positions, NEW l \in Lanes, NEW free \in Lanes,
           Successor(p, l, free)
    PROVE  /\ free # l
           /\ lane' \in [Positions -> [Lanes -> Iterations]]
           /\ lane'[p][l].at = "reconcile"
           /\ lane'[p][free].at = "delayed"
           /\ \A q \in Positions, k \in Lanes :
                  /\ q # p \/ k \notin {l, free} => lane'[q][k] = lane[q][k]
                  /\ lane'[q][k].stalled = lane[q][k].stalled
<1>1. free # l /\ lane[p][free].at = "none"
  BY DEF Successor, Empty
<1>2. PICK it : it = [lane[p][l] EXCEPT !.at = "reconcile"]
  OBVIOUS
<1>3. PICK new : new = [lane[p][free] EXCEPT !.at = "delayed"]
  OBVIOUS
<1>4. PICK f : f = [lane EXCEPT ![p][l] = it]
  OBVIOUS
<1>5. /\ it \in Iterations /\ it.at = "reconcile"
      /\ it.stalled = lane[p][l].stalled
  BY <1>2, LaneType DEF Iterations, Places, Running
<1>6. /\ new \in Iterations /\ new.at = "delayed"
      /\ new.stalled = lane[p][free].stalled
  BY <1>3, LaneType DEF Iterations, Places, Queued
<1>7. /\ f \in [Positions -> [Lanes -> Iterations]]
      /\ f[p][l] = it
      /\ \A q \in Positions, k \in Lanes : q # p \/ k # l => f[q][k] = lane[q][k]
  BY <1>4, <1>5, LaneType, UpdateLane
<1>8. lane' = [f EXCEPT ![p][free] = new]
  <2>1. [lane EXCEPT ![p][l].at = "reconcile"] = f
    BY <1>2, <1>4, LaneType
  <2>2. lane' = [f EXCEPT ![p][free].at = "delayed"]
    BY <2>1 DEF Successor
  <2>3. f[p][free] = lane[p][free]
    BY <1>1, <1>7
  <2> QED
    BY <1>3, <1>7, <2>2, <2>3
<1>9. /\ lane' \in [Positions -> [Lanes -> Iterations]]
      /\ lane'[p][free] = new
      /\ \A q \in Positions, k \in Lanes : q # p \/ k # free => lane'[q][k] = f[q][k]
  BY <1>6, <1>7, <1>8, UpdateLane
<1>10. ASSUME NEW q \in Positions, NEW k \in Lanes
       PROVE  /\ q # p \/ k \notin {l, free} => lane'[q][k] = lane[q][k]
              /\ lane'[q][k].stalled = lane[q][k].stalled
  <2>1. CASE q = p /\ k = l
    BY <1>1, <1>5, <1>7, <1>9, <2>1
  <2>2. CASE q = p /\ k = free
    BY <1>6, <1>9, <2>2
  <2>3. CASE q # p \/ k \notin {l, free}
    BY <1>7, <1>9, <2>3
  <2> QED
    BY <2>1, <2>2, <2>3
<1>11. lane'[p][l] = it
  BY <1>1, <1>7, <1>9
<1> QED
  BY <1>1, <1>5, <1>6, <1>9, <1>10, <1>11

AgentRecords ==
    [stage : AgentStages, strategy : Strategies \cup {NoStrategy},
     stalled : BOOLEAN, found : BOOLEAN, position : Positions \cup {NoPosition}]

\* The position in the agent's hands changes with its order only.
LEMMA AgentPosition ==
    ASSUME TypeOK
    PROVE  /\ ReadCount \/ OutOfPositions => agent'.position \in {agent.position, NoPosition}
           /\ \A p : agent' = [agent EXCEPT !.stage = "enqueue", !.position = p]
                     => agent'.position = p
<1>1. agent \in AgentRecords
  BY DEF TypeOK, AgentRecords
<1>2. Idle.position = NoPosition
  BY DEF Idle
<1>3. ASSUME NEW stage, NEW found
      PROVE  [agent EXCEPT !.stage = stage, !.found = found].position = agent.position
  BY <1>1 DEF AgentRecords
<1>4. ASSUME NEW p
      PROVE  [agent EXCEPT !.stage = "enqueue", !.position = p].position = p
  BY <1>1 DEF AgentRecords
<1>5. ASSUME ReadCount PROVE agent'.position \in {agent.position, NoPosition}
  <2>1. PICK found : \/ agent' = Idle
                     \/ agent' = [agent EXCEPT !.stage = NextRead(agent.stage), !.found = found]
    BY <1>5, Zenon DEF ReadCount
  <2>2. CASE agent' = Idle
    BY <1>2, <2>2
  <2>3. CASE agent' = [agent EXCEPT !.stage = NextRead(agent.stage), !.found = found]
    BY <1>3, <2>3
  <2> QED
    BY <2>1, <2>2, <2>3
<1>6. ASSUME OutOfPositions PROVE agent'.position \in {agent.position, NoPosition}
  BY <1>2, <1>6 DEF OutOfPositions
<1> QED
  BY <1>4, <1>5, <1>6

-----------------------------------------------------------------------------
LEMMA AgentType ==
    ASSUME TypeOK, Agent
    PROVE  TypeOK'
<1>1. CASE ReadCount
  BY <1>1, PipelineAssumption
     DEF ReadCount, NextRead, Idle, TypeOK, AgentStages
<1>2. CASE OpenOrder
  <2>1. agent.strategy \in Strategies
    BY <1>2 DEF OpenOrder, TypeOK
  <2>2. orders \in [Strategies -> 0..2]
    BY DEF TypeOK
  <2>3. orders' \in [Strategies -> 0..2]
    <3>1. \/ orders' = [orders EXCEPT ![agent.strategy] =
                              IF @ < 2 THEN @ + 1 ELSE @]
          \/ orders' = orders
      BY <1>2 DEF OpenOrder
    <3>2. [orders EXCEPT ![agent.strategy] = IF @ < 2 THEN @ + 1 ELSE @]
              \in [Strategies -> 0..2]
      BY <2>1, <2>2, CountUpType
    <3> QED
      BY <2>2, <3>1, <3>2
  <2>4. live' \subseteq Positions
    BY <1>2 DEF OpenOrder, TypeOK
  <2>5. ASSUME NEW p \in Positions,
               agent' = [agent EXCEPT !.stage = "enqueue", !.position = p]
        PROVE  /\ agent' \in [stage : AgentStages,
                              strategy : Strategies \cup {NoStrategy},
                              stalled : BOOLEAN, found : BOOLEAN,
                              position : Positions \cup {NoPosition}]
               /\ agent'.stage = "idle" <=> agent'.strategy = NoStrategy
               /\ agent'.stage = "enqueue" <=> agent'.position # NoPosition
    BY <2>1, <2>5, PipelineAssumption DEF TypeOK, AgentStages
  <2>6. ASSUME agent' = Idle
        PROVE  /\ agent' \in [stage : AgentStages,
                              strategy : Strategies \cup {NoStrategy},
                              stalled : BOOLEAN, found : BOOLEAN,
                              position : Positions \cup {NoPosition}]
               /\ agent'.stage = "idle" <=> agent'.strategy = NoStrategy
               /\ agent'.stage = "enqueue" <=> agent'.position # NoPosition
    BY <2>6 DEF Idle, AgentStages
  <2> QED
    BY <1>2, <2>3, <2>4, <2>5, <2>6 DEF OpenOrder, TypeOK
<1>3. CASE OutOfPositions
  BY <1>3, PipelineAssumption DEF OutOfPositions, Idle, TypeOK, AgentStages
<1>4. CASE EnqueueManage
  <2>1. agent.position \in Positions
    BY <1>4 DEF EnqueueManage, TypeOK
  <2>2. lane' \in [Positions -> [Lanes -> Iterations]]
    <3>1. ASSUME NEW l \in Lanes,
                 lane' = [lane EXCEPT ![agent.position][l].at = "delayed"]
          PROVE  lane' \in [Positions -> [Lanes -> Iterations]]
      BY <2>1, <3>1, MoveEffect DEF Move, Places, Queued
    <3> QED
      BY <1>4, <3>1, LaneType DEF EnqueueManage
  <2> QED
    BY <1>4, <2>1, <2>2, PipelineAssumption
       DEF EnqueueManage, Idle, TypeOK, AgentStages, Iterations, Places
<1> QED
  BY <1>1, <1>2, <1>3, <1>4 DEF Agent

LEMMA ManageType ==
    ASSUME TypeOK, NEW p \in Positions, NEW l \in Lanes, Manage(p, l)
    PROVE  TypeOK'
<1>1. /\ "waiting" \in Places /\ "picked" \in Places
      /\ "reconcile" \in Places /\ "decide" \in Places
      /\ "external" \in Places /\ "close" \in Places
      /\ "settle" \in Places /\ "cleanup" \in Places
  BY DEF Places, Queued, Running
<1>2. lane' \in [Positions -> [Lanes -> Iterations]]
  <2>1. CASE ScheduleNext(p, l)
    BY <1>1, <2>1, ScheduleSplits, SuccessorEffect, MoveEffect
  <2>2. CASE Complete(p, l)
    BY <2>2, LeaveEffect, EmptyType, LaneType DEF Complete
  <2>3. CASE ~ScheduleNext(p, l) /\ ~Complete(p, l)
    BY <1>1, <2>3, MoveEffect, LeaveEffect
       DEF Manage, Promote, Pick, ReconcilePosition, Decide, ClosePosition,
           AppendEntry
  <2> QED
    BY <2>1, <2>2, <2>3
<1>3. ledger' \in [Positions -> 0..2]
  <2>1. CASE AppendEntry(p, l)
    <3>1. \/ ledger' = [ledger EXCEPT ![p] = IF @ < 2 THEN @ + 1 ELSE @]
          \/ ledger' = ledger
      BY <2>1 DEF AppendEntry
    <3>2. ledger \in [Positions -> 0..2]
      BY DEF TypeOK
    <3> QED
      BY <3>1, <3>2, CountUpType
  <2>2. CASE ~AppendEntry(p, l)
    BY <2>2 DEF Manage, Promote, Pick, ScheduleNext, ReconcilePosition, Decide,
       ClosePosition, Complete, TypeOK
  <2> QED
    BY <2>1, <2>2
<1>4. live' \subseteq Positions /\ repeats' \subseteq Positions
  BY DEF Manage, Promote, Pick, ScheduleNext, ReconcilePosition, Decide,
     ClosePosition, AppendEntry, Complete, TypeOK
<1>5. UNCHANGED <<intents, agent, orders, crashes>>
  BY DEF Manage, Promote, Pick, ScheduleNext, ReconcilePosition, Decide,
     ClosePosition, AppendEntry, Complete
<1> QED
  BY <1>2, <1>3, <1>4, <1>5 DEF TypeOK, Iterations, Places

\* Types, and what the agent holds at which stage.
THEOREM TypeCorrect == Spec => []TypeOK
<1>1. Init => TypeOK
  <2> SUFFICES ASSUME Init PROVE TypeOK
    OBVIOUS
  <2>1. lane \in [Positions -> [Lanes -> Iterations]]
    BY EmptyType DEF Init
  <2>2. /\ ledger \in [Positions -> 0..2]
        /\ orders \in [Strategies -> 0..2]
        /\ crashes \in 0..MaxCrashes
    BY PipelineAssumption DEF Init
  <2> QED
    BY <2>1, <2>2, PipelineAssumption
       DEF Init, Idle, TypeOK, AgentStages, Iterations, Places
<1>2. TypeOK /\ [Next]_vars => TypeOK'
  <2> SUFFICES ASSUME TypeOK, [Next]_vars
               PROVE  TypeOK'
    OBVIOUS
  <2>1. ASSUME NEW s \in Strategies, Evaluate(s)
        PROVE  TypeOK'
    BY <2>1 DEF Evaluate, TypeOK
  <2>2. ASSUME NEW s \in Strategies, PickIntent(s)
        PROVE  TypeOK'
    <3>1. orders' \in [Strategies -> 0..2]
      BY <2>2 DEF PickIntent, TypeOK
    <3> QED
      BY <2>2, <3>1, PipelineAssumption
         DEF PickIntent, Idle, TypeOK, AgentStages
  <2>3. ASSUME NEW p \in Positions, NativeExit(p)
        PROVE  TypeOK'
    BY <2>3 DEF NativeExit, TypeOK
  <2>4. CASE Crash
    <3>1. lane' \in [Positions -> [Lanes -> Iterations]]
      BY <2>4, EmptyType
         DEF Crash, TypeOK, Iterations, Places, Queued, Running
    <3>2. crashes' \in 0..MaxCrashes
      BY <2>4, PipelineAssumption DEF Crash, TypeOK
    <3> QED
      BY <2>4, <3>1, <3>2, PipelineAssumption
         DEF Crash, Idle, TypeOK, AgentStages, Iterations, Places
  <2>5. CASE UNCHANGED vars
    BY <2>5 DEF vars, TypeOK
  <2> QED
    BY <2>1, <2>2, <2>3, <2>4, <2>5, AgentType, ManageType DEF Next
<1> QED
  BY <1>1, <1>2, PTL DEF Spec

-----------------------------------------------------------------------------
(* The chain of iterations.  A schedule always has a head: an iteration    *)
(* that is queued, or picked and about to schedule its successor.          *)

Head == Queued \cup {"picked"}

\* Iterations that no longer carry the chain.
Late == Running \ {"picked"}

ChainInv ==
    /\ \A p \in repeats : At(p, Head)
    /\ crashes = 0 => \A p \in Positions, l \in Lanes : ~lane[p][l].stalled

LEMMA AgentKeepsChain ==
    ASSUME TypeOK, ChainInv, Agent
    PROVE  ChainInv'
<1>1. CASE EnqueueManage
  <2> DEFINE p == agent.position
  <2>1. p \in Positions
    BY <1>1 DEF EnqueueManage, TypeOK
  <2>2. ASSUME NEW l \in Lanes,
               lane' = [lane EXCEPT ![p][l].at = "delayed"],
               repeats' = repeats \cup {p}
        PROVE  ChainInv'
    <3>1. /\ \A q \in Positions, k \in Lanes :
                 q # p \/ k # l => lane'[q][k] = lane[q][k]
          /\ lane'[p][l].at = "delayed"
      <4>1. Move(p, l, "delayed") /\ "delayed" \in Places
        BY <2>2 DEF Move, Places, Queued
      <4> QED
        BY <2>1, <4>1, MoveEffect
    <3>2. lane'[p][l].stalled = lane[p][l].stalled
      BY <2>1, <2>2, LaneType DEF Iterations
    <3>3. \A q \in repeats' : \E k \in Lanes : lane'[q][k].at \in Head
      BY <2>1, <2>2, <3>1 DEF ChainInv, At, Head, Queued, TypeOK
    <3>4. crashes' = crashes
      BY <1>1 DEF EnqueueManage
    <3>5. crashes' = 0 =>
              \A q \in Positions, k \in Lanes : ~lane'[q][k].stalled
      BY <3>1, <3>2, <3>4, <2>1 DEF ChainInv
    <3> QED
      BY <3>3, <3>5 DEF ChainInv, At
  <2> QED
    BY <1>1, <2>2 DEF EnqueueManage, ChainInv, At
<1>2. CASE ReadCount \/ OpenOrder \/ OutOfPositions
  BY <1>2 DEF ReadCount, OpenOrder, OutOfPositions, ChainInv, At
<1> QED
  BY <1>1, <1>2 DEF Agent

LEMMA ManageKeepsChain ==
    ASSUME TypeOK, ChainInv, NEW p \in Positions, NEW l \in Lanes, Manage(p, l)
    PROVE  ChainInv'
<1>0. crashes' = crashes /\ repeats' \subseteq repeats /\ repeats \subseteq Positions
  BY DEF Manage, Promote, Pick, ScheduleNext, ReconcilePosition, Decide,
     ClosePosition, AppendEntry, Complete, TypeOK
<1>1. ASSUME NEW place \in Places, Move(p, l, place)
      PROVE  /\ \A q \in Positions, k \in Lanes :
                    lane'[q][k].stalled = lane[q][k].stalled
             /\ place \in Head \/ lane[p][l].at \notin Head =>
                    \A q \in repeats' : \E k \in Lanes : lane'[q][k].at \in Head
  <2>1. lane'[p][l].stalled = lane[p][l].stalled
    BY <1>1, LaneType DEF Move, Iterations
  <2> QED
    BY <1>0, <1>1, <2>1, MoveEffect DEF ChainInv, At
<1>2. ASSUME Leave(p, l), lane[p][l].at \notin Head
      PROVE  ChainInv'
  <2>1. ~lane'[p][l].stalled
    BY <1>2, LaneType DEF Leave, Empty
  <2> QED
    BY <1>0, <1>2, <2>1, LeaveEffect DEF ChainInv, At
<1>3. ASSUME NEW place \in Places, Move(p, l, place),
             place \in Head \/ lane[p][l].at \notin Head
      PROVE  ChainInv'
  BY <1>0, <1>1, <1>3 DEF ChainInv, At
<1> USE DEF Places, Head, Queued, Running
<1>4. CASE Promote(p, l)
  BY <1>3, <1>4 DEF Promote
<1>5. CASE Pick(p, l)
  BY <1>3, <1>5 DEF Pick
<1>6. CASE ScheduleNext(p, l)
  <2>1. CASE p \in repeats /\ ~At(p, Queued)
    <3>1. PICK free \in Lanes : Successor(p, l, free)
      BY <1>6, <2>1 DEF ScheduleNext, Successor
    <3>2. /\ lane'[p][free].at = "delayed"
          /\ \A q \in Positions, k \in Lanes :
                 lane'[q][k].stalled = lane[q][k].stalled
          /\ \A q \in Positions, k \in Lanes :
                 q # p => lane'[q][k] = lane[q][k]
      BY <3>1, SuccessorEffect
    <3> QED
      BY <1>0, <3>2 DEF ChainInv, At
  <2>2. CASE ~(p \in repeats /\ ~At(p, Queued))
    <3>1. Move(p, l, "reconcile") /\ lane[p][l].at = "picked"
      BY <1>6, <2>2 DEF ScheduleNext
    <3>2. /\ \A q \in Positions, k \in Lanes :
                 q # p \/ k # l => lane'[q][k] = lane[q][k]
          /\ \A q \in Positions, k \in Lanes :
                 lane'[q][k].stalled = lane[q][k].stalled
      BY <3>1, <1>1, MoveEffect
    <3>3. p \in repeats => \E k \in Lanes : k # l /\ lane[p][k].at \in Queued
      BY <2>2, <3>1 DEF At
    <3> QED
      BY <1>0, <3>2, <3>3 DEF ChainInv, At
  <2> QED
    BY <2>1, <2>2
<1>7. CASE ReconcilePosition(p, l)
  BY <1>3, <1>7 DEF ReconcilePosition
<1>8. CASE Decide(p, l)
  BY <1>2, <1>3, <1>8 DEF Decide
<1>9. CASE ClosePosition(p, l)
  BY <1>2, <1>3, <1>9 DEF ClosePosition
<1>10. CASE AppendEntry(p, l)
  BY <1>2, <1>3, <1>10 DEF AppendEntry
<1>11. CASE Complete(p, l)
  <2>1. CASE Leave(p, l)
    BY <1>2, <1>11, <2>1 DEF Complete
  <2>2. CASE /\ repeats' = repeats \ {p}
             /\ lane' = [lane EXCEPT ![p] =
                    [k \in Lanes |-> IF k = l \/ @[k].at = "delayed" THEN Empty
                                     ELSE @[k]]]
    <3>1. /\ \A q \in Positions, k \in Lanes :
                 q # p => lane'[q][k] = lane[q][k]
          /\ \A q \in Positions, k \in Lanes :
                 lane'[q][k].stalled => lane[q][k].stalled
      BY <2>2, LaneType DEF Empty, Iterations
    <3> QED
      BY <1>0, <2>2, <3>1 DEF ChainInv, At
  <2> QED
    BY <1>11, <2>1, <2>2 DEF Complete
<1> QED
  BY <1>4, <1>5, <1>6, <1>7, <1>8, <1>9, <1>10, <1>11 DEF Manage

\* Up to one death of the worker never breaks the chain of iterations of a
\* position, at whatever point between two commands it strikes.
THEOREM ChainSurvivesCrash ==
    ASSUME MaxCrashes <= 1
    PROVE  Spec => []ScheduleCarriesOn
<1>1. Init => ChainInv
  BY DEF Init, ChainInv, Empty
<1>2. TypeOK /\ ChainInv /\ [Next]_vars => ChainInv'
  <2> SUFFICES ASSUME TypeOK, ChainInv, [Next]_vars
               PROVE  ChainInv'
    OBVIOUS
  <2>1. CASE Crash
    <3>1. crashes = 0 /\ crashes' = 1
      BY <2>1, PipelineAssumption DEF Crash, TypeOK
    <3>2. \A p \in Positions, l \in Lanes :
             lane[p][l].at \in Head => lane'[p][l].at \in Head
      BY <2>1, <3>1 DEF Crash, ChainInv, TypeOK, Head, Queued, Running
    <3>3. repeats' = repeats /\ repeats \subseteq Positions
      BY <2>1 DEF Crash, TypeOK
    <3> QED
      BY <3>1, <3>2, <3>3 DEF ChainInv, At
  <2>2. ASSUME UNCHANGED <<lane, repeats, crashes>>
        PROVE  ChainInv'
    BY <2>2 DEF ChainInv, At
  <2>3. CASE UNCHANGED vars
    BY <2>2, <2>3 DEF vars
  <2>4. ASSUME NEW s \in Strategies, Evaluate(s) \/ PickIntent(s)
        PROVE  ChainInv'
    BY <2>2, <2>4 DEF Evaluate, PickIntent
  <2>5. ASSUME NEW p \in Positions, NativeExit(p)
        PROVE  ChainInv'
    BY <2>2, <2>5 DEF NativeExit
  <2> QED
    BY <2>1, <2>3, <2>4, <2>5, AgentKeepsChain, ManageKeepsChain DEF Next
<1>3. ChainInv => ScheduleCarriesOn
  BY DEF ChainInv, ScheduleCarriesOn, At, Head, Queued, Running
<1> QED
  BY <1>1, <1>2, <1>3, TypeCorrect, PTL DEF Spec

-----------------------------------------------------------------------------
(* What one step of an iteration leaves alone, and how its lane moves.     *)

Goes(p, l, place) ==
    /\ lane'[p][l].at = place
    /\ \A q \in Positions, k \in Lanes : q # p \/ k # l => lane'[q][k] = lane[q][k]

LEMMA LaneGoes ==
    ASSUME TypeOK, NEW p \in Positions, NEW l \in Lanes
    PROVE  /\ \A place \in Places : Move(p, l, place) => Goes(p, l, place)
           /\ Leave(p, l) => Goes(p, l, "none")
BY MoveEffect, LeaveEffect DEF Goes

LEMMA ManageFrame ==
    ASSUME TypeOK, NEW p \in Positions, NEW l \in Lanes, Manage(p, l)
    PROVE  /\ UNCHANGED <<intents, agent, orders, crashes>>
           /\ lane[p][l].at # "none"
           /\ \A q \in Positions : q # p =>
                  /\ \A k \in Lanes : lane'[q][k] = lane[q][k]
                  /\ ledger'[q] = ledger[q]
                  /\ q \in repeats' <=> q \in repeats
                  /\ q \in live' <=> q \in live
<1>1. /\ UNCHANGED <<intents, agent, orders, crashes>>
      /\ lane[p][l].at # "none"
  BY DEF Manage, Promote, Pick, ScheduleNext, ReconcilePosition, Decide,
     ClosePosition, AppendEntry, Complete
<1>2. \A q \in Positions : q # p => \A k \in Lanes : lane'[q][k] = lane[q][k]
  <2>1. CASE ScheduleNext(p, l) \/ Complete(p, l)
    BY <2>1, LaneType DEF ScheduleNext, Complete, Move, Leave
  <2>2. CASE ~(ScheduleNext(p, l) \/ Complete(p, l))
    BY <2>2, LaneType DEF Manage, Promote, Pick, ReconcilePosition, Decide,
       ClosePosition, AppendEntry, Move, Leave
  <2> QED
    BY <2>1, <2>2
<1>3. \A q \in Positions : q # p => ledger'[q] = ledger[q]
  BY DEF Manage, Promote, Pick, ScheduleNext, ReconcilePosition, Decide,
     ClosePosition, AppendEntry, Complete, TypeOK
<1>4. \A q \in Positions : q # p => /\ q \in repeats' <=> q \in repeats
                                    /\ q \in live' <=> q \in live
  BY DEF Manage, Promote, Pick, ScheduleNext, ReconcilePosition, Decide,
     ClosePosition, AppendEntry, Complete
<1> QED
  BY <1>1, <1>2, <1>3, <1>4

-----------------------------------------------------------------------------
(* A position is new to the queue and the ledger until its first iteration *)
(* is enqueued; and while the exchange holds it no iteration is past the   *)
(* close.                                                                  *)

PastClose == {"external", "settle", "cleanup"}

New(p) ==
    /\ p \notin repeats
    /\ ledger[p] = 0
    /\ \A l \in Lanes : lane[p][l].at = "none"

LiveInv ==
    /\ \A p \in Positions : agent.position = p => New(p)
    /\ \A p \in live : ledger[p] = 0 /\ \A l \in Lanes : lane[p][l].at \notin PastClose

LEMMA UnusedIsNew ==
    ASSUME TypeOK, NEW p \in Positions, ~Used(p)
    PROVE  New(p) /\ p \notin live
BY DEF Used, New, At, TypeOK

LEMMA AgentKeepsLive ==
    ASSUME TypeOK, LiveInv, Agent
    PROVE  LiveInv'
<1>1. CASE ReadCount \/ OutOfPositions
  <2>1. agent'.position \in {agent.position, NoPosition}
    BY <1>1, AgentPosition
  <2>2. UNCHANGED <<live, repeats, lane, ledger>>
    BY <1>1 DEF ReadCount, OutOfPositions
  <2> QED
    BY <2>1, <2>2, PipelineAssumption DEF LiveInv, New
<1>2. CASE OpenOrder
  <2>1. UNCHANGED <<repeats, lane, ledger>>
    BY <1>2 DEF OpenOrder
  <2>2. CASE agent' = Idle /\ live' = live
    BY <2>1, <2>2, PipelineAssumption DEF Idle, LiveInv, New
  <2>3. ASSUME NEW p \in Positions, ~Used(p), live' = live \cup {p},
               agent' = Idle \/ agent' = [agent EXCEPT !.stage = "enqueue", !.position = p]
        PROVE  LiveInv'
    <3>1. New(p)
      BY <2>3, UnusedIsNew
    <3>2. agent'.position \in {p, NoPosition}
      <4>1. CASE agent' = Idle
        BY <4>1 DEF Idle
      <4>2. CASE agent' = [agent EXCEPT !.stage = "enqueue", !.position = p]
        <5>1. agent'.position = p
          BY <4>2, AgentPosition, Zenon
        <5> QED
          BY <5>1
      <4> QED
        BY <2>3, <4>1, <4>2
    <3> QED
      BY <2>1, <2>3, <3>1, <3>2, PipelineAssumption DEF LiveInv, New, PastClose
  <2> QED
    BY <1>2, <2>2, <2>3 DEF OpenOrder
<1>3. CASE EnqueueManage
  <2> DEFINE p == agent.position
  <2>1. p \in Positions
    BY <1>3 DEF EnqueueManage, TypeOK
  <2>2. agent'.position \notin Positions /\ UNCHANGED <<live, ledger>>
    BY <1>3, PipelineAssumption DEF EnqueueManage, Idle
  <2>3. \A q \in Positions, k \in Lanes :
            lane'[q][k].at = lane[q][k].at \/ lane'[q][k].at = "delayed"
    <3>1. ASSUME NEW l \in Lanes, lane' = [lane EXCEPT ![p][l].at = "delayed"]
          PROVE  \A q \in Positions, k \in Lanes :
                     lane'[q][k].at = lane[q][k].at \/ lane'[q][k].at = "delayed"
      BY <2>1, <3>1, MoveEffect DEF Move, Places, Queued
    <3> QED
      BY <1>3, <3>1 DEF EnqueueManage
  <2> QED
    BY <2>2, <2>3 DEF LiveInv, PastClose, TypeOK
<1> QED
  BY <1>1, <1>2, <1>3 DEF Agent

LEMMA ManageKeepsLive ==
    ASSUME TypeOK, LiveInv, NEW p \in Positions, NEW l \in Lanes, Manage(p, l)
    PROVE  LiveInv'
<1>1. agent.position # p /\ agent' = agent
  BY ManageFrame DEF LiveInv, New
<1>2. p \in live' =>
          /\ p \in live
          /\ ledger'[p] = 0
          /\ \A k \in Lanes : lane'[p][k].at \notin PastClose
  <2> SUFFICES ASSUME p \in live'
               PROVE  /\ p \in live
                      /\ ledger'[p] = 0
                      /\ \A k \in Lanes : lane'[p][k].at \notin PastClose
    OBVIOUS
  <2>1. p \in live
    BY DEF Manage, Promote, Pick, ScheduleNext, ReconcilePosition, Decide,
       ClosePosition, AppendEntry, Complete
  <2>2. ledger[p] = 0 /\ \A k \in Lanes : lane[p][k].at \notin PastClose
    BY <2>1 DEF LiveInv
  <2>3. ~AppendEntry(p, l) /\ ~Complete(p, l)
    BY <2>2 DEF AppendEntry, Complete, PastClose
  <2>4. ledger' = ledger
    BY <2>3 DEF Manage, Promote, Pick, ScheduleNext, ReconcilePosition, Decide,
       ClosePosition
  <2>5. \A place \in Places \ PastClose :
            Move(p, l, place) \/ (place = "none" /\ Leave(p, l))
            => \A k \in Lanes : lane'[p][k].at \notin PastClose
    BY <2>2, LaneGoes DEF Goes
  <2>6. \A k \in Lanes : lane'[p][k].at \notin PastClose
    <3> USE DEF Places, Queued, Running, PastClose
    <3>1. ASSUME ScheduleNext(p, l)
          PROVE  \A k \in Lanes : lane'[p][k].at \notin PastClose
      <4>1. ASSUME NEW free \in Lanes, Successor(p, l, free)
            PROVE  \A k \in Lanes : lane'[p][k].at \notin PastClose
        <5>1. \A k \in Lanes :
                  \/ lane'[p][k].at \in {"reconcile", "delayed"}
                  \/ lane'[p][k] = lane[p][k]
          BY <4>1, SuccessorEffect
        <5> QED
          BY <2>2, <5>1
      <4>2. CASE Move(p, l, "reconcile")
        BY <2>5, <4>2
      <4> QED
        BY <3>1, <4>1, <4>2, ScheduleSplits
    <3>2. ASSUME Promote(p, l) \/ Pick(p, l)
          PROVE  \A k \in Lanes : lane'[p][k].at \notin PastClose
      BY <2>5, <3>2 DEF Promote, Pick
    <3>3. ASSUME ReconcilePosition(p, l) \/ Decide(p, l)
          PROVE  \A k \in Lanes : lane'[p][k].at \notin PastClose
      BY <2>1, <2>5, <3>3 DEF ReconcilePosition, Decide
    <3>4. ASSUME ClosePosition(p, l)
          PROVE  \A k \in Lanes : lane'[p][k].at \notin PastClose
      BY <2>5, <3>4 DEF ClosePosition
    <3> QED
      BY <2>3, <3>1, <3>2, <3>3, <3>4 DEF Manage
  <2> QED
    BY <2>1, <2>2, <2>4, <2>6
<1>3. ASSUME NEW q \in Positions, agent'.position = q
      PROVE  New(q)'
  BY <1>1, <1>3, ManageFrame DEF LiveInv, New
<1>4. ASSUME NEW q \in live'
      PROVE  ledger'[q] = 0 /\ \A k \in Lanes : lane'[q][k].at \notin PastClose
  <2>1. q \in Positions
    BY TypeOK, ManageType DEF TypeOK
  <2> QED
    BY <1>2, <1>4, <2>1, ManageFrame DEF LiveInv
<1> QED
  BY <1>3, <1>4 DEF LiveInv

LEMMA LiveInvariant == Spec => []LiveInv
<1>1. Init => LiveInv
  BY PipelineAssumption DEF Init, Idle, LiveInv
<1>2. TypeOK /\ LiveInv /\ [Next]_vars => LiveInv'
  <2> SUFFICES ASSUME TypeOK, LiveInv, [Next]_vars
               PROVE  LiveInv'
    OBVIOUS
  <2>1. CASE Crash
    <3>1. agent'.position \notin Positions /\ UNCHANGED <<live, ledger, repeats>>
      BY <2>1, PipelineAssumption DEF Crash, Idle
    <3>2. \A p \in Positions, l \in Lanes : lane'[p][l].at \notin Running
      BY <2>1 DEF Crash, Empty, Running
    <3> QED
      BY <3>1, <3>2 DEF LiveInv, PastClose, Running, TypeOK
  <2>2. ASSUME NEW s \in Strategies, Evaluate(s) \/ PickIntent(s)
        PROVE  LiveInv'
    <3>1. agent'.position \in {agent.position, NoPosition}
      BY <2>2 DEF Evaluate, PickIntent, Idle
    <3>2. UNCHANGED <<live, repeats, lane, ledger>>
      BY <2>2 DEF Evaluate, PickIntent
    <3> QED
      BY <3>1, <3>2, PipelineAssumption DEF LiveInv, New
  <2>3. ASSUME NEW p \in Positions, NativeExit(p)
        PROVE  LiveInv'
    BY <2>3 DEF NativeExit, LiveInv, New
  <2>4. CASE UNCHANGED vars
    BY <2>4 DEF vars, LiveInv, New
  <2> QED
    BY <2>1, <2>2, <2>3, <2>4, AgentKeepsLive, ManageKeepsLive DEF Next
<1> QED
  BY <1>1, <1>2, TypeCorrect, PTL DEF Spec

\* No ledger entry is ever written for a position the exchange still holds,
\* whatever fails and however often the worker dies.
THEOREM LedgerHoldsClosedOnly == Spec => []LedgerOnlyClosed
<1>1. LiveInv => LedgerOnlyClosed
  BY DEF LiveInv, LedgerOnlyClosed
<1> QED
  BY <1>1, LiveInvariant, PTL

-----------------------------------------------------------------------------
(* Every position is reviewed.  Until the worker dies a position is in the *)
(* agent's hands or has its schedule, and the schedule has an iteration.   *)

LEMMA ChainWhileAlive == Spec => [](crashes = 0 => ChainInv)
<1> DEFINE Inv == crashes = 0 => ChainInv
<1>1. Init => Inv
  BY DEF Init, ChainInv, Empty
<1>2. TypeOK /\ Inv /\ [Next]_vars => Inv'
  <2> SUFFICES ASSUME TypeOK, Inv, [Next]_vars
               PROVE  Inv'
    OBVIOUS
  <2>1. CASE Crash
    BY <2>1, PipelineAssumption DEF Crash, TypeOK
  <2>2. ASSUME UNCHANGED <<lane, repeats, crashes>>
        PROVE  Inv'
    BY <2>2 DEF ChainInv, At
  <2>3. CASE UNCHANGED vars
    BY <2>2, <2>3 DEF vars
  <2>4. ASSUME NEW s \in Strategies, Evaluate(s) \/ PickIntent(s)
        PROVE  Inv'
    BY <2>2, <2>4 DEF Evaluate, PickIntent
  <2>5. ASSUME NEW p \in Positions, NativeExit(p)
        PROVE  Inv'
    BY <2>2, <2>5 DEF NativeExit
  <2>6. CASE Agent
    <3>1. crashes' = crashes
      BY <2>6 DEF Agent, ReadCount, OpenOrder, OutOfPositions, EnqueueManage
    <3> QED
      BY <2>6, <3>1, AgentKeepsChain
  <2>7. ASSUME NEW p \in Positions, NEW l \in Lanes, Manage(p, l)
        PROVE  Inv'
    <3>1. crashes' = crashes
      BY <2>7, ManageFrame
    <3> QED
      BY <2>7, <3>1, ManageKeepsChain
  <2> QED
    BY <2>1, <2>3, <2>4, <2>5, <2>6, <2>7 DEF Next
<1> QED
  BY <1>1, <1>2, TypeCorrect, PTL DEF Spec

HeldInv == crashes = 0 => \A p \in live : agent.position = p \/ p \in repeats

LEMMA HeldInvariant ==
    ASSUME ~ApiErrors, "add" \notin RedisErrors
    PROVE  Spec => []HeldInv
<1>1. Init => HeldInv
  BY DEF Init, HeldInv
<1>2. TypeOK /\ LiveInv /\ HeldInv /\ [Next]_vars => HeldInv'
  <2> SUFFICES ASSUME TypeOK, LiveInv, HeldInv, [Next]_vars
               PROVE  HeldInv'
    OBVIOUS
  <2>1. CASE Crash
    BY <2>1, PipelineAssumption DEF Crash, TypeOK, HeldInv
  <2>2. ASSUME agent.stage # "enqueue", repeats' = repeats, crashes' = crashes,
               \A p \in live' : p \in live \/ agent'.position = p
        PROVE  HeldInv'
    <3>1. \A p \in live : agent.position # p
      BY <2>2, PipelineAssumption DEF TypeOK
    <3> QED
      BY <2>2, <3>1 DEF HeldInv
  <2>3. ASSUME NEW s \in Strategies, Evaluate(s) \/ PickIntent(s)
        PROVE  HeldInv'
    <3>1. CASE Evaluate(s)
      BY <3>1 DEF Evaluate, HeldInv
    <3>2. CASE PickIntent(s)
      BY <2>2, <3>2 DEF PickIntent
    <3> QED
      BY <2>3, <3>1, <3>2
  <2>4. CASE ReadCount \/ OutOfPositions
    BY <2>2, <2>4 DEF ReadCount, OutOfPositions
  <2>5. CASE OpenOrder
    <3>1. PICK p \in Positions : /\ live' = live \cup {p}
                                 /\ agent' = [agent EXCEPT !.stage = "enqueue", !.position = p]
      BY <2>5 DEF OpenOrder
    <3>2. agent'.position = p
      BY <3>1, AgentPosition, Zenon
    <3> QED
      BY <2>2, <2>5, <3>1, <3>2 DEF OpenOrder
  <2>6. CASE EnqueueManage
    BY <2>6 DEF EnqueueManage, HeldInv
  <2>7. ASSUME NEW p \in Positions, NEW l \in Lanes, Manage(p, l)
        PROVE  HeldInv'
    <3>1. UNCHANGED <<agent, crashes>> /\ live' \subseteq live
      BY <2>7 DEF Manage, Promote, Pick, ScheduleNext, ReconcilePosition, Decide,
         ClosePosition, AppendEntry, Complete
    <3>2. p \in live => repeats' = repeats
      <4>1. p \in live => ~Complete(p, l)
        BY DEF LiveInv, Complete, PastClose
      <4> QED
        BY <2>7, <4>1 DEF Manage, Promote, Pick, ScheduleNext, ReconcilePosition,
           Decide, ClosePosition, AppendEntry
    <3>3. \A q \in live : q # p => (q \in repeats' <=> q \in repeats)
      BY <2>7, ManageFrame DEF TypeOK
    <3> QED
      BY <3>1, <3>2, <3>3 DEF HeldInv
  <2>8. ASSUME NEW p \in Positions, NativeExit(p)
        PROVE  HeldInv'
    BY <2>8 DEF NativeExit, HeldInv
  <2>9. CASE UNCHANGED vars
    BY <2>9 DEF vars, HeldInv
  <2> QED
    BY <2>1, <2>3, <2>4, <2>5, <2>6, <2>7, <2>8, <2>9 DEF Next, Agent
<1> QED
  BY <1>1, <1>2, TypeCorrect, LiveInvariant, PTL DEF Spec

\* While the exchange answers and manage jobs can be added, an open position is
\* always under review until the worker dies, though ledger entries and removals
\* fail and iterations overlap; and it is never taken for a closed one.
THEOREM EveryPositionIsReviewed ==
    ASSUME ~ApiErrors, "add" \notin RedisErrors
    PROVE  Spec => []NoOrphan
<1>1. TypeOK /\ LiveInv /\ HeldInv /\ (crashes = 0 => ChainInv) => NoOrphan
  <2> SUFFICES ASSUME TypeOK, LiveInv, HeldInv, crashes = 0 => ChainInv
               PROVE  NoOrphan
    OBVIOUS
  <2>1. LedgerOnlyClosed
    BY DEF LiveInv, LedgerOnlyClosed
  <2>2. ASSUME crashes = 0, NEW p \in live, agent.position # p
        PROVE  p \in repeats /\ At(p, Queued \cup Running)
    BY <2>2 DEF HeldInv, ChainInv, At, Head, Queued, Running
  <2> QED
    BY <2>1, <2>2 DEF NoOrphan
<1> QED
  BY <1>1, TypeCorrect, LiveInvariant, HeldInvariant, ChainWhileAlive, PTL

-----------------------------------------------------------------------------
(* Nothing twice.  An intent in hand has sent no order before its order is *)
(* sent.                                                                   *)

Deciding == {"active", "waiting", "delayed", "order"}

OrderInv ==
    crashes = 0 =>
        /\ \A s \in Strategies : intents[s] # "stalled" /\ orders[s] <= 1
        /\ agent.stage \in Deciding => orders[agent.strategy] = 0

LEMMA OrderInvariant == Spec => []OrderInv
<1>1. Init => OrderInv
  BY DEF Init, OrderInv, Idle, Deciding
<1>2. TypeOK /\ OrderInv /\ [Next]_vars => OrderInv'
  <2> SUFFICES ASSUME TypeOK, OrderInv, [Next]_vars, crashes' = 0
               PROVE  OrderInv'
    BY DEF OrderInv
  <2>r. agent \in AgentRecords
    BY DEF TypeOK, AgentRecords
  <2>i. Idle.stage = "idle" /\ "idle" \notin Deciding
    BY DEF Idle, Deciding
  <2>1. CASE Crash
    BY <2>1, PipelineAssumption DEF Crash, TypeOK
  <2>2. ASSUME NEW s \in Strategies, Evaluate(s)
        PROVE  OrderInv'
    BY <2>2 DEF Evaluate, OrderInv, TypeOK
  <2>3. ASSUME NEW s \in Strategies, PickIntent(s)
        PROVE  OrderInv'
    <3>1. orders' = [orders EXCEPT ![s] = 0] /\ crashes = 0
      BY <2>3 DEF PickIntent, OrderInv, TypeOK
    <3>2. agent'.strategy = s
      BY <2>3 DEF PickIntent, Idle
    <3>3. intents' = [intents EXCEPT ![s] = "none"]
      BY <2>3 DEF PickIntent
    <3> QED
      BY <3>1, <3>2, <3>3 DEF OrderInv, TypeOK
  <2>4. CASE ReadCount
    <3>1. agent'.stage \in Deciding => agent'.strategy = agent.strategy
      <4>1. PICK found : \/ agent' = Idle
                         \/ agent' = [agent EXCEPT !.stage = NextRead(agent.stage),
                                                   !.found = found]
        BY <2>4, Zenon DEF ReadCount
      <4> QED
        BY <2>r, <2>i, <4>1 DEF AgentRecords
    <3>2. agent.stage \in Deciding /\ UNCHANGED <<intents, orders, crashes>>
      BY <2>4 DEF ReadCount, Deciding
    <3> QED
      BY <3>1, <3>2 DEF OrderInv
  <2>5. CASE OpenOrder
    <3>0. agent.stage = "order" /\ crashes = 0
      BY <2>5 DEF OpenOrder
    <3>1. crashes = 0 /\ agent.strategy \in Strategies /\ orders[agent.strategy] = 0
      BY <3>0 DEF OrderInv, Deciding, TypeOK
    <3>2. agent'.stage \notin Deciding
      <4>1. ASSUME NEW p, agent' = [agent EXCEPT !.stage = "enqueue", !.position = p]
            PROVE  agent'.stage \notin Deciding
        <5>1. agent'.stage = "enqueue"
          BY <2>r, <4>1 DEF AgentRecords
        <5> QED
          BY <5>1 DEF Deciding
      <4> QED
        BY <2>5, <2>i, <4>1 DEF OpenOrder
    <3>3. \A s \in Strategies : orders'[s] <= 1
      <4>1. \/ orders' = [orders EXCEPT ![agent.strategy] = IF @ < 2 THEN @ + 1 ELSE @]
            \/ orders' = orders
        BY <2>5 DEF OpenOrder
      <4>2. orders \in [Strategies -> 0..2] /\ \A s \in Strategies : orders[s] <= 1
        BY <3>1 DEF OrderInv, TypeOK
      <4> QED
        BY <3>1, <4>1, <4>2, CountUpOnce
    <3> QED
      BY <2>5, <3>1, <3>2, <3>3 DEF OpenOrder, OrderInv
  <2>6. CASE OutOfPositions \/ EnqueueManage
    BY <2>6, <2>i DEF OutOfPositions, EnqueueManage, OrderInv
  <2>7. ASSUME NEW p \in Positions, NEW l \in Lanes, Manage(p, l)
        PROVE  OrderInv'
    BY <2>7, ManageFrame DEF OrderInv
  <2>8. ASSUME NEW p \in Positions, NativeExit(p)
        PROVE  OrderInv'
    BY <2>8 DEF NativeExit, OrderInv
  <2>9. CASE UNCHANGED vars
    BY <2>9 DEF vars, OrderInv
  <2> QED
    BY <2>1, <2>2, <2>3, <2>4, <2>5, <2>6, <2>7, <2>8, <2>9 DEF Next, Agent
<1> QED
  BY <1>1, <1>2, TypeCorrect, PTL DEF Spec

\* Iterations of a position overlap only as one that is delayed and one that
\* runs; and once the position is entered none runs that could enter it again.
Apart(i, j) ==
    \/ i = "none" \/ j = "none"
    \/ i = "delayed" /\ j \in Running
    \/ j = "delayed" /\ i \in Running

AloneInv(p) ==
    \A k, l \in Lanes : k # l => Apart(lane[p][k].at, lane[p][l].at)

EnteredInv(p) ==
    ledger[p] > 0 =>
        /\ ledger[p] = 1
        /\ \/ \E l \in Lanes : lane[p][l].at = "cleanup"
           \/ p \notin repeats /\ \A l \in Lanes : lane[p][l].at = "none"

LEMMA ManageKeepsAlone ==
    ASSUME ~SlowTicks, TypeOK, NEW p \in Positions, NEW l \in Lanes,
           AloneInv(p), Manage(p, l)
    PROVE  AloneInv(p)'
<1> USE DEF Places, Queued, Running
<1>1. \A place \in Places :
          /\ Goes(p, l, place)
          /\ \A k \in Lanes : k # l => Apart(lane[p][k].at, place)
          => AloneInv(p)'
  BY DEF Goes, AloneInv, Apart
<1>2. \A k \in Lanes : k # l => Apart(lane[p][k].at, lane[p][l].at)
  BY DEF AloneInv, Apart
<1>3. ASSUME NEW place \in Running \cup {"none"}, Goes(p, l, place),
             lane[p][l].at \in Running
      PROVE  AloneInv(p)'
  BY <1>1, <1>2, <1>3 DEF Apart
<1>4. CASE Promote(p, l)
  <2>1. \A k \in Lanes : k # l => lane[p][k].at = "none"
    BY <1>2, <1>4 DEF Promote, Apart, At
  <2>2. Goes(p, l, "waiting")
    BY <1>4, LaneGoes DEF Promote
  <2> QED
    BY <1>1, <2>1, <2>2 DEF Apart
<1>5. CASE Pick(p, l)
  <2>1. Goes(p, l, "picked")
    BY <1>5, LaneGoes DEF Pick
  <2> QED
    BY <1>1, <1>2, <1>5, <2>1 DEF Pick, Apart
<1>6. CASE ScheduleNext(p, l)
  <2>1. lane[p][l].at = "picked"
    BY <1>6 DEF ScheduleNext
  <2>2. CASE Move(p, l, "reconcile")
    <3>1. Goes(p, l, "reconcile")
      BY <2>2, LaneGoes
    <3> QED
      BY <1>3, <2>1, <3>1
  <2>3. ASSUME NEW free \in Lanes, Successor(p, l, free), ~At(p, Queued)
        PROVE  AloneInv(p)'
    <3>1. \A k \in Lanes : k # l => lane[p][k].at = "none"
      BY <1>2, <2>1, <2>3 DEF Apart, At
    <3>2. /\ lane'[p][l].at = "reconcile"
          /\ lane'[p][free].at = "delayed"
          /\ \A k \in Lanes : k \notin {l, free} => lane'[p][k] = lane[p][k]
      BY <2>3, SuccessorEffect
    <3>3. \A k \in Lanes : \/ k = l /\ lane'[p][k].at = "reconcile"
                           \/ k = free /\ lane'[p][k].at = "delayed"
                           \/ lane'[p][k].at = "none"
      BY <3>1, <3>2
    <3> QED
      BY <3>3 DEF AloneInv, Apart
  <2> QED
    BY <1>6, <2>2, <2>3, ScheduleSplits
<1>7. ASSUME NEW place \in Running \cup {"none"},
             Move(p, l, place) \/ (place = "none" /\ Leave(p, l)),
             lane[p][l].at \in Running
      PROVE  AloneInv(p)'
  BY <1>3, <1>7, LaneGoes
<1>8. CASE ReconcilePosition(p, l)
  BY <1>7, <1>8 DEF ReconcilePosition
<1>9. CASE Decide(p, l)
  BY <1>7, <1>9 DEF Decide
<1>10. CASE ClosePosition(p, l)
  BY <1>7, <1>10 DEF ClosePosition
<1>11. CASE AppendEntry(p, l)
  BY <1>7, <1>11 DEF AppendEntry
<1>12. CASE Complete(p, l)
  <2>1. CASE Leave(p, l)
    BY <1>7, <1>12, <2>1 DEF Complete
  <2>2. CASE ~Leave(p, l)
    <3>1. \A k \in Lanes : lane'[p][k].at \in {"none", lane[p][k].at}
      BY <1>12, <2>2, LaneType DEF Complete, Empty
    <3> QED
      BY <3>1 DEF AloneInv, Apart
  <2> QED
    BY <2>1, <2>2
<1> QED
  BY <1>4, <1>5, <1>6, <1>8, <1>9, <1>10, <1>11, <1>12 DEF Manage

LEMMA ManageKeepsEntered ==
    ASSUME ~SlowTicks, {"append", "remove"} \cap RedisErrors = {},
           TypeOK, NEW p \in Positions, NEW l \in Lanes,
           AloneInv(p), EnteredInv(p), Manage(p, l)
    PROVE  EnteredInv(p)'
<1> USE DEF Places, Queued, Running
<1>1. CASE ledger[p] = 0
  <2>1. CASE AppendEntry(p, l)
    <3>1. ledger' = [ledger EXCEPT ![p] = IF @ < 2 THEN @ + 1 ELSE @]
          /\ Move(p, l, "cleanup")
      BY <2>1 DEF AppendEntry
    <3>2. ledger'[p] = 1
      BY <1>1, <3>1, CountUpOnce DEF TypeOK
    <3>3. lane'[p][l].at = "cleanup"
      BY <3>1, LaneGoes DEF Goes
    <3> QED
      BY <3>2, <3>3 DEF EnteredInv
  <2>2. CASE ~AppendEntry(p, l)
    <3>1. ledger' = ledger
      BY <2>2 DEF Manage, Promote, Pick, ScheduleNext, ReconcilePosition, Decide,
         ClosePosition, Complete
    <3> QED
      BY <1>1, <3>1 DEF EnteredInv
  <2> QED
    BY <2>1, <2>2
<1>2. CASE ledger[p] > 0
  <2>1. lane[p][l].at # "none"
    BY ManageFrame
  <2>2. PICK k \in Lanes : lane[p][k].at = "cleanup"
    BY <1>2, <2>1 DEF EnteredInv
  <2>3. CASE k # l
    <3>1. lane[p][l].at = "delayed"
      BY <2>1, <2>2, <2>3 DEF AloneInv, Apart
    <3> QED
      BY <2>2, <3>1 DEF Manage, Promote, Pick, ScheduleNext, ReconcilePosition,
         Decide, ClosePosition, AppendEntry, Complete, At
  <2>4. CASE k = l
    <3>1. Complete(p, l)
      BY <2>2, <2>4 DEF Manage, Promote, Pick, ScheduleNext, ReconcilePosition,
         Decide, ClosePosition, AppendEntry
    <3>2. \A j \in Lanes : j # l => lane[p][j].at \in {"none", "delayed"}
      BY <2>2, <2>4 DEF AloneInv, Apart
    <3>3. /\ repeats' = repeats \ {p}
          /\ ledger' = ledger
          /\ lane' = [lane EXCEPT ![p] =
                 [j \in Lanes |-> IF j = l \/ @[j].at = "delayed" THEN Empty
                                  ELSE @[j]]]
      BY <3>1 DEF Complete
    <3>4. \A j \in Lanes : lane'[p][j].at = "none"
      BY <3>2, <3>3, LaneType DEF Empty
    <3> QED
      BY <1>2, <3>3, <3>4 DEF EnteredInv
  <2> QED
    BY <2>3, <2>4
<1> QED
  BY <1>1, <1>2 DEF TypeOK

OnceInv == crashes = 0 => \A p \in Positions : AloneInv(p) /\ EnteredInv(p)

LEMMA OnceInvariant ==
    ASSUME ~SlowTicks, {"append", "remove"} \cap RedisErrors = {}
    PROVE  Spec => []OnceInv
<1>1. Init => OnceInv
  BY DEF Init, OnceInv, AloneInv, EnteredInv, Apart, Empty
<1>2. TypeOK /\ LiveInv /\ OnceInv /\ [Next]_vars => OnceInv'
  <2> SUFFICES ASSUME TypeOK, LiveInv, OnceInv, [Next]_vars
               PROVE  OnceInv'
    OBVIOUS
  <2>1. CASE Crash
    BY <2>1, PipelineAssumption DEF Crash, TypeOK, OnceInv
  <2>2. ASSUME UNCHANGED <<repeats, lane, ledger, crashes>>
        PROVE  OnceInv'
    BY <2>2 DEF OnceInv, AloneInv, EnteredInv
  <2>3. ASSUME NEW s \in Strategies, Evaluate(s) \/ PickIntent(s)
        PROVE  OnceInv'
    BY <2>2, <2>3 DEF Evaluate, PickIntent
  <2>4. CASE ReadCount \/ OpenOrder \/ OutOfPositions
    BY <2>2, <2>4 DEF ReadCount, OpenOrder, OutOfPositions
  <2>5. CASE EnqueueManage
    <3>0. PICK p \in Positions : p = agent.position
      BY <2>5 DEF EnqueueManage, TypeOK
    <3>1. New(p)
      BY <3>0 DEF LiveInv
    <3>2. ASSUME NEW l \in Lanes,
                 lane' = [lane EXCEPT ![p][l].at = "delayed"]
          PROVE  /\ \A k \in Lanes : k # l => lane'[p][k].at = "none"
                 /\ \A q \in Positions, k \in Lanes : q # p => lane'[q][k] = lane[q][k]
      BY <3>1, <3>2, MoveEffect DEF Move, New, Places, Queued
    <3>3. ledger' = ledger /\ crashes' = crashes
      BY <2>5 DEF EnqueueManage
    <3>4. CASE UNCHANGED <<repeats, lane>>
      BY <2>2, <3>3, <3>4
    <3>5. ASSUME NEW l \in Lanes, repeats' = repeats \cup {p},
                 lane' = [lane EXCEPT ![p][l].at = "delayed"]
          PROVE  OnceInv'
      <4>1. AloneInv(p)' /\ EnteredInv(p)'
        BY <3>1, <3>2, <3>3, <3>5 DEF New, AloneInv, EnteredInv, Apart
      <4>2. ASSUME NEW q \in Positions, q # p, AloneInv(q), EnteredInv(q)
            PROVE  AloneInv(q)' /\ EnteredInv(q)'
        BY <3>1, <3>2, <3>3, <3>5, <4>2 DEF AloneInv, EnteredInv
      <4> QED
        BY <3>3, <4>1, <4>2 DEF OnceInv
    <3> QED
      BY <2>5, <3>0, <3>4, <3>5 DEF EnqueueManage
  <2>6. ASSUME NEW p \in Positions, NEW l \in Lanes, Manage(p, l), crashes' = 0
        PROVE  OnceInv'
    <3>1. crashes = 0
      BY <2>6, ManageFrame
    <3>2. AloneInv(p)' /\ EnteredInv(p)'
      BY <2>6, <3>1, ManageKeepsAlone, ManageKeepsEntered DEF OnceInv
    <3>3. ASSUME NEW q \in Positions, q # p
          PROVE  AloneInv(q)' /\ EnteredInv(q)'
      <4>1. AloneInv(q) /\ EnteredInv(q)
        BY <3>1 DEF OnceInv
      <4>2. /\ \A k \in Lanes : lane'[q][k] = lane[q][k]
            /\ ledger'[q] = ledger[q]
            /\ q \in repeats' <=> q \in repeats
        BY <2>6, <3>3, ManageFrame
      <4> QED
        BY <4>1, <4>2 DEF AloneInv, EnteredInv
    <3> QED
      BY <3>2, <3>3 DEF OnceInv
  <2>7. ASSUME NEW p \in Positions, NativeExit(p)
        PROVE  OnceInv'
    BY <2>2, <2>7 DEF NativeExit
  <2>8. CASE UNCHANGED vars
    BY <2>2, <2>8 DEF vars
  <2> QED
    BY <2>1, <2>3, <2>4, <2>5, <2>6, <2>7, <2>8 DEF Next, Agent, OnceInv
<1> QED
  BY <1>1, <1>2, TypeCorrect, LiveInvariant, PTL DEF Spec

\* As long as no manage tick outlasts its interval and Redis takes ledger
\* entries and removals, no position is entered twice and no intent executed
\* twice before the worker dies, whatever exchange calls fail or lose their
\* answer; and no held position is ever in the ledger.
THEOREM NothingHappensTwice ==
    ASSUME ~SlowTicks, {"append", "remove"} \cap RedisErrors = {}
    PROVE  Spec => []NothingTwice
<1>1. LiveInv /\ OrderInv /\ OnceInv /\ TypeOK => NothingTwice
  <2> SUFFICES ASSUME LiveInv, OrderInv, OnceInv, TypeOK
               PROVE  NothingTwice
    OBVIOUS
  <2>1. LedgerOnlyClosed
    BY DEF LiveInv, LedgerOnlyClosed
  <2>2. ASSUME crashes = 0, NEW p \in Positions
        PROVE  ledger[p] <= 1
    <3>1. ledger[p] \in 0..2 /\ EnteredInv(p)
      BY <2>2 DEF TypeOK, OnceInv
    <3> QED
      BY <3>1 DEF EnteredInv
  <2>3. crashes = 0 => \A s \in Strategies : orders[s] <= 1
    BY DEF OrderInv
  <2> QED
    BY <2>1, <2>2, <2>3 DEF NothingTwice
<1> QED
  BY <1>1, TypeCorrect, LiveInvariant, OrderInvariant, OnceInvariant, PTL

=============================================================================
