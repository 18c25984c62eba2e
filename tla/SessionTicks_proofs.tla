------------------------- MODULE SessionTicks_proofs -------------------------
(***************************************************************************)
(* Proofs about the trader session's start and its in-process ticks.       *)
(*                                                                         *)
(* SessionStarts: at most one session trades, for every number of          *)
(* processes, retries, restarts and deaths.                                *)
(*                                                                         *)
(* SessionTicks: what executeTrade answers is what the exchange holds, and *)
(* no unit that a tick leaves behind is forgotten.  The invariant is       *)
(* Shape (which stage goes with which strategy, call, order and belief)    *)
(* with HeldSingle and HeldOthers (what the exchange holds at each stage). *)
(* One lemma per action says what the step does to each variable; the      *)
(* invariants are proved from these lemmas alone.                          *)
(***************************************************************************)
EXTENDS MCSessionTicks, FiniteSetTheorems, TLAPS

-----------------------------------------------------------------------------
(* The session lock.                                                       *)

ProcStates == {"none", "unrelated", "starting", "clear", "running", "releasing"}

Holds(p) == proc[p] \in {"running", "releasing"}

ProcOK == proc \in [Pids -> ProcStates]

\* Whoever trades, or is about to stop, is named in the lock; and a session
\* between its check and its write is alone with the lock.
LockOK ==
    ~overlapped =>
        /\ \A p \in Pids : Holds(p) => lockPid = p
        /\ \A p, q \in Pids : proc[p] = "clear" /\ (proc[q] = "clear" \/ Holds(q)) => p = q

StartsInv == ProcOK /\ LockOK

\* A step that neither takes a pid into the lock's protocol nor writes the
\* lock keeps the invariant: each process stays where it is or is out of it.
LEMMA ProcsLeave ==
    ASSUME StartsInv, ProcOK', lockPid' = lockPid, overlapped' = overlapped,
           \A p \in Pids : proc'[p] = proc[p] \/ proc'[p] \in {"none", "unrelated", "starting"}
                                              \/ (proc[p] = "running" /\ proc'[p] = "releasing")
    PROVE  StartsInv'
  BY DEF StartsInv, LockOK, Holds

LEMMA StartsInvariant ==
    /\ StartsInit => StartsInv
    /\ StartsInv /\ [StartsNext]_startsVars => StartsInv'
<1>1. StartsInit => StartsInv
  BY DEF StartsInit, StartsInv, ProcOK, LockOK, ProcStates, Holds
<1>2. ASSUME StartsInv, [StartsNext]_startsVars PROVE StartsInv'
  <2> USE <1>2
  <2>1. CASE UNCHANGED startsVars
    BY <2>1 DEF startsVars, StartsInv, ProcOK, LockOK, Holds
  \* The steps that leave the processes and the lock alone.
  <2>2. CASE StackStarts \/ JobEnds \/ WorkerStops \/ WorkerExits \/ TearDown \/ \E j \in Jobs : JobStalled(j)
    <3>1. UNCHANGED <<proc, lockPid, overlapped>>
      BY <2>2 DEF StackStarts, JobEnds, WorkerStops, WorkerExits, TearDown, JobStalled
    <3> QED
      BY <3>1 DEF StartsInv, ProcOK, LockOK, Holds
  <2>3. ASSUME NEW p \in Pids, FindFree(p) PROVE StartsInv'
    <3>1. /\ proc[p] = "starting" /\ ~HolderAlive /\ lockPid' = lockPid
          /\ proc' = [proc EXCEPT ![p] = "clear"]
          /\ overlapped' = (overlapped \/ \E q \in Pids : proc[q] = "clear")
      BY <2>3 DEF FindFree
    <3>2. ProcOK'
      BY <3>1 DEF StartsInv, ProcOK, ProcStates
    <3>3. SUFFICES ASSUME ~overlapped' PROVE LockOK'
      BY <3>2 DEF StartsInv, LockOK
    <3>4. ~overlapped /\ \A q \in Pids : proc[q] # "clear"
      BY <3>1, <3>3
    <3>5. \A q \in Pids : ~Holds(q)
      BY <3>1, <3>4, StartsAssumption DEF StartsInv, LockOK, HolderAlive, Free, Holds
    <3> QED
      BY <3>1, <3>4, <3>5 DEF StartsInv, ProcOK, LockOK, Holds
  <2>4. ASSUME NEW p \in Pids, WriteLock(p) PROVE StartsInv'
    <3>1. /\ proc[p] = "clear" /\ lockPid' = p /\ overlapped' = overlapped
          /\ proc' = [proc EXCEPT ![p] = "running"]
      BY <2>4 DEF WriteLock
    <3> QED
      BY <3>1 DEF StartsInv, ProcOK, ProcStates, LockOK, Holds
  <2>5. ASSUME NEW p \in Pids, NEW code, Unlink(p, code) PROVE StartsInv'
    <3>1. /\ proc[p] = "releasing" /\ lockPid' = NoPid /\ overlapped' = overlapped
          /\ proc' = [proc EXCEPT ![p] = "none"]
      BY <2>5 DEF Unlink, Leaves
    <3> QED
      BY <3>1 DEF StartsInv, ProcOK, ProcStates, LockOK, Holds
  <2>6. ASSUME NEW p \in Pids, NEW code, EndSession(p, code) PROVE StartsInv'
    <3>1. /\ proc[p] = "running" /\ lockPid' = lockPid /\ overlapped' = overlapped
          /\ \E at \in {"none", "releasing"} : proc' = [proc EXCEPT ![p] = at]
      BY <2>6 DEF EndSession, Leaves
    <3> QED
      BY <3>1, ProcsLeave DEF StartsInv, ProcOK, ProcStates
  <2>7. ASSUME NEW p \in Pids, Refuse(p) \/ Killed(p) \/ KidTerminated(p) PROVE StartsInv'
    <3>1. /\ lockPid' = lockPid /\ overlapped' = overlapped
          /\ proc' = [proc EXCEPT ![p] = "none"]
      BY <2>7 DEF Refuse, Killed, KidTerminated, Leaves
    <3> QED
      BY <3>1, ProcsLeave DEF StartsInv, ProcOK, ProcStates
  <2>8. ASSUME NEW p \in Pids, OthersRun(p) \/ SpawnKid(p) \/ \E j \in Jobs : TakeJob(j, p) PROVE StartsInv'
    <3>1. /\ lockPid' = lockPid /\ overlapped' = overlapped
          /\ \E at \in {"none", "unrelated", "starting"} : proc' = [proc EXCEPT ![p] = at]
      BY <2>8 DEF OthersRun, SpawnKid, TakeJob
    <3> QED
      BY <3>1, ProcsLeave DEF StartsInv, ProcOK, ProcStates
  <2>9. ASSUME NEW alone \in BOOLEAN, WorkerKilled(alone) PROVE StartsInv'
    <3>1. /\ lockPid' = lockPid /\ overlapped' = overlapped
          /\ proc' = proc \/ proc' = [proc EXCEPT ![child] = "none"]
      BY <2>9 DEF WorkerKilled
    <3> QED
      BY <3>1, ProcsLeave DEF StartsInv, ProcOK, ProcStates
  <2> QED
    BY <2>1, <2>2, <2>3, <2>4, <2>5, <2>6, <2>7, <2>8, <2>9 DEF StartsNext
<1> QED
  BY <1>1, <1>2

\* OneSession: at most one session trades, whoever starts, retries, dies or
\* reuses a pid, unless two were between the lock's check and its write.
THEOREM OneSessionTrades == StartsSpec => []OneSession
<1>1. StartsInv => OneSession
  <2> SUFFICES ASSUME StartsInv, ~overlapped PROVE Cardinality(Running) <= 1
    BY DEF OneSession
  <2>1. Running \subseteq {lockPid}
    BY DEF StartsInv, LockOK, Holds, Running
  <2>2. IsFiniteSet({lockPid}) /\ Cardinality({lockPid}) = 1
    BY FS_Singleton
  <2>3. Cardinality(Running) \in Nat /\ Cardinality(Running) <= Cardinality({lockPid})
    BY <2>1, <2>2, FS_Subset, FS_CardinalityType
  <2> QED
    BY <2>2, <2>3
<1> QED
  BY <1>1, StartsInvariant, PTL DEF StartsSpec

-----------------------------------------------------------------------------
(* The ticks: records and functions after a step.                          *)

Stages == {"idle", "decide", "enter", "exit", "opening", "closing", "leg1", "leg2",
           "compensate", "close1", "close2", "close", "append", "sync", "end", "dead"}
Ticks == [at : Stages, leg : Legs]
CallStages == {"none", "market", "exit", "place", "wait", "cancel", "read", "flatten",
               "filled", "unfilled", "thrown"}
Attempts4 == 0..MAKER_ONLY_AGGRESSIVE_MAX_RETRIES
Calls == [at : CallStages, seen : 0..Lot, attempt : Attempts4]
OrderStates == [status : {"none", "open", "filled", "cancelled"}, done : 0..Lot]

Typed ==
    /\ mode \in Modes /\ held \in [Legs -> Int] /\ order \in OrderStates
    /\ closes \in 0..MaxCloses /\ call \in Calls /\ mishaps \subseteq MishapKinds
    /\ strategy \in Strategies /\ tick \in Ticks /\ tracked \in [Legs -> 0..Cap]
    /\ hedge \in Hedges /\ saved \in 0..Lot /\ told \in BOOLEAN /\ known \in [Legs -> Nat]

LEMMA TypedIsTypeOK == Typed <=> TypeOK
  BY DEF Typed, TypeOK, ExecutionTypeOK, Ticks, Stages, Calls, CallStages, Attempts4, OrderStates, Answers

TickIs(at) == tick' \in Ticks /\ tick'.at = at /\ tick'.leg = tick.leg

LEMMA TickGoes ==
    ASSUME tick \in Ticks, NEW at \in Stages, Goes(at)
    PROVE  TickIs(at)
  BY DEF Goes, TickIs, Ticks

LEMMA TickFields == tick \in Ticks => tick.at \in Stages /\ tick.leg \in Legs
  BY DEF Ticks

CallIs(at, seen) == call' \in Calls /\ call'.at = at /\ call'.seen = seen

LEMMA CallMoves ==
    ASSUME call \in Calls, NEW at \in CallStages, CallGoes(at)
    PROVE  CallIs(at, call.seen)
  BY DEF CallGoes, CallIs, Calls

LEMMA CallFields == call \in Calls => call.at \in CallStages /\ call.seen \in 0..Lot /\ call.attempt \in Attempts4
  BY DEF Calls

LEMMA NoCallFields == NoCall \in Calls /\ NoCall.at = "none" /\ NoCall.seen = 0
  BY ExecutionAssumption DEF NoCall, Calls, CallStages, Attempts4, MAKER_ONLY_AGGRESSIVE_MAX_RETRIES

LEMMA OrderFields ==
    order \in OrderStates => /\ order.status \in {"none", "open", "filled", "cancelled"}
                             /\ order.done \in 0..Lot
  BY DEF OrderStates

LEMMA TickMishap ==
    ASSUME NEW kind, Mishap(kind)
    PROVE  mishaps' = mishaps \cup {kind}
  BY DEF Mishap

\* An order moves one leg's units and leaves the other's.
Moves(leg, units) ==
    /\ held' \in [Legs -> Int]
    /\ held'[leg] = units
    /\ \A other \in Legs \ {leg} : held'[other] = held[other]

LEMMA HeldMoves ==
    ASSUME held \in [Legs -> Int], NEW leg \in Legs, NEW qty \in Int,
           held' = [held EXCEPT ![leg] = @ + qty]
    PROVE  Moves(leg, held[leg] + qty)
  BY DEF Moves

\* What a reduce-only order leaves of held units.
Left(units, qty) == IF units > qty THEN units - qty ELSE 0

LEMMA LeftFacts ==
    ASSUME NEW units \in Int, NEW qty \in Nat, units > 0
    PROVE  /\ Left(units, qty) = units + (-Least(qty, units))
           /\ -Least(qty, units) \in Int
           /\ Left(units, qty) \in Nat /\ Left(units, qty) <= units
           /\ Left(units, qty) <= units - qty \/ Left(units, qty) = 0
  BY DEF Left, Least

\* What an order of a tick may do to the mishaps, and what the tick that
\* placed it leaves alone.
OrderedOnly ==
    /\ UNCHANGED <<mode, order, closes, call, strategy, saved, known>>
    /\ mishaps' = mishaps \/ mishaps' = mishaps \cup {"lost"}

\* The tick has told the operator of a failure: whatever was executed, it is
\* over at the stage "at".
Failed(at) ==
    /\ TickIs(at) /\ told' = TRUE /\ UNCHANGED <<tracked, hedge>>
    /\ held' \in [Legs -> Int]

-----------------------------------------------------------------------------
(* What each step of the two-leg strategies, liquidation-cascade and       *)
(* llm-managed does.                                                       *)

LEMMA Leg1Effect ==
    ASSUME Typed, NEW name, TwoLegEnters(name), tick.at = "leg1"
    PROVE  /\ OrderedOnly /\ strategy = name
           /\ \/ Failed("end")
              \/ /\ TickIs("leg2") /\ told' = told /\ UNCHANGED <<tracked, hedge>>
                 /\ Moves(1, held[1] + Lot)
<1>1. tick \in Ticks /\ held \in [Legs -> Int] /\ 1 \in Legs /\ Lot \in Int
      /\ {"leg2", "end"} \subseteq Stages
  BY ExecutionAssumption DEF Typed, Legs, Stages
<1>2. /\ OrderedOnly /\ strategy = name /\ UNCHANGED <<tracked, hedge>>
      /\ \/ held' = [held EXCEPT ![1] = @ + Lot] /\ Goes("leg2") /\ told' = told
         \/ /\ held' = held \/ held' = [held EXCEPT ![1] = @ + Lot]
            /\ Goes("end") /\ told' = TRUE
  BY TickMishap DEF TwoLegEnters, Order, Quietly, Alerts, OrderedOnly
<1> QED
  BY <1>1, <1>2, TickGoes, HeldMoves DEF Failed, Moves

LEMMA Leg2Effect ==
    ASSUME Typed, NEW name, TwoLegEnters(name), tick.at = "leg2"
    PROVE  /\ OrderedOnly /\ strategy = name /\ hedge' = hedge /\ told' = told
           /\ \/ TickIs("compensate") /\ tracked' = tracked /\ held' \in [Legs -> Int]
              \/ /\ TickIs("end") /\ tracked' = [leg \in Legs |-> Lot]
                 /\ Moves(2, held[2] + Lot)
<1>1. tick \in Ticks /\ held \in [Legs -> Int] /\ 2 \in Legs /\ Lot \in Int
      /\ {"compensate", "end"} \subseteq Stages
  BY ExecutionAssumption DEF Typed, Legs, Stages
<1>2. /\ OrderedOnly /\ strategy = name /\ hedge' = hedge /\ told' = told
      /\ \/ /\ held' = [held EXCEPT ![2] = @ + Lot] /\ Goes("end")
            /\ tracked' = [leg \in Legs |-> Lot]
         \/ /\ held' = held \/ held' = [held EXCEPT ![2] = @ + Lot]
            /\ Goes("compensate") /\ tracked' = tracked
  BY TickMishap DEF TwoLegEnters, Order, Quietly, OrderedOnly
<1> QED
  BY <1>1, <1>2, TickGoes, HeldMoves DEF Moves

LEMMA CompensateEffect ==
    ASSUME Typed, NEW name, TwoLegEnters(name), tick.at = "compensate"
    PROVE  OrderedOnly /\ strategy = name /\ Failed("end")
<1>1. tick \in Ticks /\ held \in [Legs -> Int] /\ 1 \in Legs /\ "end" \in Stages
      /\ (held[1] > 0 => -Least(Lot, held[1]) \in Int)
  BY ExecutionAssumption DEF Typed, Legs, Stages, Least
<1>2. /\ OrderedOnly /\ strategy = name /\ UNCHANGED <<tracked, hedge>>
      /\ \/ held' = held
         \/ held[1] > 0 /\ held' = [held EXCEPT ![1] = @ + (-Least(Lot, held[1]))]
      /\ Goes("end") /\ told' = TRUE
  BY TickMishap DEF TwoLegEnters, Order, Reduce, Alerts, OrderedOnly
<1> QED
  BY <1>1, <1>2, TickGoes, HeldMoves DEF Failed, Moves

LEMMA Close1Effect ==
    ASSUME Typed, NEW name, NEW r \in BOOLEAN, TwoLegExits(name, r), tick.at = "close1"
    PROVE  /\ OrderedOnly /\ strategy = name
           /\ \/ Failed("close2")
              \/ /\ TickIs("close2") /\ told' = told /\ UNCHANGED <<tracked, hedge>>
                 /\ held[1] > 0 /\ Moves(1, Left(held[1], Lot))
<1>1. tick \in Ticks /\ held \in [Legs -> Int] /\ 1 \in Legs /\ "close2" \in Stages /\ Lot \in Nat
      /\ held[1] \in Int
  BY ExecutionAssumption DEF Typed, Legs, Stages
<1>2. held[1] > 0 => /\ -Least(Lot, held[1]) \in Int
                     /\ Left(held[1], Lot) = held[1] + (-Least(Lot, held[1]))
  BY <1>1, LeftFacts
<1>3. /\ OrderedOnly /\ strategy = name /\ UNCHANGED <<tracked, hedge>> /\ Goes("close2")
      /\ \/ /\ told' = told /\ held[1] > 0
            /\ held' = [held EXCEPT ![1] = @ + (-Least(Lot, held[1]))]
         \/ /\ \/ held' = held
               \/ held[1] > 0 /\ held' = [held EXCEPT ![1] = @ + (-Least(Lot, held[1]))]
            /\ told' = TRUE
  BY TickMishap DEF TwoLegExits, Order, Reduce, Alerts, Quietly, OrderedOnly
<1>4. held[1] > 0 /\ held' = [held EXCEPT ![1] = @ + (-Least(Lot, held[1]))]
         => Moves(1, Left(held[1], Lot)) /\ held' \in [Legs -> Int]
  BY <1>1, <1>2, HeldMoves DEF Moves
<1> QED
  BY <1>1, <1>3, <1>4, TickGoes DEF Failed

LEMMA Close2Effect ==
    ASSUME Typed, NEW name, NEW r \in BOOLEAN, TwoLegExits(name, r), tick.at = "close2"
    PROVE  /\ OrderedOnly /\ strategy = name /\ TickIs("append") /\ hedge' = hedge
           /\ tracked' = Nothing /\ held' \in [Legs -> Int]
           /\ \/ told' = TRUE
              \/ /\ told' = told
                 /\ \E left \in Int : Moves(2, left) /\ (left <= held[2] - Lot \/ left = 0)
<1>1. tick \in Ticks /\ held \in [Legs -> Int] /\ 2 \in Legs /\ "append" \in Stages /\ Lot \in Nat
      /\ held[2] \in Int
  BY ExecutionAssumption DEF Typed, Legs, Stages
<1>2. held[2] > 0 => /\ -Least(Lot, held[2]) \in Int
                     /\ Left(held[2], Lot) = held[2] + (-Least(Lot, held[2]))
                     /\ Left(held[2], Lot) \in Int
                     /\ Left(held[2], Lot) <= held[2] - Lot \/ Left(held[2], Lot) = 0
  BY <1>1, LeftFacts
<1>3. /\ OrderedOnly /\ strategy = name /\ hedge' = hedge /\ Goes("append") /\ tracked' = Nothing
      /\ told' = told \/ told' = TRUE
      /\ \/ held' = [held EXCEPT ![2] = @ + (-Lot)]
         \/ held[2] > 0 /\ held' = [held EXCEPT ![2] = @ + (-Least(Lot, held[2]))]
         \/ held' = held /\ told' = TRUE
  BY TickMishap DEF TwoLegExits, Order, Reduce, Alerts, Quietly, OrderedOnly
<1>4. held[2] > 0 /\ held' = [held EXCEPT ![2] = @ + (-Least(Lot, held[2]))]
         => Moves(2, Left(held[2], Lot)) /\ held' \in [Legs -> Int]
  BY <1>1, <1>2, HeldMoves DEF Moves
<1>5. held' = [held EXCEPT ![2] = @ + (-Lot)]
         => Moves(2, held[2] + (-Lot)) /\ held' \in [Legs -> Int]
  BY <1>1, HeldMoves DEF Moves
<1>6. held[2] + (-Lot) \in Int /\ held[2] + (-Lot) <= held[2] - Lot
  BY <1>1
<1> QED
  BY <1>1, <1>2, <1>3, <1>4, <1>5, <1>6, TickGoes

LEMMA CascadeEntryEffect ==
    ASSUME Typed, CascadeEntry
    PROVE  /\ OrderedOnly /\ tick.at = "decide" /\ strategy = "liquidation-cascade"
           /\ tick' \in Ticks /\ tick'.at \in {"decide", "end"} /\ hedge' = hedge
           /\ \/ held' = held /\ tracked' = tracked /\ told' = told
              \/ told' = TRUE /\ tracked' = tracked /\ held' \in [Legs -> Int]
              \/ /\ told' = told /\ tracked = Nothing
                 /\ \E leg \in Legs : /\ tracked' = [tracked EXCEPT ![leg] = Lot]
                                      /\ Moves(leg, held[leg] + Lot)
<1>1. /\ tick \in Ticks /\ held \in [Legs -> Int] /\ Lot \in Int /\ tick.leg \in Legs
      /\ "end" \in Stages
  BY ExecutionAssumption, TickFields DEF Typed, Stages
<1>2. Next2(tick.leg) \in Ticks /\ Next2(tick.leg).at \in {"decide", "end"}
  BY DEF Next2, Ticks, Stages, Legs
<1>3. /\ OrderedOnly /\ tick.at = "decide" /\ strategy = "liquidation-cascade" /\ hedge' = hedge
      /\ tracked = Nothing
      /\ \/ tick' = Next2(tick.leg) /\ held' = held /\ tracked' = tracked /\ told' = told
         \/ /\ held' = [held EXCEPT ![tick.leg] = @ + Lot] /\ Goes("end") /\ told' = told
            /\ tracked' = [tracked EXCEPT ![tick.leg] = Lot]
         \/ /\ held' = held \/ held' = [held EXCEPT ![tick.leg] = @ + Lot]
            /\ tick' = Next2(tick.leg) /\ told' = TRUE /\ tracked' = tracked
  BY TickMishap DEF CascadeEntry, Decides, Order, Quietly, OrderedOnly
<1>4. held' = [held EXCEPT ![tick.leg] = @ + Lot]
         => Moves(tick.leg, held[tick.leg] + Lot) /\ held' \in [Legs -> Int]
  BY <1>1, HeldMoves DEF Moves
<1>5. Goes("end") => tick' \in Ticks /\ tick'.at = "end"
  BY <1>1, TickGoes DEF TickIs
<1> QED
  BY <1>1, <1>2, <1>3, <1>4, <1>5

LEMMA CascadeCloseEffect ==
    ASSUME Typed, CascadeClose
    PROVE  /\ OrderedOnly /\ tick.at = "close" /\ strategy = "liquidation-cascade" /\ hedge' = hedge
           /\ \/ Failed("end")
              \/ /\ TickIs("append") /\ told' = told
                 /\ \E leg \in Legs : /\ tracked' = [tracked EXCEPT ![leg] = 0]
                                      /\ tracked[leg] > 0 /\ held[leg] > 0
                                      /\ Moves(leg, Left(held[leg], Lot))
<1>1. tick \in Ticks /\ held \in [Legs -> Int] /\ Lot \in Nat /\ {"append", "end"} \subseteq Stages
  BY ExecutionAssumption DEF Typed, Stages
<1>2. PICK leg \in Legs :
         /\ OrderedOnly /\ tick.at = "close" /\ strategy = "liquidation-cascade" /\ hedge' = hedge
         /\ tracked[leg] > 0
         /\ \/ /\ held[leg] > 0 /\ held' = [held EXCEPT ![leg] = @ + (-Least(Lot, held[leg]))]
               /\ Goes("append") /\ told' = told /\ tracked' = [tracked EXCEPT ![leg] = 0]
            \/ /\ \/ held' = held
                  \/ held[leg] > 0 /\ held' = [held EXCEPT ![leg] = @ + (-Least(Lot, held[leg]))]
               /\ Goes("end") /\ told' = TRUE /\ tracked' = tracked
  BY TickMishap DEF CascadeClose, Order, Reduce, Quietly, Alerts, OrderedOnly
<1>3. held[leg] \in Int
  BY <1>1
<1>4. held[leg] > 0 /\ held' = [held EXCEPT ![leg] = @ + (-Least(Lot, held[leg]))]
         => Moves(leg, Left(held[leg], Lot)) /\ held' \in [Legs -> Int]
  BY <1>1, <1>3, LeftFacts, HeldMoves DEF Moves
<1> QED
  BY <1>1, <1>2, <1>4, TickGoes DEF Failed

\* An order of llm-managed on one leg, and what the session then believes.
LlmBuys(leg, qty, units) ==
    /\ TickIs("end") /\ told' = told
    /\ tracked' = [tracked EXCEPT ![leg] = units]
    /\ Moves(leg, held[leg] + qty)

LEMMA LlmOpenEffect ==
    ASSUME Typed, LlmOpen \/ LlmScaleIn
    PROVE  /\ OrderedOnly /\ tick.at = "decide" /\ strategy = "llm-managed" /\ hedge' = hedge
           /\ \/ Failed("end")
              \/ tracked[1] = 0 /\ LlmBuys(1, Lot, Lot)
              \/ tracked[1] + 1 <= Cap /\ LlmBuys(1, 1, tracked[1] + 1)
<1>1. /\ tick \in Ticks /\ held \in [Legs -> Int] /\ Lot \in Int /\ 1 \in Legs /\ 1 \in Int
      /\ {"append", "end"} \subseteq Stages
  BY ExecutionAssumption DEF Typed, Stages, Legs
<1>2. CASE LlmOpen
  <2>1. /\ OrderedOnly /\ tick.at = "decide" /\ strategy = "llm-managed" /\ hedge' = hedge
        /\ tracked[1] = 0 /\ Goes("end")
        /\ \/ /\ held' = [held EXCEPT ![1] = @ + Lot] /\ told' = told
              /\ tracked' = [tracked EXCEPT ![1] = Lot]
           \/ /\ held' = held \/ held' = [held EXCEPT ![1] = @ + Lot]
              /\ told' = TRUE /\ tracked' = tracked
    BY <1>2, TickMishap DEF LlmOpen, Decides, Order, Quietly, Alerts, OrderedOnly
  <2>2. held' = [held EXCEPT ![1] = @ + Lot] => Moves(1, held[1] + Lot) /\ held' \in [Legs -> Int]
    BY <1>1, HeldMoves DEF Moves
  <2> QED
    BY <1>1, <2>1, <2>2, TickGoes DEF Failed, LlmBuys
<1>3. CASE LlmScaleIn
  <2>1. /\ OrderedOnly /\ tick.at = "decide" /\ strategy = "llm-managed" /\ hedge' = hedge
        /\ tracked[1] + 1 <= Cap /\ Goes("end")
        /\ \/ /\ held' = [held EXCEPT ![1] = @ + 1] /\ told' = told
              /\ tracked' = [tracked EXCEPT ![1] = @ + 1]
           \/ /\ held' = held \/ held' = [held EXCEPT ![1] = @ + 1]
              /\ told' = TRUE /\ tracked' = tracked
    BY <1>3, TickMishap DEF LlmScaleIn, Decides, Order, Quietly, Alerts, OrderedOnly
  <2>2. held' = [held EXCEPT ![1] = @ + 1] => Moves(1, held[1] + 1) /\ held' \in [Legs -> Int]
    BY <1>1, HeldMoves DEF Moves
  <2> QED
    BY <1>1, <2>1, <2>2, TickGoes DEF Failed, LlmBuys
<1> QED
  BY <1>2, <1>3

LEMMA LlmCloseEffect ==
    ASSUME Typed, LlmClose
    PROVE  /\ OrderedOnly /\ tick.at = "decide" /\ strategy = "llm-managed" /\ hedge' \in Hedges
           /\ \/ Failed("end")
              \/ /\ TickIs("append") /\ told' = told /\ tracked' \in [Legs -> 0..Cap]
                 /\ \E qty \in 1..tracked[1] :
                       /\ tracked'[1] = tracked[1] - qty
                       /\ held[1] > 0 /\ Moves(1, Left(held[1], qty))
<1>1. /\ tick \in Ticks /\ held \in [Legs -> Int] /\ Lot \in Nat /\ {"append", "end"} \subseteq Stages
      /\ tracked \in [Legs -> 0..Cap] /\ 1 \in Legs /\ Legs = {1, 2} /\ tracked[1] \in 0..Cap
      /\ Cap \in Nat /\ held[1] \in Int /\ hedge \in Hedges /\ "none" \in Hedges
  BY ExecutionAssumption DEF Typed, Stages, Legs, Cap, Hedges
<1>2. PICK qty \in 1..tracked[1] :
         /\ OrderedOnly /\ tick.at = "decide" /\ strategy = "llm-managed"
         /\ \/ /\ held[1] > 0 /\ held' = [held EXCEPT ![1] = @ + (-Least(qty, held[1]))]
               /\ Goes("append") /\ told' = told
               /\ tracked' = [tracked EXCEPT ![1] = @ - qty, ![2] = IF qty = tracked[1] THEN 0 ELSE @]
               /\ hedge' = IF qty = tracked[1] THEN "none" ELSE hedge
            \/ /\ \/ held' = held
                  \/ held[1] > 0 /\ held' = [held EXCEPT ![1] = @ + (-Least(qty, held[1]))]
               /\ Goes("end") /\ told' = TRUE /\ tracked' = tracked /\ hedge' = hedge
  BY TickMishap DEF LlmClose, Decides, Order, Reduce, Quietly, Alerts, OrderedOnly
<1>3. held[1] > 0 /\ held' = [held EXCEPT ![1] = @ + (-Least(qty, held[1]))]
         => Moves(1, Left(held[1], qty)) /\ held' \in [Legs -> Int]
  <2>1. qty \in Nat
    BY <1>1
  <2> QED
    BY <1>1, <2>1, LeftFacts, HeldMoves DEF Moves
<1>4. tracked' = [tracked EXCEPT ![1] = @ - qty, ![2] = IF qty = tracked[1] THEN 0 ELSE @]
         => tracked' \in [Legs -> 0..Cap] /\ tracked'[1] = tracked[1] - qty
  BY <1>1, <1>2
<1> QED
  BY <1>1, <1>2, <1>3, <1>4, TickGoes DEF Failed

LEMMA LlmHedgeEffect ==
    ASSUME Typed, LlmOpenHedge \/ LlmCloseHedge
    PROVE  /\ OrderedOnly /\ tick.at = "decide" /\ strategy = "llm-managed"
           /\ TickIs("end") /\ held' \in [Legs -> Int] /\ tracked' \in [Legs -> 0..Cap]
           /\ tracked'[1] = tracked[1] /\ hedge' \in Hedges
           /\ told' = TRUE \/ (told' = told /\ held'[1] <= held[1])
<1>1. /\ tick \in Ticks /\ held \in [Legs -> Int] /\ "end" \in Stages /\ Legs = {1, 2}
      /\ tracked \in [Legs -> 0..Cap] /\ 1 \in 0..Cap /\ 0 \in 0..Cap
      /\ hedge \in Hedges /\ {"none", "own", "other"} \subseteq Hedges
  BY ExecutionAssumption DEF Typed, Stages, Legs, Cap, Hedges
<1>2. \A qty \in Int : held' = [held EXCEPT ![1] = @ + qty]
         => held' \in [Legs -> Int] /\ held'[1] = held[1] + qty
  BY <1>1
<1>3. \A qty \in Int : held' = [held EXCEPT ![2] = @ + qty]
         => held' \in [Legs -> Int] /\ held'[1] = held[1]
  BY <1>1
<1>4. \A units \in 0..Cap : tracked' = [tracked EXCEPT ![2] = units]
         => tracked' \in [Legs -> 0..Cap] /\ tracked'[1] = tracked[1]
  BY <1>1
<1>5. CASE LlmOpenHedge
  <2>1. /\ OrderedOnly /\ tick.at = "decide" /\ strategy = "llm-managed" /\ Goes("end")
        /\ \/ /\ held' = [held EXCEPT ![1] = @ + (-1)] /\ told' = told
              /\ hedge' = "own" /\ tracked' = tracked
           \/ /\ held' = [held EXCEPT ![2] = @ + 1] /\ told' = told
              /\ hedge' = "other" /\ tracked' = [tracked EXCEPT ![2] = 1]
           \/ /\ \/ held' = held
                 \/ held' = [held EXCEPT ![1] = @ + (-1)]
                 \/ held' = [held EXCEPT ![2] = @ + 1]
              /\ told' = TRUE /\ tracked' = tracked /\ hedge' = hedge
    BY <1>5, TickMishap DEF LlmOpenHedge, Decides, Order, Quietly, Alerts, OrderedOnly
  <2>2. TickIs("end")
    BY <1>1, <2>1, TickGoes
  <2>3. held' \in [Legs -> Int] /\ tracked' \in [Legs -> 0..Cap] /\ tracked'[1] = tracked[1] /\ hedge' \in Hedges
    BY <1>1, <1>2, <1>3, <1>4, <2>1
  <2>4. told' = TRUE \/ (told' = told /\ held'[1] <= held[1])
    <3>1. held[1] \in Int
      BY <1>1
    <3>2. CASE told' = TRUE
      BY <3>2
    <3>3. CASE held' = [held EXCEPT ![1] = @ + (-1)] /\ told' = told
      BY <1>2, <3>1, <3>3
    <3>4. CASE held' = [held EXCEPT ![2] = @ + 1] /\ told' = told
      BY <1>3, <3>1, <3>4
    <3> QED
      BY <2>1, <3>2, <3>3, <3>4
  <2> QED
    BY <2>1, <2>2, <2>3, <2>4
<1>6. CASE LlmCloseHedge
  <2>1. /\ OrderedOnly /\ tick.at = "decide" /\ strategy = "llm-managed" /\ Goes("end")
        /\ \/ /\ held[2] > 0 /\ held' = [held EXCEPT ![2] = @ + (-Least(1, held[2]))] /\ told' = told
              /\ hedge' = "none" /\ tracked' = [tracked EXCEPT ![2] = 0]
           \/ /\ \/ held' = held
                 \/ held[2] > 0 /\ held' = [held EXCEPT ![2] = @ + (-Least(1, held[2]))]
              /\ told' = TRUE /\ tracked' = tracked /\ hedge' = hedge
    BY <1>6, TickMishap DEF LlmCloseHedge, Decides, Order, Reduce, Quietly, Alerts, OrderedOnly
  <2>2. TickIs("end")
    BY <1>1, <2>1, TickGoes
  <2>3. held[2] \in Int /\ held[1] \in Int
    BY <1>1
  <2>4. held[2] > 0 => -Least(1, held[2]) \in Int
    BY <2>3 DEF Least
  <2>5. held' \in [Legs -> Int] /\ tracked' \in [Legs -> 0..Cap] /\ tracked'[1] = tracked[1] /\ hedge' \in Hedges
    BY <1>1, <1>3, <1>4, <2>1, <2>4
  <2>6. told' = TRUE \/ (told' = told /\ held'[1] <= held[1])
    BY <1>3, <2>1, <2>3, <2>4
  <2> QED
    BY <2>1, <2>2, <2>5, <2>6
<1> QED
  BY <1>5, <1>6

-----------------------------------------------------------------------------
(* What the steps around executeTrade, and those inside it, do.            *)

BookOnly == UNCHANGED <<strategy, tracked, hedge, told, known>>

LEMMA StartEffect ==
    ASSUME Typed, StartTick
    PROVE  /\ tick.at = "idle" /\ tick' \in Ticks /\ tick'.at = "decide"
           /\ BookOnly /\ UNCHANGED execution /\ saved' = saved
  BY TickFields DEF StartTick, GoesTo, OnlyTick, BookOnly, Typed, Ticks, Stages, Legs

LEMMA EndEffect ==
    ASSUME Typed, EndTick
    PROVE  /\ tick.at = "end" /\ TickIs("idle") /\ told' = FALSE
           /\ known' = [leg \in Legs |-> IF told THEN Untracked(leg) ELSE Least(known[leg], Untracked(leg))]
           /\ UNCHANGED <<execution, strategy, tracked, hedge, saved>>
  BY TickGoes DEF EndTick, Typed, Stages

\* A decision: the stages it may lead to.
LEMMA DecideEffect ==
    ASSUME Typed, \/ AltDecide \/ BollingerDecide \/ BasisDecide \/ CalendarDecide \/ PairsDecide
                  \/ CascadeHold \/ LlmHold
    PROVE  /\ BookOnly /\ UNCHANGED execution /\ saved' = saved /\ tick.at = "decide"
           /\ tick' \in Ticks
           /\ \/ tick'.at = "end"
              \/ strategy \in SingleLeg /\ tracked[1] > 0 /\ tick'.at = "exit"
              \/ strategy \in SingleLeg /\ tracked[1] = 0 /\ tick'.at = "enter"
              \/ strategy \in TwoLegs /\ tracked = Nothing /\ tick'.at = "leg1"
              \/ strategy \in TwoLegs /\ tracked # Nothing /\ tick'.at = "close1"
              \/ strategy = "liquidation-cascade" /\ tick'.at = "close"
<1>1. tick \in Ticks /\ {"end", "exit", "enter", "leg1", "close1", "close"} \subseteq Stages
  BY DEF Typed, Stages
<1>2. OnlyTick => BookOnly /\ UNCHANGED execution /\ saved' = saved
  BY DEF OnlyTick, BookOnly
<1>3. CASE AltDecide \/ BollingerDecide
  BY <1>1, <1>2, <1>3, TickGoes
     DEF AltDecide, BollingerDecide, SingleLegDecides, Decides, SingleLeg, TickIs
<1>4. CASE BasisDecide \/ CalendarDecide \/ PairsDecide
  BY <1>1, <1>2, <1>4, TickGoes
     DEF BasisDecide, CalendarDecide, PairsDecide, TwoLegDecides, Decides, TwoLegs, TickIs
<1>5. CASE CascadeHold \/ LlmHold
  BY <1>1, <1>2, <1>5, TickGoes DEF CascadeHold, LlmHold, Decides, TickIs
<1> QED
  BY <1>3, <1>4, <1>5

\* The tick calls executeTrade, or a check stops it.
LEMMA CallEffect ==
    ASSUME Typed, AltEntry \/ BollingerEntry \/ AltExit \/ BollingerExit
    PROVE  /\ UNCHANGED <<mode, held, order, closes, mishaps>> /\ BookOnly /\ saved' = saved
           /\ strategy \in SingleLeg
           /\ \/ tick.at = "enter" /\ TickIs("end") /\ call' = call
              \/ tick.at = "enter" /\ TickIs("opening") /\ (CallIs("market", 0) \/ CallIs("place", 0))
              \/ tick.at = "exit" /\ TickIs("closing") /\ CallIs("exit", 0)
<1>1. /\ UNCHANGED <<mode, held, order, closes, mishaps>> /\ BookOnly /\ saved' = saved
      /\ strategy \in SingleLeg
      /\ \/ tick.at = "enter" /\ Goes("end") /\ call' = call
         \/ tick.at = "enter" /\ Goes("opening") /\ call' = EntryCall
         \/ tick.at = "exit" /\ Goes("closing") /\ call' = [NoCall EXCEPT !.at = "exit"]
  BY DEF AltEntry, BollingerEntry, AltExit, BollingerExit, SingleLegEnters, SingleLegExits,
         SingleLeg, BookOnly
<1>2. ASSUME NEW at \in CallStages, call' = [NoCall EXCEPT !.at = at] PROVE CallIs(at, 0)
  BY <1>2, NoCallFields DEF CallIs, Calls
<1>3. {"market", "place", "exit"} \subseteq CallStages
  BY DEF CallStages
<1>4. EntryCall = [NoCall EXCEPT !.at = "market"] \/ EntryCall = [NoCall EXCEPT !.at = "place"]
  BY DEF EntryCall
<1>5. /\ call' = EntryCall => CallIs("market", 0) \/ CallIs("place", 0)
      /\ call' = [NoCall EXCEPT !.at = "exit"] => CallIs("exit", 0)
  <2>1. CASE EntryCall = [NoCall EXCEPT !.at = "market"]
    BY <1>2, <1>3, <2>1
  <2>2. CASE EntryCall = [NoCall EXCEPT !.at = "place"]
    BY <1>2, <1>3, <2>2
  <2> QED
    BY <1>2, <1>3, <1>4, <2>1, <2>2
<1>6. tick \in Ticks /\ {"end", "opening", "closing"} \subseteq Stages
  BY DEF Typed, Stages
<1> QED
  BY <1>1, <1>5, <1>6, TickGoes

LEMMA AnsweredEffect ==
    ASSUME Typed, Answered
    PROVE  /\ UNCHANGED <<mode, held, order, closes, mishaps, strategy, hedge, saved, told, known>>
           /\ call' = NoCall
           /\ \/ /\ call.at = "filled" /\ tick.at = "opening" /\ TickIs("sync")
                 /\ tracked' = [tracked EXCEPT ![1] = Lot]
              \/ /\ call.at = "filled" /\ tick.at = "closing" /\ TickIs("append")
                 /\ tracked' = [tracked EXCEPT ![1] = 0]
              \/ /\ call.at = "unfilled" /\ tick.at \in {"opening", "closing"} /\ TickIs("end")
                 /\ tracked' = tracked
              \/ call.at = "thrown" /\ TickIs("dead") /\ tracked' = tracked
<1>1. tick \in Ticks /\ {"sync", "append", "end", "dead"} \subseteq Stages
  BY DEF Typed, Stages
<1>2. /\ UNCHANGED <<mode, held, order, closes, mishaps, strategy, hedge, saved, told, known>>
      /\ call' = NoCall /\ tick.at \in {"opening", "closing"} /\ call.at \in {"filled", "unfilled", "thrown"}
  BY DEF Answered, Answers
<1>3. CASE call.at = "filled" /\ tick.at = "opening"
  BY <1>1, <1>2, <1>3, TickGoes DEF Answered
<1>4. CASE call.at = "filled" /\ tick.at = "closing"
  BY <1>1, <1>2, <1>4, TickGoes DEF Answered
<1>5. CASE call.at = "unfilled"
  BY <1>1, <1>2, <1>5, TickGoes DEF Answered
<1>6. CASE call.at = "thrown"
  BY <1>1, <1>2, <1>6, TickGoes DEF Answered
<1> QED
  BY <1>2, <1>3, <1>4, <1>5, <1>6

LEMMA WriteEffect ==
    ASSUME Typed, AppendClosed \/ SyncSnapshot
    PROVE  /\ UNCHANGED <<mode, held, order, closes, call>> /\ BookOnly
           /\ \/ tick.at = "append" /\ strategy # "liquidation-cascade" /\ TickIs("sync") /\ saved' = saved /\ mishaps' = mishaps
              \/ tick.at = "append" /\ strategy = "liquidation-cascade" /\ TickIs("end") /\ saved' = saved /\ mishaps' = mishaps
              \/ /\ tick.at = "sync" /\ TickIs("end") /\ mishaps' = mishaps
                 /\ saved' = IF strategy \in SingleLeg THEN tracked[1] ELSE 0
              \/ tick.at \in {"append", "sync"} /\ TickIs("dead") /\ saved' = saved /\ mishaps' = mishaps \cup {"write"}
<1>1. tick \in Ticks /\ {"sync", "end", "dead"} \subseteq Stages
  BY DEF Typed, Stages
<1> QED
  BY <1>1, TickGoes, TickMishap DEF AppendClosed, SyncSnapshot, BookOnly

\* The steps of executeTrade.
CallTyped == call' \in Calls /\ mishaps' \subseteq MishapKinds
CallEnds(at) == call' \in Calls /\ call'.at = at

LEMMA MarketEffect ==
    ASSUME Typed, TakeMarket
    PROVE  /\ call.at = "market" /\ UNCHANGED <<mode, order, closes>> /\ mishaps' \subseteq MishapKinds
           /\ held'[2] = held[2]
           /\ mishaps \subseteq mishaps'
           /\ \/ Moves(1, held[1] + Lot) /\ CallEnds("filled")
              \/ held' \in [Legs -> Int] /\ CallEnds("thrown")
<1>1. /\ call \in Calls /\ held \in [Legs -> Int] /\ Lot \in Int /\ 1 \in Legs
      /\ mishaps \subseteq MishapKinds /\ {"filled", "thrown"} \subseteq CallStages /\ "lost" \in MishapKinds
  BY ExecutionAssumption DEF Typed, CallStages, Legs, MishapKinds
<1>2. /\ call.at = "market" /\ UNCHANGED <<mode, order, closes>>
      /\ mishaps' = mishaps \/ mishaps' = mishaps \cup {"lost"}
      /\ \/ held' = [held EXCEPT ![1] = @ + Lot] /\ CallGoes("filled")
         \/ (held' = held \/ held' = [held EXCEPT ![1] = @ + Lot]) /\ CallGoes("thrown")
  BY TickMishap DEF TakeMarket, Order
<1>3. held' = [held EXCEPT ![1] = @ + Lot]
         => Moves(1, held[1] + Lot) /\ held' \in [Legs -> Int] /\ held'[2] = held[2]
  BY <1>1, HeldMoves DEF Moves, Legs
<1> QED
  BY <1>1, <1>2, <1>3, CallMoves DEF CallIs, CallEnds

LEMMA CloseOrderEffect ==
    ASSUME Typed, PlaceClose
    PROVE  /\ call.at = "exit" /\ UNCHANGED <<mode, held, order>> /\ closes' \in 0..MaxCloses
           /\ mishaps' \subseteq MishapKinds /\ mishaps \subseteq mishaps'
           /\ \/ held[1] > 0 /\ (CallEnds("unfilled") \/ CallEnds("thrown"))
              \/ held[1] <= 0 /\ CallEnds("filled") /\ closes' = closes
              \/ CallEnds("thrown") /\ closes' = closes
<1>1. /\ call \in Calls /\ closes \in 0..MaxCloses /\ MaxCloses \in Nat
      /\ mishaps \subseteq MishapKinds /\ {"filled", "unfilled", "thrown"} \subseteq CallStages
      /\ "lost" \in MishapKinds
  BY ExecutionAssumption DEF Typed, CallStages, MishapKinds
<1>2. /\ call.at = "exit" /\ UNCHANGED <<mode, held, order>>
      /\ mishaps' = mishaps \/ mishaps' = mishaps \cup {"lost"}
      /\ \/ /\ held[1] > 0 /\ closes < MaxCloses /\ closes' = closes + 1
            /\ CallGoes("unfilled") \/ CallGoes("thrown")
         \/ held[1] <= 0 /\ CallGoes("filled") /\ closes' = closes
         \/ CallGoes("thrown") /\ closes' = closes
  BY TickMishap DEF PlaceClose
<1>3. closes' \in 0..MaxCloses
  BY <1>1, <1>2
<1> QED
  BY <1>1, <1>2, <1>3, CallMoves DEF CallIs, CallEnds

LEMMA PlaceEffect ==
    ASSUME Typed, PlaceEntryOrder
    PROVE  /\ call.at = "place" /\ UNCHANGED <<mode, held, closes>> /\ mishaps' \subseteq MishapKinds
           /\ mishaps \subseteq mishaps'
           /\ \/ /\ order' \in OrderStates /\ order'.status = "open" /\ order'.done = 0
                 /\ CallEnds("wait") \/ CallEnds("thrown")
              \/ order' = order /\ CallEnds("thrown")
<1>1. /\ call \in Calls /\ mishaps \subseteq MishapKinds /\ {"wait", "thrown"} \subseteq CallStages
      /\ "lost" \in MishapKinds
  BY DEF Typed, CallStages, MishapKinds
<1>2. /\ call.at = "place" /\ UNCHANGED <<mode, held, closes>>
      /\ mishaps' = mishaps \/ mishaps' = mishaps \cup {"lost"}
      /\ \/ order' = [status |-> "open", done |-> 0] /\ (CallGoes("wait") \/ CallGoes("thrown"))
         \/ order' = order /\ CallGoes("thrown")
  BY TickMishap DEF PlaceEntryOrder
<1>3. order' = [status |-> "open", done |-> 0]
         => order' \in OrderStates /\ order'.status = "open" /\ order'.done = 0
  BY ExecutionAssumption DEF OrderStates
<1> QED
  BY <1>1, <1>2, <1>3, CallMoves DEF CallIs, CallEnds

LEMMA WaitEffect ==
    ASSUME Typed, Poll \/ StopWaiting
    PROVE  /\ call.at = "wait" /\ UNCHANGED <<mode, held, order, closes, mishaps>>
           /\ \/ order.status = "filled" /\ CallEnds("filled")
              \/ order.status = "cancelled" /\ CallIs("flatten", order.done)
              \/ CallEnds("wait") \/ CallEnds("cancel") \/ CallEnds("thrown")
<1>1. /\ call \in Calls /\ order \in OrderStates
      /\ {"filled", "flatten", "wait", "cancel", "thrown"} \subseteq CallStages
  BY DEF Typed, CallStages
<1>2. CASE StopWaiting
  BY <1>1, <1>2, CallMoves DEF StopWaiting, CallIs, CallEnds
<1>3. CASE Poll
  <2>1. PICK at \in CallStages :
           /\ call' = [call EXCEPT !.seen = order.done, !.at = at]
           /\ \/ order.status = "filled" /\ at = "filled"
              \/ order.status = "cancelled" /\ at = "flatten"
              \/ at = "wait"
    <3>1. PICK at : at = CASE order.status = "filled" -> "filled"
                            [] order.status = "cancelled" -> "flatten"
                            [] OTHER -> "wait"
      OBVIOUS
    <3>2. \/ order.status = "filled" /\ at = "filled"
          \/ order.status = "cancelled" /\ at = "flatten"
          \/ at = "wait"
      BY <3>1
    <3>3. call' = [call EXCEPT !.seen = order.done, !.at = at]
      BY <1>3, <3>1 DEF Poll
    <3> QED
      BY <1>1, <3>2, <3>3
  <2>2. CallIs(at, order.done)
    BY <1>1, <2>1, OrderFields DEF CallIs, Calls
  <2> QED
    BY <1>3, <2>1, <2>2 DEF Poll, CallIs, CallEnds
<1> QED
  BY <1>2, <1>3

LEMMA CancelEffect ==
    ASSUME Typed, CancelEntryOrder
    PROVE  /\ call.at = "cancel" /\ UNCHANGED <<mode, held, closes, mishaps>>
           /\ \/ /\ order' \in OrderStates /\ order'.status = "cancelled" /\ order'.done = order.done
                 /\ CallEnds("read")
              \/ order' = order /\ CallEnds("thrown")
<1>1. /\ call \in Calls /\ order \in OrderStates /\ {"read", "thrown"} \subseteq CallStages
  BY DEF Typed, CallStages
<1>2. order' = [order EXCEPT !.status = "cancelled"]
         => order' \in OrderStates /\ order'.status = "cancelled" /\ order'.done = order.done
  BY <1>1 DEF OrderStates
<1> QED
  BY <1>1, <1>2, CallMoves DEF CancelEntryOrder, CallIs, CallEnds

LEMMA ReadEffect ==
    ASSUME Typed, ReadBack
    PROVE  /\ call.at = "read" /\ UNCHANGED <<mode, held, order, closes>>
           /\ mishaps' \subseteq MishapKinds /\ mishaps \subseteq mishaps'
           /\ \/ CallIs("flatten", order.done)
              \/ CallEnds("flatten") /\ "stale" \in mishaps'
              \/ CallEnds("thrown")
<1>1. /\ call \in Calls /\ order \in OrderStates /\ {"flatten", "thrown"} \subseteq CallStages
      /\ mishaps \subseteq MishapKinds /\ "stale" \in MishapKinds
  BY DEF Typed, CallStages, MishapKinds
<1>2. /\ call.at = "read" /\ UNCHANGED <<mode, held, order, closes>>
      /\ \/ call' = [call EXCEPT !.at = "flatten", !.seen = order.done] /\ mishaps' = mishaps
         \/ CallGoes("flatten") /\ mishaps' = mishaps \cup {"stale"}
         \/ CallGoes("thrown") /\ mishaps' = mishaps
  BY TickMishap DEF ReadBack
<1>3. call' = [call EXCEPT !.at = "flatten", !.seen = order.done] => CallIs("flatten", order.done)
  BY <1>1, OrderFields DEF CallIs, Calls
<1> QED
  BY <1>1, <1>2, <1>3, CallMoves DEF CallIs, CallEnds

LEMMA UnresolvedMoves ==
    ASSUME Typed, call' = Unresolved
    PROVE  call' \in Calls /\ call'.at \in {"place", "market", "unfilled"}
<1>1. call \in Calls /\ {"place", "market", "unfilled"} \subseteq CallStages /\ call.attempt \in Attempts4
      /\ 0 \in 0..Lot
  BY ExecutionAssumption, CallFields DEF Typed, CallStages
<1>2. \/ /\ call.attempt < MAKER_ONLY_AGGRESSIVE_MAX_RETRIES
         /\ call' = [call EXCEPT !.at = "place", !.attempt = @ + 1, !.seen = 0]
      \/ call' = [call EXCEPT !.at = "market"]
      \/ call' = [call EXCEPT !.at = "unfilled"]
  BY Zenon DEF Unresolved
<1>3. call.attempt < MAKER_ONLY_AGGRESSIVE_MAX_RETRIES => call.attempt + 1 \in Attempts4
  BY <1>1 DEF Attempts4, MAKER_ONLY_AGGRESSIVE_MAX_RETRIES
<1> QED
  BY <1>1, <1>2, <1>3 DEF Calls

LEMMA FlattenEffect ==
    ASSUME Typed, Flatten
    PROVE  /\ call.at = "flatten" /\ UNCHANGED <<mode, order, closes>> /\ call' \in Calls
           /\ held'[2] = held[2]
           /\ mishaps' \subseteq MishapKinds /\ mishaps \subseteq mishaps'
           /\ \/ call.seen = 0 /\ held' = held /\ call'.at \in {"place", "market", "unfilled"}
              \/ /\ held[1] > 0 /\ Moves(1, Left(held[1], call.seen))
                 /\ call'.at \in {"place", "market", "unfilled"}
              \/ held' \in [Legs -> Int] /\ call'.at = "thrown"
<1>1. /\ call \in Calls /\ held \in [Legs -> Int] /\ 1 \in Legs /\ "thrown" \in CallStages
      /\ mishaps \subseteq MishapKinds /\ "lost" \in MishapKinds /\ call.seen \in Nat /\ held[1] \in Int
  BY CallFields DEF Typed, CallStages, MishapKinds, Legs
<1>2. /\ call.at = "flatten" /\ UNCHANGED <<mode, order, closes>>
      /\ mishaps' = mishaps \/ mishaps' = mishaps \cup {"lost"}
      /\ \/ call.seen = 0 /\ held' = held /\ call' = Unresolved
         \/ /\ held[1] > 0 /\ held' = [held EXCEPT ![1] = @ + (-Least(call.seen, held[1]))]
            /\ call' = Unresolved \/ CallGoes("thrown")
         \/ held' = held /\ CallGoes("thrown")
  BY TickMishap DEF Flatten, Reduce, Order
<1>3. held[1] > 0 /\ held' = [held EXCEPT ![1] = @ + (-Least(call.seen, held[1]))]
         => Moves(1, Left(held[1], call.seen)) /\ held' \in [Legs -> Int] /\ held'[2] = held[2]
  <2>1. 2 \in Legs \ {1}
    BY DEF Legs
  <2> QED
    BY <1>1, <2>1, LeftFacts, HeldMoves DEF Moves
<1> QED
  BY <1>1, <1>2, <1>3, CallMoves, UnresolvedMoves DEF CallIs

LEMMA BookEffect ==
    ASSUME Typed, Book
    PROVE  /\ UNCHANGED <<mode, call, mishaps>>
           /\ \/ /\ order.status = "open" /\ closes' = closes
                 /\ Moves(1, held[1] + 1) /\ order'.done = order.done + 1
                 /\ \/ order'.done = Lot /\ order'.status = "filled"
                    \/ order'.done # Lot /\ order'.status = "open"
                 /\ order.done < Lot => order' \in OrderStates
              \/ /\ order.status = "open" /\ order' \in OrderStates /\ UNCHANGED <<held, closes>>
                 /\ order'.status = "cancelled" /\ order'.done = order.done
              \/ /\ closes > 0 /\ held[1] > 0 /\ closes' = 0 /\ order' = order /\ Moves(1, 0)
<1>1. order \in OrderStates /\ held \in [Legs -> Int] /\ 1 \in Legs /\ order.done \in 0..Lot
      /\ Lot \in Nat
  BY OrderFields, ExecutionAssumption DEF Typed, Legs
<1>2. CASE FillEntryOrder
  <2>1. /\ order.status = "open" /\ closes' = closes /\ UNCHANGED <<mode, call, mishaps>>
        /\ held' = [held EXCEPT ![1] = @ + 1]
        /\ order' = [done |-> order.done + 1,
                     status |-> IF order.done + 1 = Lot THEN "filled" ELSE "open"]
    BY <1>2 DEF FillEntryOrder
  <2>2. Moves(1, held[1] + 1)
    <3>1. held' = [held EXCEPT ![1] = @ + 1] /\ 1 \in Int
      BY <2>1
    <3> QED
      BY <1>1, <3>1, HeldMoves
  <2>3. PICK status \in {"filled", "open"} :
           /\ order' = [done |-> order.done + 1, status |-> status]
           /\ (status = "filled" /\ order.done + 1 = Lot) \/ (status = "open" /\ order.done + 1 # Lot)
    <3>1. PICK status : status = IF order.done + 1 = Lot THEN "filled" ELSE "open"
      OBVIOUS
    <3> QED
      BY <2>1, <3>1
  <2>4. order'.done = order.done + 1 /\ order'.status = status
    BY <2>3
  <2>5. order.done < Lot => order' \in OrderStates
    <3>1. order.done < Lot => order.done + 1 \in 0..Lot
      BY <1>1
    <3> QED
      BY <2>3, <3>1 DEF OrderStates
  <2> QED
    BY <2>1, <2>2, <2>3, <2>4, <2>5
<1>3. CASE ExchangeCancels
  BY <1>1, <1>3 DEF ExchangeCancels, OrderStates
<1>4. CASE FillClose
  BY <1>1, <1>4 DEF FillClose, Moves
<1> QED
  BY <1>2, <1>3, <1>4 DEF Book

LEMMA ExitEffect ==
    ASSUME Typed, NativeExit
    PROVE  /\ UNCHANGED <<mode, order, call, mishaps, session>> /\ tick.at = "idle"
           /\ \E leg \in Legs : /\ tracked[leg] > 0 /\ held[leg] > 0 /\ Moves(leg, 0)
                                /\ closes' = IF leg = 1 THEN 0 ELSE closes
  BY DEF NativeExit, Typed, Moves

-----------------------------------------------------------------------------
(* Which stage goes with which strategy, call, order and belief.           *)

StagesFit ==
    /\ tick.at \in {"enter", "exit", "opening", "closing"} => strategy \in SingleLeg
    /\ tick.at \in {"leg1", "leg2", "compensate", "close1", "close2"} => strategy \in TwoLegs
    /\ tick.at = "close" => strategy = "liquidation-cascade"

CallFits ==
    /\ tick.at = "opening" => call.at \notin {"none", "exit"}
    /\ tick.at = "closing" => call.at \in {"exit", "filled", "unfilled", "thrown"}
    /\ tick.at \notin {"opening", "closing"} => call.at = "none"

\* Only executeTrade has orders in the book; an entry order is still open
\* only while its call waits for it, or when the session has died over it.
OrdersFit ==
    /\ order.status = "open" =>
          /\ order.done < Lot
          /\ tick.at = "dead" \/ (tick.at = "opening" /\ call.at \in {"wait", "cancel", "thrown"})
    /\ order.status = "filled" => order.done = Lot
    /\ strategy \notin SingleLeg => order.status = "none" /\ closes = 0

\* What the session may believe to hold.
SingleTracks ==
    /\ tracked[1] \in {0, Lot} /\ tracked[2] = 0
    /\ tick.at \in {"enter", "opening"} => tracked[1] = 0
    /\ tick.at \in {"exit", "closing"} => tracked[1] > 0
    /\ tick.at \notin {"append", "sync", "dead"} => saved = tracked[1]
TwoLegTracks ==
    /\ (tracked[1] = 0 /\ tracked[2] = 0) \/ (tracked[1] = Lot /\ tracked[2] = Lot)
    /\ tick.at \in {"leg1", "leg2", "compensate"} => tracked[1] = 0
    /\ tick.at \in {"close1", "close2"} => tracked[1] = Lot
TracksFit ==
    /\ strategy \in SingleLeg => SingleTracks
    /\ strategy \in TwoLegs => TwoLegTracks
    /\ strategy = "liquidation-cascade" => tracked[1] \in {0, Lot} /\ tracked[2] \in {0, Lot}

Shape == Typed /\ StagesFit /\ CallFits /\ OrdersFit /\ TracksFit

\* Every step of the ticks is one of these.
LEMMA TickSteps ==
    ASSUME Next
    PROVE  \/ StartTick \/ EndTick
           \/ AltDecide \/ BollingerDecide \/ BasisDecide \/ CalendarDecide \/ PairsDecide
           \/ CascadeHold \/ LlmHold
           \/ AltEntry \/ BollingerEntry \/ AltExit \/ BollingerExit
           \/ Answered \/ AppendClosed \/ SyncSnapshot
           \/ \E name \in TwoLegs : TwoLegEnters(name) \/ \E r \in BOOLEAN : TwoLegExits(name, r)
           \/ CascadeEntry \/ CascadeClose
           \/ LlmOpen \/ LlmScaleIn \/ LlmClose \/ LlmOpenHedge \/ LlmCloseHedge
           \/ UNCHANGED session /\ (TakeMarket \/ PlaceClose \/ PlaceEntryOrder \/ Poll \/ StopWaiting
                                      \/ CancelEntryOrder \/ ReadBack \/ Flatten \/ Book)
           \/ NativeExit
<1>1. {"basis-arb", "calendar-spread", "pairs-trading"} \subseteq TwoLegs
  BY DEF TwoLegs
<1>2. TwoLegTick => \/ BasisDecide \/ CalendarDecide \/ PairsDecide
                    \/ \E name \in TwoLegs : TwoLegEnters(name) \/ \E r \in BOOLEAN : TwoLegExits(name, r)
  BY <1>1 DEF TwoLegTick, BasisEntry, BasisExit, CalendarEntry, CalendarExit, PairsEntry, PairsExit
<1> QED
  BY <1>2 DEF Next, SingleLegTick, CascadeTick, LlmTick, ExecuteTrade

LEMMA Kinds ==
    /\ SingleLeg \cap TwoLegs = {}
    /\ "liquidation-cascade" \notin SingleLeg \cup TwoLegs
    /\ "llm-managed" \notin SingleLeg \cup TwoLegs
    /\ Legs = {1, 2} /\ Lot \in Nat /\ Lot > 0 /\ {0, 1, Lot} \subseteq 0..Cap
  BY ExecutionAssumption DEF SingleLeg, TwoLegs, Legs, Cap

LEMMA ShapeInvariant ==
    /\ Init => Shape
    /\ Shape /\ [Next]_vars => Shape'
<1>1. ASSUME Init PROVE Shape
  <2>1. Typed
    <3>1. NoOrder \in OrderStates /\ NoCall \in Calls /\ 0 \in 0..MaxCloses /\ 0 \in 0..Lot
      BY ExecutionAssumption, NoCallFields DEF NoOrder, OrderStates
    <3>2. Nothing \in [Legs -> 0..Cap] /\ Nothing \in [Legs -> Nat] /\ [leg \in Legs |-> 0] \in [Legs -> Int]
      BY Kinds DEF Nothing
    <3>3. [at |-> "idle", leg |-> 1] \in Ticks /\ "none" \in Hedges
      BY DEF Ticks, Stages, Legs, Hedges
    <3> QED
      BY <1>1, <3>1, <3>2, <3>3 DEF Init, ExecutionInit, Typed
  <2>2. tick.at = "idle" /\ call.at = "none" /\ order.status = "none" /\ closes = 0
    BY <1>1, NoCallFields DEF Init, ExecutionInit, NoOrder
  <2>3. tracked[1] = 0 /\ tracked[2] = 0 /\ saved = 0
    BY <1>1, Kinds DEF Init, Nothing
  <2> QED
    BY <2>1, <2>2, <2>3, Kinds
       DEF Shape, StagesFit, CallFits, OrdersFit, TracksFit, SingleTracks, TwoLegTracks
<1>2. ASSUME Shape, [Next]_vars PROVE Shape'
  <2> USE <1>2 DEF Shape
  <2>1. CASE UNCHANGED vars
    BY <2>1 DEF vars, execution, session, Typed, StagesFit, CallFits, OrdersFit, TracksFit,
                SingleTracks, TwoLegTracks
  \* The steps that neither call nor believe anything new.
  <2>2. ASSUME UNCHANGED <<mode, order, closes, call, strategy, tracked, saved>>,
               held' \in [Legs -> Int], mishaps' \subseteq MishapKinds, hedge' \in Hedges,
               told' \in BOOLEAN, known' \in [Legs -> Nat], tick' \in Ticks,
               tick.at \notin {"append", "sync", "opening", "closing", "dead"},
               \/ tick'.at \in {"idle", "decide", "end"}
               \/ tick'.at = "exit" /\ strategy \in SingleLeg /\ tracked[1] > 0
               \/ tick'.at = "enter" /\ strategy \in SingleLeg /\ tracked[1] = 0
               \/ tick'.at \in {"leg1", "leg2", "compensate"} /\ strategy \in TwoLegs /\ tracked[1] = 0
               \/ tick'.at \in {"close1", "close2"} /\ strategy \in TwoLegs /\ tracked[1] = Lot
               \/ tick'.at = "close" /\ strategy = "liquidation-cascade"
        PROVE  Shape'
    <3>1. Typed'
      BY <2>2 DEF Typed
    <3>2. StagesFit' /\ CallFits'
      BY <2>2, Kinds DEF StagesFit, CallFits
    <3>3. OrdersFit'
      BY <2>2 DEF OrdersFit
    <3>4. TracksFit'
      BY <2>2, Kinds DEF TracksFit, SingleTracks, TwoLegTracks
    <3> QED
      BY <3>1, <3>2, <3>3, <3>4
  <2>3. CASE StartTick
    BY <2>2, <2>3, StartEffect DEF BookOnly, execution, Typed
  <2>4. CASE EndTick
    <3>1. \A leg \in Legs : Untracked(leg) \in Nat
      BY Kinds DEF Typed, Untracked
    <3>2. \A leg \in Legs : Least(known[leg], Untracked(leg)) \in Nat
      BY <3>1 DEF Typed, Least
    <3>3. known' \in [Legs -> Nat]
      BY <2>4, <3>1, <3>2, EndEffect
    <3> QED
      BY <2>2, <2>4, <3>3, EndEffect DEF execution, Typed, TickIs
  <2>5. CASE \/ AltDecide \/ BollingerDecide \/ BasisDecide \/ CalendarDecide \/ PairsDecide
             \/ CascadeHold \/ LlmHold
    <3>1. tracked = Nothing => tracked[1] = 0
      BY Kinds DEF Nothing
    <3>2. strategy \in TwoLegs /\ tracked # Nothing => tracked[1] = Lot
      <4>1. tracked \in [Legs -> 0..Cap] /\ Nothing \in [Legs -> 0..Cap]
        BY Kinds DEF Typed, Nothing
      <4>2. tracked[1] = 0 /\ tracked[2] = 0 => tracked = Nothing
        BY <4>1, Kinds DEF Nothing
      <4> QED
        BY <4>2 DEF TracksFit, TwoLegTracks
    <3> QED
      BY <2>2, <2>5, <3>1, <3>2, DecideEffect DEF BookOnly, execution, Typed
  <2>6. CASE AltEntry \/ BollingerEntry \/ AltExit \/ BollingerExit
    <3>1. Typed'
      BY <2>6, CallEffect DEF Typed, BookOnly, TickIs, CallIs
    <3>2. StagesFit' /\ CallFits'
      BY <2>6, CallEffect DEF StagesFit, CallFits, BookOnly, TickIs, CallIs
    <3>3. OrdersFit'
      BY <2>6, CallEffect DEF OrdersFit, BookOnly
    <3>4. TracksFit'
      BY <2>6, CallEffect, Kinds DEF TracksFit, SingleTracks, TwoLegTracks, BookOnly, TickIs
    <3> QED
      BY <3>1, <3>2, <3>3, <3>4
  <2>7. CASE Answered
    <3>1. strategy \in SingleLeg
      BY <2>7 DEF Answered, StagesFit
    <3>2. /\ tracked \in [Legs -> 0..Cap] /\ tracked' \in [Legs -> 0..Cap] /\ tracked'[2] = tracked[2]
          /\ tracked'[1] \in {0, Lot, tracked[1]}
      BY <2>7, AnsweredEffect, Kinds DEF Typed
    <3>3. Typed'
      BY <2>7, <3>2, AnsweredEffect, NoCallFields DEF Typed, TickIs
    <3>4. StagesFit' /\ CallFits'
      BY <2>7, <3>1, AnsweredEffect, NoCallFields DEF StagesFit, CallFits, TickIs
    <3>5. OrdersFit'
      BY <2>7, <3>1, AnsweredEffect DEF OrdersFit, TickIs
    <3>6. SingleTracks'
      BY <2>7, <3>1, <3>2, AnsweredEffect DEF TracksFit, SingleTracks, TickIs
    <3> QED
      BY <2>7, <3>1, <3>3, <3>4, <3>5, <3>6, AnsweredEffect, Kinds DEF TracksFit
  <2>8. CASE AppendClosed \/ SyncSnapshot
    <3>a. strategy \in SingleLeg => tracked[1] \in 0..Lot
      BY Kinds DEF TracksFit, SingleTracks
    <3>b. saved \in 0..Lot /\ 0 \in 0..Lot /\ mishaps \subseteq MishapKinds /\ "write" \in MishapKinds
      BY Kinds DEF Typed, MishapKinds
    <3>c. saved' \in {saved, 0} \/ (strategy \in SingleLeg /\ saved' = tracked[1])
      BY <2>8, WriteEffect
    <3>d. mishaps' = mishaps \/ mishaps' = mishaps \cup {"write"}
      BY <2>8, WriteEffect
    <3>1. saved' \in 0..Lot /\ mishaps' \subseteq MishapKinds
      BY <3>a, <3>b, <3>c, <3>d
    <3>2. Typed'
      BY <2>8, <3>1, WriteEffect DEF Typed, BookOnly, TickIs
    <3>3. StagesFit' /\ CallFits'
      BY <2>8, WriteEffect DEF StagesFit, CallFits, BookOnly, TickIs
    <3>4. OrdersFit'
      BY <2>8, WriteEffect DEF OrdersFit, BookOnly, TickIs
    <3>5. TracksFit'
      BY <2>8, WriteEffect, Kinds DEF TracksFit, SingleTracks, TwoLegTracks, BookOnly, TickIs
    <3> QED
      BY <3>2, <3>3, <3>4, <3>5
  \* An order of the strategies that hold their position in variables.
  <2>9. ASSUME OrderedOnly, strategy \notin SingleLeg, held' \in [Legs -> Int],
               tracked' \in [Legs -> 0..Cap], hedge' \in Hedges, told' \in BOOLEAN, tick' \in Ticks,
               tick.at \notin {"opening", "closing"},
               tick'.at \in {"end", "append"},
               strategy \in TwoLegs => \/ tracked'[1] = 0 /\ tracked'[2] = 0
                                       \/ tracked'[1] = Lot /\ tracked'[2] = Lot,
               strategy = "liquidation-cascade" => tracked'[1] \in {0, Lot} /\ tracked'[2] \in {0, Lot}
        PROVE  Shape'
    <3>1. Typed'
      BY <2>9 DEF Typed, OrderedOnly, MishapKinds
    <3>2. StagesFit' /\ CallFits'
      BY <2>9 DEF StagesFit, CallFits, OrderedOnly
    <3>3. OrdersFit'
      BY <2>9 DEF OrdersFit, OrderedOnly
    <3>4. TracksFit'
      BY <2>9 DEF TracksFit, TwoLegTracks, OrderedOnly
    <3> QED
      BY <3>1, <3>2, <3>3, <3>4
  <2>10. ASSUME OrderedOnly PROVE mishaps' \subseteq MishapKinds /\ known' \in [Legs -> Nat]
    BY <2>10 DEF OrderedOnly, Typed, MishapKinds
  <2>11. tracked \in [Legs -> 0..Cap] /\ hedge \in Hedges /\ told \in BOOLEAN /\ Legs = {1, 2}
         /\ {0, 1, Lot} \subseteq 0..Cap /\ Lot > 0
    BY Kinds DEF Typed
  <2>12. ASSUME NEW name \in TwoLegs, TwoLegEnters(name) PROVE Shape'
    <3>1. tick.at \in {"leg1", "leg2", "compensate"} /\ strategy = name
      BY <2>12 DEF TwoLegEnters
    <3>2. /\ strategy \in TwoLegs /\ strategy \notin SingleLeg /\ strategy # "liquidation-cascade"
          /\ tracked[1] = 0
      BY <3>1, <2>12, Kinds DEF TracksFit, TwoLegTracks
    <3>3. CASE tick.at = "leg1"
      BY <2>2, <2>10, <2>11, <2>12, <3>2, <3>3, Leg1Effect DEF OrderedOnly, Failed, TickIs, Moves
    <3>4. CASE tick.at = "leg2" /\ TickIs("compensate")
      BY <2>2, <2>10, <2>11, <2>12, <3>2, <3>4, Leg2Effect DEF OrderedOnly, TickIs, Moves
    <3>5. CASE tick.at = "leg2" /\ TickIs("end")
      <4>1. tracked' = [leg \in Legs |-> Lot]
        BY <2>12, <3>5, Leg2Effect DEF TickIs
      <4>2. tracked' \in [Legs -> 0..Cap] /\ tracked'[1] = Lot /\ tracked'[2] = Lot
        BY <2>11, <4>1
      <4> QED
        BY <2>9, <2>11, <2>12, <3>2, <3>5, <4>2, Leg2Effect DEF TickIs, Moves
    <3>6. CASE tick.at = "compensate"
      BY <2>2, <2>10, <2>11, <2>12, <3>2, <3>6, CompensateEffect DEF OrderedOnly, Failed, TickIs
    <3> QED
      BY <2>12, <3>1, <3>3, <3>4, <3>5, <3>6, Leg2Effect
  <2>13. ASSUME NEW name \in TwoLegs, NEW r \in BOOLEAN, TwoLegExits(name, r) PROVE Shape'
    <3>1. tick.at \in {"close1", "close2"} /\ strategy = name
      BY <2>13 DEF TwoLegExits
    <3>2. /\ strategy \in TwoLegs /\ strategy \notin SingleLeg /\ strategy # "liquidation-cascade"
          /\ tracked[1] = Lot
      BY <3>1, <2>13, Kinds DEF TracksFit, TwoLegTracks
    <3>3. CASE tick.at = "close1"
      BY <2>2, <2>10, <2>11, <2>13, <3>2, <3>3, Close1Effect DEF OrderedOnly, Failed, TickIs, Moves
    <3>4. CASE tick.at = "close2"
      <4>1. Nothing \in [Legs -> 0..Cap] /\ Nothing[1] = 0 /\ Nothing[2] = 0
        BY <2>11 DEF Nothing
      <4> QED
        BY <2>9, <2>11, <2>13, <3>2, <3>4, <4>1, Close2Effect DEF TickIs
    <3> QED
      BY <3>1, <3>3, <3>4
  <2>14. CASE CascadeEntry
    <3>1. strategy = "liquidation-cascade" /\ tick.at = "decide" /\ OrderedOnly /\ hedge' = hedge
          /\ tick' \in Ticks /\ tick'.at \in {"decide", "end"}
      BY <2>14, CascadeEntryEffect
    <3>2. CASE tracked' = tracked
      <4>1. told' \in BOOLEAN /\ held' \in [Legs -> Int]
        BY <2>11, <2>14, CascadeEntryEffect DEF Typed, Moves
      <4> QED
        BY <2>2, <2>10, <2>11, <3>1, <3>2, <4>1 DEF OrderedOnly
    <3>3. ASSUME NEW leg \in Legs, tracked = Nothing, tracked' = [tracked EXCEPT ![leg] = Lot],
                 Moves(leg, held[leg] + Lot), told' = told
          PROVE  Shape'
      <4>1. tracked' \in [Legs -> 0..Cap] /\ tracked'[1] \in {0, Lot} /\ tracked'[2] \in {0, Lot}
        BY <2>11, <3>3 DEF Nothing
      <4>2. Typed'
        BY <2>10, <2>11, <3>1, <3>3, <4>1 DEF Typed, OrderedOnly, Moves
      <4>3. StagesFit' /\ CallFits'
        BY <3>1 DEF StagesFit, CallFits, OrderedOnly
      <4>4. OrdersFit' /\ TracksFit'
        BY <3>1, <4>1, Kinds DEF OrdersFit, TracksFit, OrderedOnly
      <4> QED
        BY <4>2, <4>3, <4>4
    <3> QED
      BY <2>14, <3>2, <3>3, CascadeEntryEffect
  <2>15. CASE CascadeClose
    <3>1. strategy = "liquidation-cascade" /\ tick.at = "close" /\ OrderedOnly /\ hedge' = hedge
      BY <2>15, CascadeCloseEffect
    <3>2. CASE Failed("end")
      BY <2>2, <2>10, <2>11, <3>1, <3>2 DEF OrderedOnly, Failed, TickIs
    <3>3. ASSUME NEW leg \in Legs, tracked' = [tracked EXCEPT ![leg] = 0], TickIs("append"), told' = told,
                 Moves(leg, Left(held[leg], Lot))
          PROVE  Shape'
      <4>1. tracked' \in [Legs -> 0..Cap] /\ tracked'[1] \in {0, Lot} /\ tracked'[2] \in {0, Lot}
        BY <2>11, <3>1, <3>3 DEF TracksFit
      <4> QED
        BY <2>9, <2>11, <3>1, <3>3, <4>1, Kinds DEF TickIs, Moves
    <3> QED
      BY <2>15, <3>2, <3>3, CascadeCloseEffect
  <2>16. CASE LlmOpen \/ LlmScaleIn \/ LlmClose \/ LlmOpenHedge \/ LlmCloseHedge
    <3>1. /\ strategy = "llm-managed" /\ tick.at = "decide" /\ OrderedOnly /\ hedge' \in Hedges
          /\ told' \in BOOLEAN /\ tick' \in Ticks /\ tick'.at \in {"end", "append"}
          /\ held' \in [Legs -> Int]
      BY <2>11, <2>16, LlmOpenEffect, LlmCloseEffect, LlmHedgeEffect
         DEF Failed, LlmBuys, Moves, TickIs
    <3>2. tracked' \in [Legs -> 0..Cap]
      <4>1. LlmBuys(1, Lot, Lot) \/ (tracked[1] + 1 <= Cap /\ LlmBuys(1, 1, tracked[1] + 1))
              => tracked' \in [Legs -> 0..Cap]
        BY <2>11, Kinds DEF LlmBuys, Cap
      <4> QED
        BY <2>11, <2>16, <4>1, LlmOpenEffect, LlmCloseEffect, LlmHedgeEffect DEF Failed
    <3> QED
      BY <2>9, <3>1, <3>2, Kinds
  <2>17. CASE UNCHANGED session /\ (TakeMarket \/ PlaceClose \/ PlaceEntryOrder \/ Poll \/ StopWaiting
                                     \/ CancelEntryOrder \/ ReadBack \/ Flatten)
    <3>1. /\ call.at \in {"market", "exit", "place", "wait", "cancel", "read", "flatten"} /\ mode' = mode
          /\ closes' \in 0..MaxCloses /\ mishaps' \subseteq MishapKinds /\ call' \in Calls
      BY <2>17, MarketEffect, CloseOrderEffect, PlaceEffect, WaitEffect, CancelEffect, ReadEffect,
         FlattenEffect DEF Typed, CallIs, CallEnds
    <3>2. strategy \in SingleLeg /\ tick.at \in {"opening", "closing"}
          /\ (tick.at = "closing" <=> call.at = "exit")
      BY <3>1 DEF CallFits, StagesFit
    <3>3. order' = order \/ PlaceEntryOrder \/ CancelEntryOrder
      BY <2>17, MarketEffect, CloseOrderEffect, WaitEffect, ReadEffect, FlattenEffect
    <3>4. held' \in [Legs -> Int]
      BY <2>17, MarketEffect, CloseOrderEffect, PlaceEffect, WaitEffect, CancelEffect, ReadEffect,
         FlattenEffect DEF Typed, Moves
    <3>5. Typed'
      BY <2>17, <3>1, <3>3, <3>4, PlaceEffect, CancelEffect DEF Typed, session
    <3>6. StagesFit' /\ TracksFit'
      BY <2>17 DEF session, StagesFit, TracksFit, SingleTracks, TwoLegTracks
    <3>7. /\ call.at = "exit" => call'.at \in {"filled", "unfilled", "thrown"}
          /\ call'.at \notin {"none", "exit"}
      BY <2>17, MarketEffect, CloseOrderEffect, PlaceEffect, WaitEffect, CancelEffect, ReadEffect,
         FlattenEffect DEF CallIs, CallEnds
    <3>8. CallFits'
      BY <2>17, <3>2, <3>7 DEF session, CallFits
    <3>9. order'.status = "open" => order'.done < Lot /\ call'.at \in {"wait", "cancel", "thrown"}
      <4>1. CASE PlaceEntryOrder
        BY <4>1, PlaceEffect, Kinds DEF OrdersFit, CallEnds
      <4>2. CASE CancelEntryOrder
        BY <4>2, CancelEffect DEF OrdersFit, CallEnds
      <4>3. CASE Poll \/ StopWaiting
        BY <4>3, WaitEffect DEF OrdersFit, CallEnds
      <4>4. CASE order' = order /\ call.at \in {"market", "exit", "read", "flatten"}
        BY <3>2, <4>4 DEF OrdersFit
      <4> QED
        BY <2>17, <4>1, <4>2, <4>3, <4>4, MarketEffect, CloseOrderEffect, ReadEffect, FlattenEffect
    <3>10. order'.status = "filled" => order'.done = Lot
      BY <3>3, PlaceEffect, CancelEffect DEF OrdersFit
    <3>11. tick'.at = tick.at /\ strategy' = strategy
      BY <2>17 DEF session
    <3>12. order'.status = "open" => tick.at = "opening"
      <4>1. order.status = "open" => tick.at = "opening"
        BY <3>2 DEF OrdersFit
      <4>2. PlaceEntryOrder \/ CancelEntryOrder => call.at \in {"place", "cancel"}
        BY PlaceEffect, CancelEffect
      <4> QED
        BY <3>2, <3>3, <4>1, <4>2
    <3>13. OrdersFit'
      BY <3>2, <3>9, <3>10, <3>11, <3>12 DEF OrdersFit
    <3> QED
      BY <3>5, <3>6, <3>8, <3>13
  <2>18. CASE UNCHANGED session /\ Book
    <3>1. /\ order' \in OrderStates /\ (order.status = "open" \/ order' = order)
          /\ order'.status = "open" => order.status = "open" /\ order'.done < Lot
          /\ order'.status = "filled" => order'.done = Lot
      BY <2>18, BookEffect, OrderFields, Kinds DEF OrdersFit, Typed, OrderStates
    <3>2. held' \in [Legs -> Int] /\ closes' \in 0..MaxCloses /\ UNCHANGED <<mode, call, mishaps>>
          /\ (closes' = closes \/ closes' = 0)
      BY <2>18, BookEffect, ExecutionAssumption DEF Typed, Moves
    <3>3. Typed'
      BY <2>18, <3>1, <3>2 DEF Typed, session
    <3>4. StagesFit' /\ TracksFit' /\ CallFits'
      BY <2>18, <3>2 DEF session, StagesFit, TracksFit, SingleTracks, TwoLegTracks, CallFits
    <3>5. OrdersFit'
      BY <2>18, <3>1, <3>2 DEF OrdersFit, session
    <3> QED
      BY <3>3, <3>4, <3>5
  <2>19. CASE NativeExit
    <3>1. held' \in [Legs -> Int] /\ closes' \in 0..MaxCloses /\ UNCHANGED <<mode, order, call, mishaps, session>>
          /\ (closes' = closes \/ closes' = 0)
      BY <2>19, ExitEffect, ExecutionAssumption DEF Typed, Moves
    <3>2. Typed'
      BY <3>1 DEF Typed, session
    <3>3. StagesFit' /\ TracksFit' /\ CallFits'
      BY <3>1 DEF session, StagesFit, TracksFit, SingleTracks, TwoLegTracks, CallFits
    <3>4. OrdersFit'
      BY <3>1 DEF OrdersFit, session
    <3> QED
      BY <3>2, <3>3, <3>4
  <2> QED
    BY <2>1, <2>3, <2>4, <2>5, <2>6, <2>7, <2>8, <2>12, <2>13, <2>14, <2>15, <2>16, <2>17, <2>18,
       <2>19, TickSteps
<1> QED
  BY <1>1, <1>2

\* TypeOK: every variable of the ticks keeps its type, for every lot, every
\* set of strategies and every number of resting closes.
THEOREM TypeCorrect == Spec => []TypeOK
<1>1. Shape => TypeOK
  BY TypedIsTypeOK DEF Shape
<1> QED
  BY <1>1, ShapeInvariant, PTL DEF Spec

-----------------------------------------------------------------------------
(* What the exchange holds.                                                *)

\* While executeTrade enters: nothing is held before an order, what the
\* limit order has done so far while it waits, what the read-back found
\* before it is flattened, one lot after a fill.
Entering ==
    /\ closes = 0
    /\ call.at \in {"market", "place", "unfilled"} => held[1] = 0
    /\ call.at = "filled" => held[1] = Lot
    /\ call.at \in {"wait", "cancel", "read", "flatten"} => held[1] = order.done
    /\ call.at \in {"read", "flatten"} => order.status = "cancelled"
    /\ call.at = "flatten" => call.seen = order.done

\* Otherwise the session never tracks less than the exchange holds.
Believing ==
    /\ held[1] >= 0 /\ held[1] <= tracked[1]
    /\ closes > 0 => held[1] > 0
    /\ tick.at = "closing" /\ call.at = "filled" => held[1] = 0

HeldSingle ==
    strategy \in SingleLeg =>
        /\ held[2] = 0
        /\ tick.at # "dead" /\ "stale" \notin mishaps =>
              IF tick.at = "opening" THEN Entering ELSE Believing

\* The units of a leg that the tick in progress knows the session to hold.
Owed(leg) ==
    IF leg = 1 /\ tick.at = "leg2" THEN Lot
    ELSE IF leg = 1 /\ tick.at = "close2" THEN 0
    ELSE tracked[leg]

\* A tick of the other strategies leaves more on a leg than it knows of only
\* if it tells, or is about to take the first leg back and tell.
HeldOthers ==
    strategy \notin SingleLeg =>
        /\ tick.at = "idle" => ~told
        /\ \/ told
           \/ tick.at = "compensate"
           \/ \A leg \in Legs : \/ <<strategy, leg>> = <<"llm-managed", 2>>
                                \/ held[leg] - Owed(leg) <= known[leg]

HeldInv == Shape /\ HeldSingle /\ HeldOthers

\* The orders that only the other strategies place.
OtherOrders ==
    \/ \E name \in TwoLegs : TwoLegEnters(name) \/ \E r \in BOOLEAN : TwoLegExits(name, r)
    \/ CascadeEntry \/ CascadeClose
    \/ LlmOpen \/ LlmScaleIn \/ LlmClose \/ LlmOpenHedge \/ LlmCloseHedge

LEMMA OthersOnly == Typed /\ OtherOrders => strategy \notin SingleLeg
<1>1. ASSUME NEW name \in TwoLegs, TwoLegEnters(name) \/ \E r \in BOOLEAN : TwoLegExits(name, r)
      PROVE  strategy \in TwoLegs
  BY <1>1 DEF TwoLegEnters, TwoLegExits
<1> QED
  BY <1>1, Kinds, CascadeEntryEffect, CascadeCloseEffect, LlmOpenEffect, LlmCloseEffect, LlmHedgeEffect
     DEF OtherOrders

\* What no step of executeTrade's strategies changes.
LEMMA SingleKeeps ==
    ASSUME Shape, strategy \in SingleLeg, Next
    PROVE  /\ strategy' = strategy /\ (held'[2] = held[2] \/ held'[2] = 0)
           /\ mishaps \subseteq mishaps'
           /\ tick.at = "dead" => tick'.at = "dead"
<1> USE DEF Shape
<1>1. CASE \/ StartTick \/ EndTick \/ AltDecide \/ BollingerDecide \/ BasisDecide \/ CalendarDecide
           \/ PairsDecide \/ CascadeHold \/ LlmHold
  BY <1>1, StartEffect, EndEffect, DecideEffect DEF BookOnly, execution
<1>2. CASE \/ AltEntry \/ BollingerEntry \/ AltExit \/ BollingerExit \/ Answered
           \/ AppendClosed \/ SyncSnapshot
  BY <1>2, CallEffect, AnsweredEffect, WriteEffect DEF BookOnly, TickIs
<1>3. CASE UNCHANGED session /\ (TakeMarket \/ PlaceClose \/ PlaceEntryOrder \/ Poll \/ StopWaiting
                                   \/ CancelEntryOrder \/ ReadBack \/ Flatten)
  <2>1. tick.at # "dead" /\ strategy' = strategy
    BY <1>3, MarketEffect, CloseOrderEffect, PlaceEffect, WaitEffect, CancelEffect, ReadEffect,
       FlattenEffect DEF CallFits, session
  <2>2. mishaps \subseteq mishaps'
    BY <1>3, MarketEffect, CloseOrderEffect, PlaceEffect, WaitEffect, CancelEffect, ReadEffect, FlattenEffect
  <2>3. held'[2] = held[2]
    BY <1>3, MarketEffect, CloseOrderEffect, PlaceEffect, WaitEffect, CancelEffect, ReadEffect, FlattenEffect
  <2> QED
    BY <2>1, <2>2, <2>3
<1>4. CASE UNCHANGED session /\ Book
  BY <1>4, BookEffect, Kinds DEF Moves, session
<1>5. CASE NativeExit
  BY <1>5, ExitEffect, Kinds DEF Moves, session
<1> QED
  BY <1>1, <1>2, <1>3, <1>4, <1>5, TickSteps, OthersOnly DEF OtherOrders

\* executeTrade's strategies.
LEMMA HeldSingleStep ==
    ASSUME HeldInv, strategy \in SingleLeg, [Next]_vars
    PROVE  HeldSingle'
<1> USE DEF HeldInv, Shape
<1>1. CASE UNCHANGED vars
  BY <1>1 DEF vars, execution, session, HeldSingle, Entering, Believing
<1>2. /\ held[2] = 0 /\ held \in [Legs -> Int] /\ Legs = {1, 2} /\ Lot > 0 /\ Lot \in Nat
      /\ strategy \notin TwoLegs /\ strategy \notin {"liquidation-cascade", "llm-managed"}
      /\ held[1] \in Int /\ SingleTracks /\ closes \in Nat /\ order.done \in 0..Lot
      /\ tracked[1] \in Int /\ tracked[1] >= 0
  BY Kinds, OrderFields, ExecutionAssumption DEF HeldSingle, Typed, TracksFit, SingleTracks
\* A step of a living session without a stale read starts in such a session.
<1>3. SUFFICES ASSUME Next, tick.at # "dead", "stale" \notin mishaps,
                      IF tick.at = "opening" THEN Entering ELSE Believing
               PROVE  HeldSingle'
  BY <1>1, <1>2, SingleKeeps DEF HeldSingle
<1>4. CASE \/ StartTick \/ EndTick \/ AltDecide \/ BollingerDecide \/ BasisDecide \/ CalendarDecide
           \/ PairsDecide \/ CascadeHold \/ LlmHold
  <2>1. /\ tick.at \in {"idle", "end", "decide"} /\ tick'.at \notin {"opening", "closing", "dead"}
        /\ UNCHANGED <<held, tracked, closes, call, strategy>>
    BY <1>4, <1>2, StartEffect, EndEffect, DecideEffect DEF BookOnly, execution, TickIs
  <2> QED
    BY <1>2, <1>3, <2>1 DEF HeldSingle, Believing
<1>5. CASE AltEntry \/ BollingerEntry \/ AltExit \/ BollingerExit
  <2>1. UNCHANGED <<held, tracked, closes, order, strategy>> /\ tick.at \in {"enter", "exit"} /\ Believing
    BY <1>3, <1>5, CallEffect DEF BookOnly
  <2>2. tick.at = "enter" => held[1] = 0 /\ closes = 0
    BY <1>2, <2>1 DEF SingleTracks, Believing
  <2> QED
    BY <1>2, <1>5, <2>1, <2>2, CallEffect DEF HeldSingle, Believing, Entering, TickIs, CallIs
<1>6. CASE Answered
  <2>1. UNCHANGED <<held, closes, strategy, mishaps>> /\ call'.at = "none" /\ tick.at \in {"opening", "closing"}
    BY <1>6, AnsweredEffect, NoCallFields DEF Answered
  <2>2. CASE call.at = "filled" /\ tick.at = "opening" /\ TickIs("sync") /\ tracked' = [tracked EXCEPT ![1] = Lot]
    <3>1. tracked'[1] = Lot /\ held[1] = Lot /\ closes = 0
      BY <1>2, <1>3, <2>2 DEF Entering, Typed
    <3> QED
      BY <1>2, <2>1, <2>2, <3>1 DEF HeldSingle, Believing, TickIs
  <2>3. CASE call.at = "filled" /\ tick.at = "closing" /\ TickIs("append") /\ tracked' = [tracked EXCEPT ![1] = 0]
    <3>1. tracked'[1] = 0 /\ held[1] = 0 /\ ~(closes > 0)
      BY <1>2, <1>3, <2>3 DEF Believing, Typed
    <3> QED
      BY <1>2, <2>1, <2>3, <3>1 DEF HeldSingle, Believing, TickIs
  <2>4. CASE call.at = "unfilled" /\ TickIs("end") /\ tracked' = tracked
    <3>1. held[1] >= 0 /\ held[1] <= tracked[1] /\ (closes > 0 => held[1] > 0)
      BY <1>2, <1>3, <2>1, <2>4 DEF Believing, Entering, SingleTracks
    <3> QED
      BY <1>2, <2>1, <2>4, <3>1 DEF HeldSingle, Believing, TickIs
  <2>5. CASE TickIs("dead")
    BY <1>2, <2>1, <2>5 DEF HeldSingle, TickIs
  <2> QED
    BY <1>6, <2>2, <2>3, <2>4, <2>5, AnsweredEffect
<1>7. CASE AppendClosed \/ SyncSnapshot
  <2>1. /\ UNCHANGED <<held, tracked, closes, call, strategy>> /\ tick.at \in {"append", "sync"}
        /\ tick'.at \in {"sync", "end", "dead"}
    BY <1>7, WriteEffect DEF BookOnly, TickIs
  <2> QED
    BY <1>2, <1>3, <2>1 DEF HeldSingle, Believing
<1>8. CASE UNCHANGED session /\ (TakeMarket \/ PlaceClose \/ PlaceEntryOrder \/ Poll \/ StopWaiting
                                   \/ CancelEntryOrder \/ ReadBack \/ Flatten)
  <2>1. UNCHANGED <<tick, tracked, strategy>>
    BY <1>8 DEF session
  <2>2. CASE PlaceClose
    <3>1. tick.at = "closing" /\ held' = held /\ call.at = "exit"
      BY <2>2, CloseOrderEffect DEF CallFits
    <3> QED
      BY <1>2, <1>3, <2>1, <2>2, <3>1, CloseOrderEffect DEF HeldSingle, Believing, CallEnds
  <2>3. CASE ~PlaceClose
    <3>1. tick.at = "opening" /\ Entering
      <4>1. call.at \in {"market", "place", "wait", "cancel", "read", "flatten"}
        BY <1>8, <2>3, MarketEffect, PlaceEffect, WaitEffect, CancelEffect, ReadEffect, FlattenEffect
      <4> QED
        BY <1>3, <4>1 DEF CallFits
    <3>2. CASE TakeMarket
      BY <1>2, <2>1, <3>1, <3>2, MarketEffect DEF HeldSingle, Entering, CallEnds, Moves
    <3>3. CASE PlaceEntryOrder
      BY <1>2, <2>1, <3>1, <3>3, PlaceEffect DEF HeldSingle, Entering, CallEnds
    <3>4. CASE Poll \/ StopWaiting
      BY <1>2, <2>1, <3>1, <3>4, WaitEffect DEF HeldSingle, Entering, CallEnds, CallIs, OrdersFit
    <3>5. CASE CancelEntryOrder
      BY <1>2, <2>1, <3>1, <3>5, CancelEffect DEF HeldSingle, Entering, CallEnds
    <3>6. CASE ReadBack
      BY <1>2, <2>1, <3>1, <3>6, ReadEffect DEF HeldSingle, Entering, CallEnds, CallIs
    <3>7. CASE Flatten
      <4>1. /\ call.seen = held[1] /\ call'.at \in {"place", "market", "unfilled", "thrown"}
            /\ closes' = 0 /\ held'[2] = 0
        BY <1>2, <3>1, <3>7, FlattenEffect DEF Entering
      <4>2. call'.at # "thrown" => held'[1] = 0
        <5>1. Left(held[1], held[1]) = 0
          BY <1>2 DEF Left
        <5> QED
          BY <3>7, <4>1, <5>1, FlattenEffect DEF Moves
      <4> QED
        BY <2>1, <3>1, <4>1, <4>2 DEF HeldSingle, Entering
    <3> QED
      BY <1>8, <2>3, <3>2, <3>3, <3>4, <3>5, <3>6, <3>7
  <2> QED
    BY <2>2, <2>3
<1>9. CASE UNCHANGED session /\ Book
  <2>1. UNCHANGED <<tick, tracked, strategy, call>> /\ held'[2] = 0
    BY <1>2, <1>9, BookEffect, SingleKeeps DEF session, Moves
  <2>2. CASE order.status = "open" /\ closes' = closes
    <3>1. tick.at = "opening" /\ Entering /\ call.at \in {"wait", "cancel", "thrown"}
      BY <1>3, <2>2 DEF OrdersFit
    <3>2. \/ held' = held /\ order'.done = order.done
          \/ held'[1] = held[1] + 1 /\ order'.done = order.done + 1
          \/ closes > 0
      BY <1>9, BookEffect DEF Moves
    <3> QED
      BY <1>2, <2>1, <2>2, <3>1, <3>2 DEF HeldSingle, Entering
  <2>3. CASE closes > 0 /\ closes' = 0 /\ Moves(1, 0)
    <3>1. tick.at # "opening" /\ Believing /\ held'[1] = 0
      BY <1>3, <2>3 DEF Entering, Moves
    <3> QED
      BY <1>2, <2>1, <2>3, <3>1 DEF HeldSingle, Believing
  <2> QED
    BY <1>9, <2>2, <2>3, BookEffect
<1>10. CASE NativeExit
  <2>1. UNCHANGED <<tick, tracked, strategy, call>> /\ held'[2] = 0 /\ tick.at = "idle" /\ Believing
    BY <1>2, <1>3, <1>10, ExitEffect DEF session, Moves
  <2>2. held'[1] = 0 /\ closes' = 0
    BY <1>2, <1>10, ExitEffect DEF Moves
  <2> QED
    BY <1>2, <2>1, <2>2 DEF HeldSingle, Believing
<1> QED
  BY <1>2, <1>3, <1>4, <1>5, <1>6, <1>7, <1>8, <1>9, <1>10, TickSteps, OthersOnly DEF OtherOrders

LEMMA HeldOthersStep ==
    ASSUME HeldInv, strategy \notin SingleLeg, [Next]_vars
    PROVE  HeldOthers'
<1> USE DEF HeldInv, Shape
<1>1. CASE UNCHANGED vars
  BY <1>1 DEF vars, execution, session, HeldOthers, Owed
<1>2. SUFFICES ASSUME Next PROVE HeldOthers'
  BY <1>1
<1>3. Typed' /\ Legs = {1, 2} /\ Lot \in Int /\ Lot > 0
  BY ShapeInvariant, Kinds
<1>4. \A leg \in Legs : /\ held[leg] \in Int /\ tracked[leg] \in Int /\ tracked[leg] >= 0
                        /\ known[leg] \in Int /\ known[leg] >= 0
                        /\ held'[leg] \in Int /\ tracked'[leg] \in Int /\ tracked'[leg] >= 0
  BY <1>3, Kinds, ExecutionAssumption DEF Typed, Cap
<1>5. \A leg \in Legs : Owed(leg) \in Int /\ Owed(leg)' \in Int
  BY <1>3, <1>4 DEF Owed
\* A step that tells.
<1>6. ASSUME strategy' = strategy, tick'.at # "idle", told' = TRUE \/ tick'.at = "compensate" PROVE HeldOthers'
  BY <1>6 DEF HeldOthers
\* A step after which a leg that counts exceeds what is owed by no more than before.
<1>7. ASSUME UNCHANGED <<strategy, known, told>>, tick'.at # "idle", tick.at # "compensate",
             \A leg \in Legs : \/ strategy = "llm-managed" /\ leg = 2
                              \/ held'[leg] - Owed(leg)' <= held[leg] - Owed(leg)
                              \/ held'[leg] - Owed(leg)' <= 0
      PROVE  HeldOthers'
  <2>1. CASE told
    BY <1>7, <2>1 DEF HeldOthers
  <2>2. CASE ~told
    <3>1. ASSUME NEW leg \in Legs PROVE \/ <<strategy, leg>>' = <<"llm-managed", 2>>
                                        \/ held'[leg] - Owed(leg)' <= known'[leg]
      <4>1. <<strategy, leg>> = <<"llm-managed", 2>> \/ held[leg] - Owed(leg) <= known[leg]
        BY <1>7, <2>2 DEF HeldOthers
      <4>2. known' = known /\ strategy' = strategy
        BY <1>7
      <4>3. CASE <<strategy, leg>> = <<"llm-managed", 2>>
        BY <4>2, <4>3
      <4>4. CASE held'[leg] - Owed(leg)' <= 0
        BY <1>4, <1>5, <4>2, <4>4
      <4>5. CASE held[leg] - Owed(leg) <= known[leg] /\ held'[leg] - Owed(leg)' <= held[leg] - Owed(leg)
        BY <1>4, <1>5, <4>2, <4>5
      <4> QED
        BY <1>7, <4>1, <4>3, <4>4, <4>5
    <3> QED
      BY <1>7, <3>1 DEF HeldOthers
  <2> QED
    BY <2>1, <2>2, <1>3 DEF Typed
\* The steps that order nothing.
<1>8. CASE \/ StartTick \/ AltDecide \/ BollingerDecide \/ BasisDecide \/ CalendarDecide
           \/ PairsDecide \/ CascadeHold \/ LlmHold \/ AppendClosed \/ SyncSnapshot
  <2>1. /\ UNCHANGED <<strategy, known, told, held, tracked>>
        /\ tick.at \in {"idle", "decide", "append", "sync"}
        /\ tick'.at \notin {"idle", "leg2", "close2"}
    BY <1>8, StartEffect, DecideEffect, WriteEffect DEF BookOnly, execution, TickIs
  <2>2. \A leg \in Legs : held'[leg] - Owed(leg)' <= held[leg] - Owed(leg)
    BY <1>4, <1>5, <2>1 DEF Owed
  <2> QED
    BY <1>7, <2>1, <2>2
<1>9. CASE EndTick
  <2>1. /\ tick'.at = "idle" /\ told' = FALSE /\ tick.at = "end" /\ UNCHANGED <<strategy, held, tracked>>
        /\ known' = [leg \in Legs |-> IF told THEN Untracked(leg) ELSE Least(known[leg], Untracked(leg))]
    BY <1>9, EndEffect DEF execution, TickIs
  <2>2. ASSUME NEW leg \in Legs PROVE \/ <<strategy, leg>>' = <<"llm-managed", 2>>
                                      \/ held'[leg] - Owed(leg)' <= known'[leg]
    <3>1. Owed(leg) = tracked[leg] /\ Owed(leg)' = tracked[leg]
      BY <2>1 DEF Owed
    <3>2. held[leg] - tracked[leg] <= Untracked(leg)
      BY <1>4 DEF Untracked
    <3>3. CASE told \/ ~(known[leg] < Untracked(leg))
      <4>1. known'[leg] = Untracked(leg)
        BY <2>1, <3>3 DEF Least
      <4> QED
        BY <1>4, <2>1, <3>1, <3>2, <4>1
    <3>4. CASE ~told /\ known[leg] < Untracked(leg)
      <4>1. known'[leg] = known[leg]
        BY <2>1, <3>4 DEF Least
      <4>2. <<strategy, leg>> = <<"llm-managed", 2>> \/ held[leg] - Owed(leg) <= known[leg]
        BY <2>1, <3>4 DEF HeldOthers
      <4> QED
        BY <2>1, <3>1, <4>1, <4>2
    <3> QED
      BY <3>3, <3>4
  <2> QED
    BY <2>1, <2>2 DEF HeldOthers
<1>10. CASE \/ AltEntry \/ BollingerEntry \/ AltExit \/ BollingerExit \/ Answered
            \/ UNCHANGED session /\ (TakeMarket \/ PlaceClose \/ PlaceEntryOrder \/ Poll \/ StopWaiting
                                      \/ CancelEntryOrder \/ ReadBack \/ Flatten \/ Book)
  <2>1. call.at = "none" /\ order.status = "none" /\ closes = 0
    BY DEF CallFits, StagesFit, OrdersFit
  <2>2. ~(AltEntry \/ BollingerEntry \/ AltExit \/ BollingerExit) /\ ~Answered
    BY <2>1, CallEffect, AnsweredEffect
  <2>3. ~(TakeMarket \/ PlaceClose \/ PlaceEntryOrder \/ Poll \/ StopWaiting
          \/ CancelEntryOrder \/ ReadBack \/ Flatten)
    BY <2>1, MarketEffect, CloseOrderEffect, PlaceEffect, WaitEffect, CancelEffect, ReadEffect, FlattenEffect
  <2>4. ~Book
    BY <2>1, BookEffect
  <2> QED
    BY <1>10, <2>2, <2>3, <2>4
<1>11. ASSUME NEW name \in TwoLegs, TwoLegEnters(name) PROVE HeldOthers'
  <2>1. tick.at \in {"leg1", "leg2", "compensate"} /\ strategy = name
    BY <1>11 DEF TwoLegEnters
  <2>2. tracked[1] = 0 /\ tracked[2] = 0
    BY <2>1, <1>3 DEF TracksFit, TwoLegTracks
  <2>3. CASE Failed("end")
    BY <1>6, <1>11, <2>1, <2>3, Leg1Effect, Leg2Effect, CompensateEffect DEF Failed, TickIs, OrderedOnly
  <2>4. CASE TickIs("compensate")
    BY <1>6, <1>11, <2>1, <2>4, Leg1Effect, Leg2Effect, CompensateEffect DEF TickIs, OrderedOnly
  <2>5. CASE tick.at = "leg1" /\ TickIs("leg2")
    <3>1. /\ UNCHANGED <<strategy, known, told, tracked>> /\ tick'.at = "leg2"
          /\ held'[1] = held[1] + Lot /\ held'[2] = held[2]
      BY <1>3, <1>11, <2>5, Leg1Effect DEF OrderedOnly, Moves, Failed, TickIs
    <3>2. Owed(1) = 0 /\ Owed(2) = 0 /\ Owed(1)' = Lot /\ Owed(2)' = 0
      BY <2>2, <2>5, <3>1 DEF Owed
    <3> QED
      BY <1>3, <1>4, <1>7, <2>5, <3>1, <3>2
  <2>6. CASE tick.at = "leg2" /\ TickIs("end")
    <3>1. /\ UNCHANGED <<strategy, known, told>> /\ tick'.at = "end"
          /\ tracked' = [leg \in Legs |-> Lot]
          /\ held'[2] = held[2] + Lot /\ held'[1] = held[1]
      BY <1>3, <1>11, <2>6, Leg2Effect DEF OrderedOnly, Moves, TickIs
    <3>2. Owed(1) = Lot /\ Owed(2) = 0 /\ Owed(1)' = Lot /\ Owed(2)' = Lot
      BY <1>3, <2>2, <2>6, <3>1 DEF Owed
    <3> QED
      BY <1>3, <1>4, <1>7, <2>6, <3>1, <3>2
  <2> QED
    BY <1>11, <2>1, <2>3, <2>4, <2>5, <2>6, Leg1Effect, Leg2Effect, CompensateEffect
<1>12. ASSUME NEW name \in TwoLegs, NEW r \in BOOLEAN, TwoLegExits(name, r) PROVE HeldOthers'
  <2>1. tick.at \in {"close1", "close2"} /\ strategy = name
    BY <1>12 DEF TwoLegExits
  <2>2. tracked[1] = Lot /\ tracked[2] = Lot
    BY <2>1, <1>3 DEF TracksFit, TwoLegTracks
  <2>3. CASE told' = TRUE
    BY <1>6, <1>12, <2>1, <2>3, Close1Effect, Close2Effect DEF Failed, TickIs, OrderedOnly
  <2>4. CASE told' # TRUE /\ tick.at = "close1"
    <3>1. /\ UNCHANGED <<strategy, known, told, tracked>> /\ tick'.at = "close2"
          /\ held'[2] = held[2] /\ held'[1] = Left(held[1], Lot) /\ held[1] > 0
      <4>1. OrderedOnly /\ TickIs("close2") /\ told' = told /\ tracked' = tracked
            /\ held[1] > 0 /\ Moves(1, Left(held[1], Lot))
        BY <1>12, <2>4, Close1Effect DEF Failed
      <4> QED
        BY <1>3, <4>1 DEF OrderedOnly, TickIs, Moves
    <3>2. Owed(1) = Lot /\ Owed(2) = Lot /\ Owed(1)' = 0 /\ Owed(2)' = Lot
      BY <2>2, <2>4, <3>1 DEF Owed
    <3>3. held'[1] <= held[1] - Lot \/ held'[1] = 0
      BY <1>3, <1>4, <3>1 DEF Left
    <3> QED
      BY <1>3, <1>4, <1>7, <2>4, <3>1, <3>2, <3>3
  <2>5. CASE told' # TRUE /\ tick.at = "close2"
    <3>1. /\ UNCHANGED <<strategy, known, told>> /\ tick'.at = "append" /\ tracked' = Nothing
          /\ held'[1] = held[1]
          /\ held'[2] <= held[2] - Lot \/ held'[2] = 0
      <4>1. OrderedOnly /\ TickIs("append") /\ told' = told /\ tracked' = Nothing
        BY <1>12, <2>5, Close2Effect
      <4>2. PICK left \in Int : Moves(2, left) /\ (left <= held[2] - Lot \/ left = 0)
        BY <1>12, <2>5, Close2Effect
      <4> QED
        BY <1>3, <4>1, <4>2 DEF OrderedOnly, TickIs, Moves
    <3>2. Owed(1) = 0 /\ Owed(2) = Lot /\ Owed(1)' = 0 /\ Owed(2)' = 0
      BY <1>3, <2>2, <2>5, <3>1 DEF Owed, Nothing
    <3> QED
      BY <1>3, <1>4, <1>7, <2>5, <3>1, <3>2
  <2> QED
    BY <2>1, <2>3, <2>4, <2>5
<1>13. CASE CascadeEntry
  <2>1. /\ UNCHANGED <<strategy, known>> /\ tick.at = "decide" /\ tick'.at \in {"decide", "end"}
    BY <1>13, CascadeEntryEffect DEF OrderedOnly
  <2>2. CASE told' = TRUE
    BY <1>6, <2>1, <2>2
  <2>3. CASE held' = held /\ tracked' = tracked /\ told' = told
    BY <1>3, <1>4, <1>7, <2>1, <2>3 DEF Owed
  <2>4. ASSUME NEW leg \in Legs, told' = told, tracked = Nothing, tracked' = [tracked EXCEPT ![leg] = Lot],
               Moves(leg, held[leg] + Lot)
        PROVE  HeldOthers'
    <3>1. ASSUME NEW l \in Legs PROVE held'[l] - Owed(l)' <= held[l] - Owed(l)
      <4>1. Owed(l) = 0 /\ Owed(l)' = tracked'[l]
        BY <1>3, <2>1, <2>4 DEF Owed, Nothing
      <4>2. held'[l] - tracked'[l] = held[l]
        BY <1>3, <1>4, <2>4 DEF Moves, Nothing
      <4> QED
        BY <1>4, <4>1, <4>2
    <3> QED
      BY <1>7, <2>1, <2>4, <3>1
  <2> QED
    BY <1>13, <2>2, <2>3, <2>4, CascadeEntryEffect
<1>14. CASE CascadeClose
  <2>1. UNCHANGED <<strategy, known>> /\ tick.at = "close" /\ strategy = "liquidation-cascade"
    BY <1>14, CascadeCloseEffect DEF OrderedOnly
  <2>2. CASE Failed("end")
    BY <1>6, <2>1, <2>2 DEF Failed, TickIs
  <2>3. ASSUME NEW leg \in Legs, told' = told, TickIs("append"), tracked' = [tracked EXCEPT ![leg] = 0],
               tracked[leg] > 0, held[leg] > 0, Moves(leg, Left(held[leg], Lot))
        PROVE  HeldOthers'
    <3>1. ASSUME NEW l \in Legs PROVE \/ held'[l] - Owed(l)' <= held[l] - Owed(l)
                                      \/ held'[l] - Owed(l)' <= 0
      <4>1. Owed(l) = tracked[l] /\ Owed(l)' = tracked'[l]
        BY <2>1, <2>3 DEF Owed, TickIs
      <4>2. CASE l = leg
        <5>1. tracked[l] = Lot /\ tracked'[l] = 0
          BY <1>3, <1>4, <2>1, <2>3, <4>2 DEF TracksFit, Typed
        <5>2. held'[l] <= held[l] - Lot \/ held'[l] = 0
          BY <1>3, <1>4, <2>3, <4>2 DEF Moves, Left
        <5> QED
          BY <1>4, <4>1, <5>1, <5>2
      <4>3. CASE l # leg
        <5>1. held'[l] = held[l] /\ tracked'[l] = tracked[l]
          BY <1>3, <2>3, <4>3 DEF Moves, Typed
        <5> QED
          BY <1>4, <4>1, <5>1
      <4> QED
        BY <4>2, <4>3
    <3> QED
      BY <1>7, <2>1, <2>3, <3>1 DEF TickIs
  <2> QED
    BY <1>14, <2>2, <2>3, CascadeCloseEffect
<1>15. CASE LlmOpen \/ LlmScaleIn
  <2>1. UNCHANGED <<strategy, known>> /\ tick.at = "decide" /\ strategy = "llm-managed"
    BY <1>15, LlmOpenEffect DEF OrderedOnly
  <2>2. CASE Failed("end")
    BY <1>6, <2>1, <2>2 DEF Failed, TickIs
  <2>3. ASSUME NEW qty \in Int, LlmBuys(1, qty, tracked[1] + qty) PROVE HeldOthers'
    <3>1. tracked'[1] = tracked[1] + qty /\ held'[1] = held[1] + qty /\ tick'.at = "end" /\ told' = told
      BY <1>3, <2>3 DEF LlmBuys, Moves, Typed, TickIs
    <3>2. Owed(1) = tracked[1] /\ Owed(1)' = tracked'[1]
      BY <2>1, <3>1 DEF Owed
    <3> QED
      BY <1>3, <1>4, <1>7, <2>1, <3>1, <3>2
  <2>4. tracked[1] = 0 => Lot = tracked[1] + Lot
    BY <1>3
  <2> QED
    BY <1>3, <1>15, <2>2, <2>3, <2>4, LlmOpenEffect
<1>16. CASE LlmClose
  <2>1. UNCHANGED <<strategy, known>> /\ tick.at = "decide" /\ strategy = "llm-managed"
    BY <1>16, LlmCloseEffect DEF OrderedOnly
  <2>2. CASE Failed("end")
    BY <1>6, <2>1, <2>2 DEF Failed, TickIs
  <2>3. ASSUME NEW qty \in 1..tracked[1], tracked'[1] = tracked[1] - qty, held[1] > 0,
               Moves(1, Left(held[1], qty)), TickIs("append"), told' = told
        PROVE  HeldOthers'
    <3>1. Owed(1) = tracked[1] /\ Owed(1)' = tracked'[1]
      BY <2>1, <2>3 DEF Owed, TickIs
    <3>2. qty \in Nat /\ (held'[1] <= held[1] - qty \/ held'[1] = 0)
      BY <1>3, <1>4, <2>3 DEF Moves, Left
    <3>3. held'[1] - Owed(1)' <= held[1] - Owed(1) \/ held'[1] - Owed(1)' <= 0
      BY <1>3, <1>4, <2>3, <3>1, <3>2
    <3> QED
      BY <1>3, <1>7, <2>1, <2>3, <3>3 DEF TickIs
  <2> QED
    BY <1>16, <2>2, <2>3, LlmCloseEffect
<1>17. CASE LlmOpenHedge \/ LlmCloseHedge
  <2>1. /\ UNCHANGED <<strategy, known>> /\ tick.at = "decide" /\ strategy = "llm-managed" /\ tick'.at = "end"
        /\ tracked'[1] = tracked[1] /\ (told' = TRUE \/ (told' = told /\ held'[1] <= held[1]))
    BY <1>17, LlmHedgeEffect DEF OrderedOnly, TickIs
  <2>2. Owed(1) = tracked[1] /\ Owed(1)' = tracked'[1]
    BY <2>1 DEF Owed
  <2>3. CASE told' = told /\ held'[1] <= held[1]
    BY <1>3, <1>4, <1>7, <2>1, <2>2, <2>3
  <2> QED
    BY <1>6, <2>1, <2>3
<1>18. CASE NativeExit
  <2>1. UNCHANGED session /\ tick.at = "idle"
    BY <1>18, ExitEffect
  <2>2. PICK leg \in Legs : held[leg] > 0 /\ Moves(leg, 0)
    BY <1>18, ExitEffect
  <2>3. \A l \in Legs : held'[l] <= held[l] /\ Owed(l)' = Owed(l)
    BY <1>4, <2>1, <2>2 DEF Moves, session, Owed
  <2>4. \A l \in Legs : held[l] - Owed(l) <= known[l] => held'[l] - Owed(l)' <= known[l]
    BY <1>4, <1>5, <2>3
  <2> QED
    BY <2>1, <2>4 DEF HeldOthers, session
<1> QED
  BY <1>2, <1>8, <1>9, <1>10, <1>11, <1>12, <1>13, <1>14, <1>15, <1>16, <1>17, <1>18, TickSteps

LEMMA StrategyStays ==
    ASSUME Typed, [Next]_vars
    PROVE  strategy' = strategy
<1>1. CASE UNCHANGED vars
  BY <1>1 DEF vars, session
<1>2. CASE \/ StartTick \/ EndTick \/ AltDecide \/ BollingerDecide \/ BasisDecide \/ CalendarDecide
           \/ PairsDecide \/ CascadeHold \/ LlmHold
           \/ AltEntry \/ BollingerEntry \/ AltExit \/ BollingerExit \/ Answered
           \/ AppendClosed \/ SyncSnapshot
  BY <1>2, StartEffect, EndEffect, DecideEffect, CallEffect, AnsweredEffect, WriteEffect DEF BookOnly
<1>3. CASE OtherOrders
  <2>1. ASSUME NEW name \in TwoLegs, TwoLegEnters(name) \/ \E r \in BOOLEAN : TwoLegExits(name, r)
        PROVE  strategy' = strategy
    BY <2>1 DEF TwoLegEnters, TwoLegExits
  <2> QED
    BY <1>3, <2>1, CascadeEntryEffect, CascadeCloseEffect, LlmOpenEffect, LlmCloseEffect, LlmHedgeEffect
       DEF OtherOrders, OrderedOnly
<1>4. CASE UNCHANGED session
  BY <1>4 DEF session
<1> QED
  BY <1>1, <1>2, <1>3, <1>4, TickSteps, ExitEffect DEF OtherOrders

LEMMA HeldInvariant ==
    /\ Init => HeldInv
    /\ HeldInv /\ [Next]_vars => HeldInv'
<1>1. ASSUME Init PROVE HeldInv
  <2>1. /\ held[1] = 0 /\ held[2] = 0 /\ tracked[1] = 0 /\ tracked[2] = 0 /\ known[1] = 0 /\ known[2] = 0
        /\ Legs = {1, 2}
    BY <1>1, Kinds DEF Init, ExecutionInit, Nothing
  <2>2. tick.at = "idle" /\ ~told /\ closes = 0 /\ call.at = "none"
    BY <1>1, NoCallFields DEF Init, ExecutionInit
  <2>3. HeldSingle
    BY <2>1, <2>2 DEF HeldSingle, Believing
  <2>4. HeldOthers
    BY <2>1, <2>2 DEF HeldOthers, Owed
  <2> QED
    BY <1>1, <2>3, <2>4, ShapeInvariant DEF HeldInv
<1>2. ASSUME HeldInv, [Next]_vars PROVE HeldInv'
  <2>1. Shape'
    BY <1>2, ShapeInvariant DEF HeldInv
  <2>2. strategy' = strategy
    BY <1>2, StrategyStays DEF HeldInv, Shape
  <2>3. CASE strategy \in SingleLeg
    BY <1>2, <2>1, <2>2, <2>3, HeldSingleStep DEF HeldInv, HeldOthers
  <2>4. CASE strategy \notin SingleLeg
    BY <1>2, <2>1, <2>2, <2>4, HeldOthersStep DEF HeldInv, HeldSingle
  <2> QED
    BY <2>3, <2>4
<1> QED
  BY <1>1, <1>2

\* AnswerIsTrue: what executeTrade answers is what the exchange holds, in all
\* four entry modes, for every lot, every order of fills, polls, cancels and
\* read-backs, and every number of closes left in the book.
THEOREM AnswersAreTrue == Spec => []AnswerIsTrue
<1>1. HeldInv => AnswerIsTrue
  <2> SUFFICES ASSUME HeldInv, call.at \in {"filled", "unfilled"}, "stale" \notin mishaps
               PROVE  /\ tick.at = "opening" => held[1] = (IF call.at = "filled" THEN Lot ELSE 0)
                      /\ tick.at = "closing" /\ call.at = "filled" => held[1] = 0
    BY DEF AnswerIsTrue
  <2>1. tick.at \in {"opening", "closing"} => strategy \in SingleLeg
    BY DEF HeldInv, Shape, StagesFit
  <2> QED
    BY <2>1 DEF HeldInv, HeldSingle, Entering, Believing
<1> QED
  BY <1>1, HeldInvariant, PTL DEF Spec

\* NothingForgotten: between two ticks, whatever the exchange holds beyond
\* what the session tracks was told to the operator, for every strategy, lot,
\* failed, partly executed or unanswered order and outside liquidation; and
\* the snapshot of a strategy that saves its position is the position.
THEOREM NoUnitIsForgotten == Spec => []NothingForgotten
<1>1. HeldInv => NothingForgotten
  <2> SUFFICES ASSUME HeldInv, tick.at = "idle", "stale" \notin mishaps
               PROVE  /\ \A leg \in Legs : \/ Untracked(leg) <= known[leg]
                                           \/ <<strategy, leg>> = <<"llm-managed", 2>>
                      /\ strategy \in SingleLeg => saved = tracked[1]
    BY DEF NothingForgotten
  <2>1. Typed /\ Legs = {1, 2}
    BY Kinds DEF HeldInv, Shape
  <2>2. \A leg \in Legs : held[leg] \in Int /\ tracked[leg] \in Nat /\ known[leg] \in Nat
    BY <2>1, Kinds DEF Typed
  <2>3. CASE strategy \in SingleLeg
    <3>1. SingleTracks /\ held[2] = 0 /\ Believing
      BY <2>3 DEF HeldInv, Shape, HeldSingle, TracksFit
    <3> QED
      BY <2>1, <2>2, <3>1 DEF SingleTracks, Believing, Untracked
  <2>4. CASE strategy \notin SingleLeg
    <3>1. \A leg \in Legs : \/ <<strategy, leg>> = <<"llm-managed", 2>>
                           \/ held[leg] - tracked[leg] <= known[leg]
      BY <2>4 DEF HeldInv, HeldOthers, Owed
    <3> QED
      BY <2>2, <2>4, <3>1 DEF Untracked
  <2> QED
    BY <2>3, <2>4
<1> QED
  BY <1>1, HeldInvariant, PTL DEF Spec

-----------------------------------------------------------------------------
(* Starts and ticks side by side.                                          *)

\* What is proved of starts and ticks holds of their composition, the
\* specification of the run.
THEOREM SessionsHold == MCSpec => [](OneSession /\ AnswerIsTrue /\ NothingForgotten)
<1>1. MCInit => StartsInit /\ Init
  BY DEF MCInit
<1>2. [MCNext]_<<vars, startsVars, part>> => [StartsNext]_startsVars /\ [Next]_vars
  BY DEF MCNext
<1>3. MCSpec => StartsSpec /\ Spec
  BY <1>1, <1>2, PTL DEF MCSpec, StartsSpec, Spec
<1> QED
  BY <1>3, OneSessionTrades, AnswersAreTrue, NoUnitIsForgotten, PTL

=============================================================================
