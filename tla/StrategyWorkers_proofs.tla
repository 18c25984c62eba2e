------------------------ MODULE StrategyWorkers_proofs ------------------------
(***************************************************************************)
(* Proofs about StrategyWorkers, for every set of stacks, any number of    *)
(* overlapping iterations and every bound on trades and failures: the      *)
(* types, the cooldown after a cut loss and the allocator's credits.  Both *)
(* rest on the gate: an open tick that is past it, and has not missed a    *)
(* manage job, runs while no iteration of any exists, so that what it has  *)
(* read of the records stays true until it orders or writes.               *)
(***************************************************************************)
EXTENDS StrategyWorkers, TLAPS

Places == {"free", "stalled", "picked", "reconcile", "decide", "update", "done", "append",
           "credit", "save", "mark", "complete"}
Exits == {"none", "external", "rule", "cut", "slice"}
Iterations == [at : Places, trade : Nat, data : Data, next : Data, exit : Exits, loaded : Nat]
Queued == [at : {"none", "delayed", "waiting"}, data : Data]
Ticks == [at : {"idle", "waiting", "delayed", "cooldown", "load", "select", "decide", "order",
                "enqueue"},
          loaded : Nat]

LEMMA Shapes ==
    /\ NoData \in Data /\ EntryData \in Data
    /\ NotQueued \in Queued /\ NotQueued.at = "none"
    /\ Free \in Iterations /\ Free.at = "free" /\ Free.exit = "none" /\ Free.loaded = 0
    /\ NoTick \in Ticks /\ NoTick.at = "idle" /\ NoTick.loaded = 0
  BY DEF Data, NoData, EntryData, EntryLot, Cap, Hedges, NotQueued, Queued, Free, Iterations, Places,
         Exits, NoTick, Ticks

\* TypeOK, with the record types named.
Typed ==
    /\ strategy \in Strategies /\ paper \in BOOLEAN
    /\ pos \in Int /\ hedge \in Nat
    /\ open \in Ticks
    /\ queue \in [Trades -> Queued] /\ repeats \subseteq Trades
    /\ iter \in [Lanes -> Iterations]
    /\ cooling \in BOOLEAN /\ recent \in BOOLEAN /\ allocator \in Nat
    /\ trades \in 0..MaxTrades /\ managed \in Nat /\ missed \in BOOLEAN
    /\ mishaps \subseteq MishapKinds

LEMMA TypedFits == TypeOK <=> Typed
  BY DEF TypeOK, Typed, Ticks, Queued, Iterations, Places, Exits

LEMMA IterationFields ==
    ASSUME Typed, NEW l \in Lanes
    PROVE  /\ iter[l] \in Iterations
           /\ iter[l].at \in Places /\ iter[l].trade \in Nat
           /\ iter[l].data \in Data /\ iter[l].next \in Data
           /\ iter[l].exit \in Exits /\ iter[l].loaded \in Nat
  BY DEF Typed, Iterations

LEMMA MishapHappens ==
    ASSUME Typed, NEW kind \in MishapKinds, Mishap(kind)
    PROVE  mishaps' = mishaps \cup {kind} /\ mishaps' \subseteq MishapKinds
  BY DEF Mishap, Typed

-----------------------------------------------------------------------------
(* What the steps do, in the terms of the invariants.                      *)

\* The iteration in place l is replaced by one with these fields.
Now(l, at, exit, loaded) ==
    /\ iter' \in [Lanes -> Iterations]
    /\ \A k \in Lanes \ {l} : iter'[k] = iter[k]
    /\ iter'[l].at = at /\ iter'[l].exit = exit /\ iter'[l].loaded = loaded
    /\ at # "free" => iter'[l].trade = iter[l].trade

LEMMA NowGoes ==
    ASSUME Typed, NEW l \in Lanes, NEW at \in Places, Goes(l, at)
    PROVE  Now(l, at, iter[l].exit, iter[l].loaded)
  BY IterationFields DEF Goes, Now, Typed, Iterations

LEMMA NowLeaves ==
    ASSUME Typed, NEW l \in Lanes, Leaves(l)
    PROVE  Now(l, "free", "none", 0)
  BY Shapes DEF Leaves, Now, Typed

LEMMA NowCloses ==
    ASSUME Typed, NEW l \in Lanes, NEW exit \in Exits, Closes(l, exit)
    PROVE  Now(l, "append", exit, iter[l].loaded)
  BY IterationFields DEF Closes, Now, Typed, Iterations, Places

LEMMA NowContinues ==
    ASSUME Typed, NEW l \in Lanes, NEW d \in Data, ContinuesWith(l, d)
    PROVE  Now(l, "free", "none", 0) \/ Now(l, "update", iter[l].exit, iter[l].loaded)
<1>1. CASE d = iter[l].data
  BY <1>1, NowLeaves DEF ContinuesWith
<1>2. CASE d # iter[l].data
  <2> DEFINE x == [iter[l] EXCEPT !.at = "update", !.next = d]
  <2>1. iter' = [iter EXCEPT ![l] = x]
    BY <1>2 DEF ContinuesWith
  <2>2. /\ x \in Iterations /\ x.at = "update" /\ x.exit = iter[l].exit
        /\ x.loaded = iter[l].loaded /\ x.trade = iter[l].trade
    BY IterationFields DEF Iterations, Places
  <2> HIDE DEF x
  <2> QED
    BY <2>1, <2>2 DEF Now, Typed
<1> QED
  BY <1>1, <1>2

\* An iteration that keeps its trade and data and forgets the rest.
LEMMA NowRestarts ==
    ASSUME Typed, NEW l \in Lanes, NEW at \in Places, NEW d \in Data,
           iter' = [iter EXCEPT ![l] = [Free EXCEPT !.at = at, !.trade = iter[l].trade, !.data = d]]
    PROVE  Now(l, at, "none", 0)
<1> DEFINE x == [Free EXCEPT !.at = at, !.trade = iter[l].trade, !.data = d]
<1>1. /\ x \in Iterations /\ x.at = at /\ x.exit = "none" /\ x.loaded = 0
      /\ x.trade = iter[l].trade
  BY IterationFields, Shapes DEF Free, Iterations, Exits
<1> HIDE DEF x
<1> QED
  BY <1>1 DEF Now, Typed, x

\* What no step of an iteration writes.
OpenUntouched == UNCHANGED <<strategy, paper, open, history>>

\* The steps of an iteration up to the close, and those of its resizing.
Deciding == {"reconcile", "decide", "update", "done"}
Decides(l) ==
    \/ Reconcile(l) \/ Hold(l) \/ Update(l) \/ Finish(l)
    \/ CloseAll(l, "rule") \/ (strategy = "llm-managed" /\ CloseAll(l, "cut"))
    \/ ScaleOut(l) \/ ScaleIn(l)
    \/ \E on \in Hedges \ {"none"} : OpenHedge(l, on)
    \/ CloseHedge(l)

\* Every step is one of these.
LEMMA Steps ==
    ASSUME Next
    PROVE  \/ Open \/ NativeExit \/ CooldownOver \/ Crash
           \/ \E t \in Trades : Promote(t)
           \/ \E l \in Lanes :
                 \/ Pick(l) \/ ScheduleNext(l) \/ Decides(l)
                 \/ AppendClosed(l) \/ MarkTime(l) \/ Complete(l)
                 \/ strategy = "ma-crossover" /\ (LoadCredits(l) \/ SaveCredits(l))
  BY Zenon DEF Next, Manage, Iterate, LongerTfManage, BollingerAdxManage, FundingArbManage,
         CascadeManage, MaCrossoverManage, LlmManagedManage, Decides

\* What a step up to the close leaves behind.
Decided(l) ==
    /\ iter[l].at \in Deciding
    /\ OpenUntouched /\ UNCHANGED <<jobs, cooling, allocator>>
    /\ pos' \in Int /\ hedge' \in Nat /\ recent' \in BOOLEAN
    /\ mishaps \subseteq mishaps' /\ mishaps' \subseteq MishapKinds
    /\ \E at \in {"free", "append", "decide", "update", "done"}, exit \in Exits, loaded \in Nat :
          /\ Now(l, at, exit, loaded)
          /\ exit = "cut" => strategy = "llm-managed" \/ iter[l].exit = "cut"
          /\ recent' # recent => recent' /\ at = "append" /\ exit = "cut"

LEMMA ReducesInt ==
    ASSUME NEW held \in Int, NEW qty \in Int
    PROVE  /\ Reduces(qty, held) \in Int
           /\ held \in Nat /\ qty \in Nat => Reduces(qty, held) \in Nat
  BY DEF Reduces, Least

LEMMA DataFields ==
    ASSUME NEW d \in Data
    PROVE  /\ d.qty \in 0..Cap /\ d.qty \in Nat /\ d.hedge \in Hedges
           /\ \A n \in 0..Cap : [d EXCEPT !.qty = n] \in Data
           /\ \A h \in Hedges : [d EXCEPT !.hedge = h] \in Data
  BY DEF Data, Cap, EntryLot

\* An order in the middle of an iteration, whatever it answers.
LEMMA OrderDecides ==
    ASSUME Typed, NEW l \in Lanes, iter[l].at = "decide", OpenUntouched,
           UNCHANGED <<jobs, cooling, recent, allocator>>,
           pos' \in Int, hedge' \in Nat,
           mishaps' = mishaps \/ Mishap("lost"),
           \/ Leaves(l)
           \/ \E d \in Data : ContinuesWith(l, d)
           \/ Now(l, "append", "slice", iter[l].loaded)
    PROVE  Decided(l)
<1>1. /\ iter[l].exit \in Exits /\ iter[l].loaded \in Nat /\ recent' \in BOOLEAN
      /\ "none" \in Exits /\ "slice" \in Exits /\ 0 \in Nat
  BY IterationFields DEF Typed, Exits
<1>2. mishaps \subseteq mishaps' /\ mishaps' \subseteq MishapKinds
  BY MishapHappens DEF Typed, MishapKinds
<1>3. \/ Now(l, "free", "none", 0) \/ Now(l, "update", iter[l].exit, iter[l].loaded)
      \/ Now(l, "append", "slice", iter[l].loaded)
  BY NowLeaves, NowContinues
<1> QED
  BY <1>1, <1>2, <1>3 DEF Decided, Deciding

LEMMA CloseDecides ==
    ASSUME Typed, NEW l \in Lanes, NEW exit \in {"rule", "cut"}, CloseAll(l, exit),
           exit = "cut" => strategy = "llm-managed"
    PROVE  Decided(l)
<1>1. /\ iter[l].at = "decide" /\ OpenUntouched /\ UNCHANGED <<jobs, cooling, allocator, hedge>>
      /\ recent' = (recent \/ (exit = "cut" /\ iter'[l].at = "append"))
  BY DEF CloseAll, Order, exchange, OpenUntouched
<1>2. /\ exit \in Exits /\ "none" \in Exits /\ iter[l].loaded \in Nat /\ 0 \in Nat
      /\ iter[l].data.qty \in Int
  BY IterationFields, DataFields DEF Exits
<1>3. pos' \in Int /\ hedge' \in Nat /\ recent' \in BOOLEAN
  <2>1. pos' = pos \/ pos' = Reduces(iter[l].data.qty, pos)
    BY DEF CloseAll, Order, exchange
  <2> QED
    BY <2>1, <1>1, <1>2, ReducesInt DEF Typed
<1>4. mishaps \subseteq mishaps' /\ mishaps' \subseteq MishapKinds
  <2>1. mishaps' = mishaps \/ Mishap("lost")
    BY DEF CloseAll, Order
  <2> QED
    BY <2>1, MishapHappens DEF Typed, MishapKinds
<1>5. CASE Closes(l, exit)
  <2>1. Now(l, "append", exit, iter[l].loaded)
    BY <1>5, <1>2, NowCloses
  <2> QED
    BY <2>1, <1>1, <1>2, <1>3, <1>4 DEF Decided, Deciding, Typed
<1>6. CASE Leaves(l)
  <2>1. Now(l, "free", "none", 0)
    BY <1>6, NowLeaves
  <2>2. recent' = recent
    BY <2>1, <1>1 DEF Now, Typed
  <2> QED
    BY <2>1, <2>2, <1>1, <1>2, <1>3, <1>4 DEF Decided, Deciding
<1> QED
  BY <1>5, <1>6 DEF CloseAll, Order

LEMMA ResizeDecides ==
    ASSUME Typed, NEW l \in Lanes,
           \/ ScaleOut(l) \/ ScaleIn(l) \/ CloseHedge(l)
           \/ \E on \in Hedges \ {"none"} : OpenHedge(l, on)
    PROVE  Decided(l)
<1>0. iter[l].data \in Data /\ pos \in Int /\ hedge \in Nat
  BY IterationFields DEF Typed
<1>1. CASE ScaleOut(l)
  <2>1. PICK slice \in 1..iter[l].data.qty - 1 :
           Order(pos' = Reduces(slice, pos) /\ UNCHANGED hedge,
                 (paper \/ pos > 0)
                     /\ iter' = [iter EXCEPT ![l] =
                            [@ EXCEPT !.at = "append", !.exit = "slice",
                                      !.next = [iter[l].data EXCEPT !.qty = @ - slice]]],
                 Leaves(l))
    BY <1>1 DEF ScaleOut
  <2> DEFINE d == [iter[l].data EXCEPT !.qty = @ - slice]
             x == [iter[l] EXCEPT !.at = "append", !.exit = "slice", !.next = d]
  <2>2. d \in Data
    <3>1. iter[l].data.qty - slice \in 0..Cap
      <4>1. iter[l].data.qty \in 0..Cap /\ Cap \in Nat
        BY <1>0 DEF Data, Cap, EntryLot
      <4> QED
        BY <4>1
    <3> QED
      BY <3>1, <1>0 DEF Data
  <2>3. /\ x \in Iterations /\ x.at = "append" /\ x.exit = "slice"
        /\ x.loaded = iter[l].loaded /\ x.trade = iter[l].trade
    BY <2>2, IterationFields DEF Iterations, Places, Exits
  <2>4. Leaves(l) \/ iter' = [iter EXCEPT ![l] = x]
    BY <2>1 DEF Order
  <2> HIDE DEF d, x
  <2>5. Leaves(l) \/ Now(l, "append", "slice", iter[l].loaded)
    BY <2>3, <2>4 DEF Now, Typed
  <2>6. pos' \in Int /\ hedge' \in Nat /\ (mishaps' = mishaps \/ Mishap("lost"))
    BY <2>1, <1>0, ReducesInt DEF Order, exchange
  <2> QED
    BY <2>5, <2>6, <1>1, OrderDecides DEF ScaleOut, OpenUntouched, records
<1>2. CASE ScaleIn(l)
  <2>1. [iter[l].data EXCEPT !.qty = @ + 1] \in Data
    BY <1>0, <1>2, DataFields DEF ScaleIn
  <2>2. Leaves(l) \/ \E d \in Data : ContinuesWith(l, d)
    BY <1>2, <2>1 DEF ScaleIn, Order
  <2>3. pos' \in Int /\ hedge' \in Nat /\ (mishaps' = mishaps \/ Mishap("lost"))
    BY <1>2, <1>0 DEF ScaleIn, Order, exchange
  <2> QED
    BY <2>2, <2>3, <1>2, OrderDecides DEF ScaleIn, OpenUntouched, records
<1>3. CASE CloseHedge(l)
  <2>1. [iter[l].data EXCEPT !.hedge = "none"] \in Data
    BY <1>0, DataFields DEF Hedges
  <2>2. Leaves(l) \/ \E d \in Data : ContinuesWith(l, d)
    BY <1>3, <2>1 DEF CloseHedge, Order
  <2>3. pos' \in Int /\ hedge' \in Nat /\ (mishaps' = mishaps \/ Mishap("lost"))
    <3>1. -pos \in Int /\ Reduces(1, -pos) \in Int /\ Reduces(1, hedge) \in Nat
      BY <1>0, ReducesInt
    <3>2. \/ pos' = pos /\ hedge' = hedge
          \/ pos' = -Reduces(1, -pos) /\ hedge' = hedge
          \/ pos' = pos /\ hedge' = Reduces(1, hedge)
      BY <1>3 DEF CloseHedge, Order, exchange
    <3>3. mishaps' = mishaps \/ Mishap("lost")
      BY <1>3 DEF CloseHedge, Order
    <3> QED
      BY <3>1, <3>2, <3>3, <1>0
  <2> QED
    BY <2>2, <2>3, <1>3, OrderDecides DEF CloseHedge, OpenUntouched, records
<1>4. ASSUME NEW on \in Hedges \ {"none"}, OpenHedge(l, on)
      PROVE  Decided(l)
  <2>1. [iter[l].data EXCEPT !.hedge = on] \in Data
    BY <1>0, DataFields
  <2>2. Leaves(l) \/ \E d \in Data : ContinuesWith(l, d)
    BY <1>4, <2>1 DEF OpenHedge, Order
  <2>3. pos' \in Int /\ hedge' \in Nat /\ (mishaps' = mishaps \/ Mishap("lost"))
    BY <1>4, <1>0 DEF OpenHedge, Order, exchange
  <2> QED
    BY <2>2, <2>3, <1>4, OrderDecides DEF OpenHedge, OpenUntouched, records
<1> QED
  BY <1>1, <1>2, <1>3, <1>4

\* A step up to the close, whichever it is.
LEMMA DecideEffect ==
    ASSUME Typed, NEW l \in Lanes, Decides(l)
    PROVE  Decided(l)
<1>0. /\ iter[l].exit \in Exits /\ iter[l].loaded \in Nat /\ iter[l].data \in Data
      /\ iter[l].next \in Data /\ recent \in BOOLEAN /\ pos \in Int /\ hedge \in Nat
      /\ "none" \in Exits /\ "external" \in Exits /\ 0 \in Nat
      /\ mishaps \subseteq MishapKinds
  BY IterationFields DEF Typed, Exits
<1>1. CASE Reconcile(l)
  <2>1. \/ Now(l, "append", "external", iter[l].loaded)
        \/ Now(l, "decide", iter[l].exit, iter[l].loaded)
    BY <1>0, <1>1, NowCloses, NowGoes DEF Reconcile, Places
  <2> QED
    BY <2>1, <1>0, <1>1 DEF Reconcile, Decided, Deciding, OpenUntouched, exchange, records
<1>2. CASE Hold(l)
  <2>1. Now(l, "free", "none", 0)
    BY <1>2, NowLeaves DEF Hold
  <2> QED
    BY <2>1, <1>0, <1>2 DEF Hold, Decided, Deciding, OpenUntouched, exchange, records
<1>3. CASE Update(l)
  <2>1. Now(l, "done", "none", 0)
    BY <1>0, <1>3, NowRestarts DEF Update, Places
  <2>2. mishaps \subseteq mishaps' /\ mishaps' \subseteq MishapKinds
    BY <1>0, <1>3, MishapHappens DEF Update, MishapKinds
  <2> QED
    BY <2>1, <2>2, <1>0, <1>3 DEF Update, Decided, Deciding, OpenUntouched, exchange, records
<1>4. CASE Finish(l)
  <2>1. Now(l, "free", "none", 0)
    BY <1>4, NowLeaves DEF Finish
  <2> QED
    BY <2>1, <1>0, <1>4 DEF Finish, Decided, Deciding, OpenUntouched, exchange, records
<1> QED
  BY <1>1, <1>2, <1>3, <1>4, CloseDecides, ResizeDecides DEF Decides

\* The steps after the close.  A write that throws keeps the rest as it was.
Recording == {"append", "credit", "save", "mark", "complete"}

LEMMA ThrowEffect ==
    ASSUME Typed, NEW l \in Lanes, NEW kind \in MishapKinds, Throws(l, kind)
    PROVE  /\ mishaps' = mishaps \cup {kind} /\ mishaps' \subseteq MishapKinds
           /\ Now(l, "decide", "none", 0) \/ Now(l, "free", "none", 0)
<1>1. iter[l].data \in Data
  BY IterationFields
<1>2. Now(l, "decide", "none", 0) \/ Now(l, "free", "none", 0)
  BY <1>1, NowRestarts, NowLeaves DEF Throws, Places
<1> QED
  BY <1>2, MishapHappens DEF Throws

LEMMA AppendEffect ==
    ASSUME Typed, NEW l \in Lanes, AppendClosed(l)
    PROVE  /\ iter[l].at = "append"
           /\ OpenUntouched /\ UNCHANGED <<exchange, jobs, records>>
           /\ \/ /\ mishaps' = mishaps
                 /\ Now(l, Appended(iter[l].exit), iter[l].exit, iter[l].loaded)
              \/ /\ mishaps' = mishaps \cup {"append"} /\ mishaps' \subseteq MishapKinds
                 /\ Now(l, "decide", "none", 0) \/ Now(l, "free", "none", 0)
<1>1. Appended(iter[l].exit) \in Places /\ "append" \in MishapKinds
  BY DEF Appended, Places, MishapKinds
<1> QED
  BY <1>1, NowGoes, ThrowEffect DEF AppendClosed, OpenUntouched

LEMMA LoadEffect ==
    ASSUME Typed, NEW l \in Lanes, LoadCredits(l)
    PROVE  /\ iter[l].at = "credit"
           /\ OpenUntouched /\ UNCHANGED <<exchange, jobs, records>>
           /\ mishaps' \subseteq MishapKinds
           /\ \E seen \in Nat :
                 /\ Now(l, "save", iter[l].exit, seen)
                 /\ \/ seen = allocator /\ mishaps' = mishaps
                    \/ mishaps' = mishaps \cup {"blank"}
<1>1. PICK seen \in {allocator, 0} :
         /\ iter' = [iter EXCEPT ![l] = [@ EXCEPT !.at = "save", !.loaded = seen]]
         /\ IF seen = allocator THEN UNCHANGED mishaps ELSE Mishap("blank")
  BY DEF LoadCredits
<1> DEFINE x == [iter[l] EXCEPT !.at = "save", !.loaded = seen]
<1>0. seen \in Nat
  BY DEF Typed
<1>2. /\ x \in Iterations /\ x.at = "save" /\ x.exit = iter[l].exit
      /\ x.loaded = seen /\ x.trade = iter[l].trade
  BY <1>0, IterationFields DEF Iterations, Places
<1>3. iter' = [iter EXCEPT ![l] = x]
  BY <1>1
<1> HIDE DEF x
<1>4. Now(l, "save", iter[l].exit, seen)
  BY <1>2, <1>3 DEF Now, Typed
<1>5. /\ mishaps' \subseteq MishapKinds
      /\ \/ seen = allocator /\ mishaps' = mishaps
         \/ mishaps' = mishaps \cup {"blank"}
  BY <1>1, MishapHappens DEF Typed, MishapKinds
<1> QED
  BY <1>0, <1>4, <1>5 DEF LoadCredits, OpenUntouched

LEMMA SaveEffect ==
    ASSUME Typed, NEW l \in Lanes, SaveCredits(l)
    PROVE  /\ iter[l].at = "save"
           /\ OpenUntouched /\ UNCHANGED <<exchange, jobs, cooling, recent>>
           /\ \/ /\ mishaps' = mishaps /\ allocator' = iter[l].loaded + 1 /\ allocator' \in Nat
                 /\ \E at \in {"mark", "complete"} : Now(l, at, iter[l].exit, iter[l].loaded)
              \/ /\ mishaps' = mishaps \cup {"mark"} /\ mishaps' \subseteq MishapKinds
                 /\ allocator' = allocator
                 /\ Now(l, "decide", "none", 0) \/ Now(l, "free", "none", 0)
<1>1. /\ (IF iter[l].exit = "external" THEN "complete" ELSE "mark") \in {"mark", "complete"}
      /\ {"mark", "complete"} \subseteq Places /\ "mark" \in MishapKinds /\ iter[l].loaded \in Nat
  BY IterationFields DEF Places, MishapKinds
<1> QED
  BY <1>1, NowGoes, ThrowEffect DEF SaveCredits, OpenUntouched

LEMMA MarkEffect ==
    ASSUME Typed, NEW l \in Lanes, MarkTime(l)
    PROVE  /\ iter[l].at = "mark"
           /\ OpenUntouched /\ UNCHANGED <<exchange, jobs, recent, allocator>>
           /\ \/ /\ mishaps' = mishaps /\ cooling' = (cooling \/ iter[l].exit = "cut")
                 /\ Now(l, "complete", iter[l].exit, iter[l].loaded)
              \/ /\ mishaps' = mishaps \cup {"mark"} /\ mishaps' \subseteq MishapKinds
                 /\ cooling' = cooling
                 /\ Now(l, "decide", "none", 0) \/ Now(l, "free", "none", 0)
<1>1. "complete" \in Places /\ "mark" \in MishapKinds
  BY DEF Places, MishapKinds
<1> QED
  BY <1>1, NowGoes, ThrowEffect DEF MarkTime, OpenUntouched

LEMMA CompleteEffect ==
    ASSUME Typed, NEW l \in Lanes, Complete(l)
    PROVE  /\ iter[l].at = "complete"
           /\ OpenUntouched /\ UNCHANGED <<exchange, records>>
           /\ Now(l, "free", "none", 0)
           /\ \/ /\ mishaps' = mishaps
                 /\ repeats' = repeats \ {iter[l].trade}
                 /\ queue' \in [Trades -> Queued]
                 /\ \A t \in Trades \ {iter[l].trade} : queue'[t] = queue[t]
              \/ /\ mishaps' = mishaps \cup {"remove"} /\ mishaps' \subseteq MishapKinds
                 /\ UNCHANGED jobs
<1>1. "remove" \in MishapKinds
  BY DEF MishapKinds
<1>2. Now(l, "free", "none", 0)
  BY NowLeaves DEF Complete
<1>3. CASE Mishap("remove") /\ UNCHANGED jobs
  BY <1>1, <1>2, <1>3, MishapHappens DEF Complete, OpenUntouched
<1>4. CASE /\ repeats' = repeats \ {iter[l].trade} /\ mishaps' = mishaps
           /\ queue' = IF queue[iter[l].trade].at = "delayed"
                       THEN [queue EXCEPT ![iter[l].trade] = NotQueued] ELSE queue
  BY <1>2, <1>4, Shapes DEF Complete, OpenUntouched, Typed
<1> QED
  BY <1>3, <1>4 DEF Complete

-----------------------------------------------------------------------------
(* The open tick.                                                          *)

PastGate == {"cooldown", "load", "select", "decide", "order", "enqueue"}

\* The steps of the open tick before its order.
TickMoves ==
    /\ UNCHANGED <<strategy, paper, exchange, jobs, iter, cooling, recent, trades, managed>>
    /\ open' \in Ticks /\ open'.at # "enqueue" /\ allocator' \in Nat /\ missed' \in BOOLEAN
    /\ missed => missed'
    /\ mishaps \subseteq mishaps' /\ mishaps' \subseteq MishapKinds
    /\ open'.at \in PastGate /\ ~missed' => open.at \in PastGate \/ ~Alive
    /\ open'.at \in {"decide", "order"} /\ strategy = "llm-managed" =>
          open.at \in {"decide", "order"} \/ ~cooling
    /\ allocator' = allocator \/ (open.at = "select" /\ allocator' = open.loaded)
    /\ open'.at = "select" =>
          \/ open.at = "load" /\ open'.loaded = allocator /\ allocator' = allocator
          \/ "blank" \in mishaps'

LEMMA GateMoves ==
    ASSUME Typed, NEW to \in {"load", "cooldown", "decide"}, Gate("idle", to),
           to = "decide" => strategy # "llm-managed"
    PROVE  TickMoves
<1>0. open \in Ticks /\ missed \in BOOLEAN /\ allocator \in Nat /\ mishaps \subseteq MishapKinds
  BY DEF Typed
<1>1. CASE CountActive("idle")
  BY <1>0, <1>1, Shapes DEF CountActive, Count, OpenGoes, Ticks, PastGate, TickMoves, records
<1>2. CASE CountWaiting
  BY <1>0, <1>2, Shapes DEF CountWaiting, Count, OpenGoes, Ticks, PastGate, TickMoves, records
<1>3. CASE CountDelayed(to)
  <2>1. /\ open.at = "delayed" /\ missed' = (missed \/ (Delayed = {} /\ Alive))
        /\ IF Delayed # {} THEN open' = NoTick ELSE OpenGoes(to)
        /\ UNCHANGED <<strategy, paper, exchange, jobs, iter, records, trades, managed, mishaps>>
    BY <1>3 DEF CountDelayed, Count
  <2>2. open' \in Ticks /\ (open' = NoTick \/ (Delayed = {} /\ open'.at = to))
    BY <2>1, <1>0, Shapes DEF OpenGoes, Ticks
  <2> QED
    BY <2>1, <2>2, <1>0, Shapes DEF PastGate, TickMoves, records
<1> QED
  BY <1>1, <1>2, <1>3 DEF Gate

LEMMA DecideMoves ==
    ASSUME Typed, DecideEntry("decide")
    PROVE  TickMoves
  BY Shapes DEF Typed, DecideEntry, OpenGoes, Ticks, PastGate, TickMoves, records, history

LEMMA CooldownMoves ==
    ASSUME Typed, CheckCooldown("cooldown", "decide")
    PROVE  TickMoves
  BY Shapes DEF Typed, CheckCooldown, OpenGoes, Ticks, PastGate, TickMoves, records, history

LEMMA AllocatorMoves ==
    ASSUME Typed, strategy = "ma-crossover",
           LoadAllocator("load", "select") \/ SelectChampion("select", "decide")
    PROVE  TickMoves
<1>0. /\ open \in Ticks /\ missed \in BOOLEAN /\ allocator \in Nat /\ open.loaded \in Nat
      /\ mishaps \subseteq MishapKinds /\ "blank" \in MishapKinds
  BY DEF Typed, Ticks, MishapKinds
<1>1. CASE LoadAllocator("load", "select")
  <2>1. \/ open' = [at |-> "select", loaded |-> allocator] /\ mishaps' = mishaps
        \/ open' = [at |-> "select", loaded |-> 0] /\ mishaps' = mishaps \cup {"blank"}
    BY <1>0, <1>1, MishapHappens DEF LoadAllocator
  <2> QED
    BY <1>0, <1>1, <2>1 DEF LoadAllocator, Ticks, PastGate, TickMoves, records, history
<1>2. CASE SelectChampion("select", "decide")
  BY <1>0, <1>2 DEF SelectChampion, NoTick, Ticks, PastGate, TickMoves, history
<1> QED
  BY <1>1, <1>2

LEMMA EntryEffect ==
    ASSUME Typed, PlaceEntry
    PROVE  /\ open.at = "order" /\ open' \in Ticks
           /\ UNCHANGED <<strategy, paper, hedge, jobs, iter, records, managed, missed>>
           /\ pos' \in Int /\ trades' \in 0..MaxTrades
           /\ mishaps \subseteq mishaps' /\ mishaps' \subseteq MishapKinds
           /\ open'.at = "idle" \/ (open'.at = "enqueue" /\ trades' \in Trades)
<1>1. /\ open.at = "order" /\ trades < MaxTrades /\ trades \in 0..MaxTrades /\ pos \in Int
      /\ UNCHANGED <<strategy, paper, jobs, iter, records, managed, missed>>
      /\ trades' = IF pos' = pos THEN trades ELSE trades + 1
  BY DEF PlaceEntry, Typed
<1>2. /\ hedge' = hedge
      /\ \/ OpenGoes("enqueue") /\ pos' = pos + EntryLot
         \/ open' = NoTick /\ (pos' = pos \/ pos' = pos + EntryLot)
  BY DEF PlaceEntry, Order, exchange
<1>3. mishaps \subseteq mishaps' /\ mishaps' \subseteq MishapKinds
  <2>1. mishaps' = mishaps \/ Mishap("lost")
    BY DEF PlaceEntry, Order
  <2> QED
    BY <2>1, MishapHappens DEF Typed, MishapKinds
<1>4. /\ trades + 1 \in 0..MaxTrades /\ trades + 1 \in Trades /\ pos + EntryLot \in Int
      /\ pos + EntryLot # pos
  BY <1>1, WorkersAssumption DEF WorkersAssumption, Trades, EntryLot
<1>5. OpenGoes("enqueue") => open' \in Ticks /\ open'.at = "enqueue"
  BY DEF Typed, OpenGoes, Ticks
<1> QED
  BY <1>1, <1>2, <1>3, <1>4, <1>5, Shapes

LEMMA EnqueueEffect ==
    ASSUME Typed, trades \in Trades, EnqueueManage
    PROVE  /\ open.at = "enqueue" /\ open' = NoTick
           /\ UNCHANGED <<strategy, paper, exchange, iter, records, trades, missed>>
           /\ mishaps \subseteq mishaps' /\ mishaps' \subseteq MishapKinds
           /\ \/ /\ queue' \in [Trades -> Queued] /\ queue'[trades].at # "none"
                 /\ \A t \in Trades \ {trades} : queue'[t] = queue[t]
                 /\ repeats' = repeats \cup {trades} /\ managed' = managed + 1
              \/ UNCHANGED <<jobs, managed>>
<1>1. /\ open.at = "enqueue" /\ open' = NoTick
      /\ UNCHANGED <<strategy, paper, exchange, iter, records, trades, missed>>
  BY DEF EnqueueManage
<1>2. CASE UNCHANGED <<jobs, managed>> /\ Mishap("add")
  BY <1>1, <1>2, MishapHappens DEF Typed, MishapKinds
<1>3. CASE /\ queue' = [queue EXCEPT ![trades] = [at |-> "delayed", data |-> EntryData]]
           /\ repeats' = repeats \cup {trades} /\ managed' = managed + 1 /\ UNCHANGED mishaps
  <2>1. [at |-> "delayed", data |-> EntryData] \in Queued
    BY Shapes DEF Queued
  <2> QED
    BY <1>1, <1>3, <2>1 DEF Typed
<1> QED
  BY <1>2, <1>3 DEF EnqueueManage

LEMMA OpenEffect ==
    ASSUME Typed, Open
    PROVE  TickMoves \/ PlaceEntry \/ EnqueueManage
<1>1. CASE LongerTfOpen \/ BollingerAdxOpen \/ FundingArbOpen \/ CascadeOpen
  BY <1>1, GateMoves, DecideMoves DEF LongerTfOpen, BollingerAdxOpen, FundingArbOpen, CascadeOpen
<1>2. CASE MaCrossoverOpen
  BY <1>2, GateMoves, DecideMoves, AllocatorMoves DEF MaCrossoverOpen
<1>3. CASE LlmManagedOpen
  BY <1>3, GateMoves, DecideMoves, CooldownMoves DEF LlmManagedOpen
<1> QED
  BY <1>1, <1>2, <1>3 DEF Open, OrderAndEnqueue

-----------------------------------------------------------------------------
(* Iterations are handed out.                                              *)

LEMMA AliveFacts ==
    ASSUME Typed
    PROVE  /\ \A l \in Lanes : iter[l].at # "free" => Alive
           /\ \A t \in Trades : queue[t].at # "none" => Alive
           /\ ~Alive => /\ \A l \in Lanes : iter[l].at = "free"
                        /\ \A t \in Trades : queue[t].at = "none"
<1>1. \A l \in Lanes : iter[l].at # "free" => l \in Active \cup Stalled
  BY DEF Active, Stalled, Parked
<1>2. \A t \in Trades : queue[t].at # "none" => t \in Waiting \cup Delayed
  BY DEF Typed, Queued, Waiting, Delayed
<1> QED
  BY <1>1, <1>2 DEF Alive

LEMMA PromoteEffect ==
    ASSUME Typed, NEW t \in Trades, Promote(t)
    PROVE  /\ queue[t].at # "none"
           /\ OpenUntouched /\ UNCHANGED <<exchange, repeats, iter, records, mishaps>>
           /\ queue' \in [Trades -> Queued]
           /\ \A u \in Trades : queue[u].at # "none" => queue'[u].at # "none"
<1>1. queue[t] \in Queued
  BY DEF Typed
<1>2. /\ [queue[t] EXCEPT !.at = "waiting"] \in Queued
      /\ [queue[t] EXCEPT !.at = "waiting"].at = "waiting"
  BY <1>1 DEF Queued
<1>3. queue' = [queue EXCEPT ![t] = [queue[t] EXCEPT !.at = "waiting"]]
  BY DEF Promote
<1> QED
  BY <1>2, <1>3 DEF Promote, OpenUntouched, Typed

\* The iteration keeps its trade, or is the one that was queued.
LEMMA PickEffect ==
    ASSUME Typed, NEW l \in Lanes, Pick(l)
    PROVE  /\ Alive /\ iter[l].at \in Parked
           /\ OpenUntouched /\ UNCHANGED <<exchange, repeats, records, mishaps>>
           /\ queue' \in [Trades -> Queued]
           /\ iter' \in [Lanes -> Iterations] /\ \A k \in Lanes \ {l} : iter'[k] = iter[k]
           /\ iter'[l].at = "picked" /\ iter'[l].exit \in {iter[l].exit, "none"}
           /\ \/ iter[l].at = "stalled" /\ iter'[l].trade = iter[l].trade /\ queue' = queue
              \/ /\ iter[l].at = "free"
                 /\ \E t \in Trades : /\ iter'[l].trade = t
                                      /\ \A u \in Trades \ {t} : queue'[u] = queue[u]
<1>1. OpenUntouched /\ UNCHANGED <<exchange, repeats, records, mishaps>>
  BY DEF Pick, OpenUntouched
<1>2. CASE iter[l].at = "stalled" /\ Goes(l, "picked") /\ UNCHANGED queue
  <2>1. Now(l, "picked", iter[l].exit, iter[l].loaded)
    BY <1>2, NowGoes DEF Places
  <2> QED
    BY <1>1, <1>2, <2>1, AliveFacts DEF Now, Parked, Typed
<1>3. ASSUME iter[l].at = "free", NEW t \in Waiting,
             iter' = [iter EXCEPT ![l] =
                        [Free EXCEPT !.at = "picked", !.trade = t, !.data = queue[t].data]],
             queue' = [queue EXCEPT ![t] = NotQueued]
      PROVE  /\ Alive /\ queue' \in [Trades -> Queued]
             /\ iter' \in [Lanes -> Iterations] /\ \A k \in Lanes \ {l} : iter'[k] = iter[k]
             /\ iter'[l].at = "picked" /\ iter'[l].exit = "none"
             /\ t \in Trades /\ iter'[l].trade = t
             /\ \A u \in Trades \ {t} : queue'[u] = queue[u]
  <2> DEFINE x == [Free EXCEPT !.at = "picked", !.trade = t, !.data = queue[t].data]
  <2>1. t \in Trades /\ t \in Nat /\ queue[t].data \in Data /\ queue[t].at = "waiting"
    BY <1>3 DEF Waiting, Trades, Typed, Queued
  <2>2. x \in Iterations /\ x.at = "picked" /\ x.exit = "none" /\ x.trade = t
    BY <2>1, Shapes DEF Free, Iterations, Places, Exits
  <2> HIDE DEF x
  <2>3. iter' = [iter EXCEPT ![l] = x]
    BY <1>3 DEF x
  <2> QED
    BY <1>3, <2>1, <2>2, <2>3, Shapes, AliveFacts DEF Typed
<1> QED
  BY <1>1, <1>2, <1>3 DEF Pick, Parked

LEMMA ScheduleEffect ==
    ASSUME Typed, NEW l \in Lanes, ScheduleNext(l)
    PROVE  /\ iter[l].at = "picked"
           /\ OpenUntouched /\ UNCHANGED <<exchange, repeats, records, mishaps>>
           /\ Now(l, "reconcile", iter[l].exit, iter[l].loaded)
           /\ queue' \in [Trades -> Queued]
           /\ \A u \in Trades : queue[u].at # "none" => queue'[u].at # "none"
           /\ iter[l].trade \in repeats => queue'[iter[l].trade].at # "none"
<1>1. /\ iter[l].at = "picked" /\ OpenUntouched /\ UNCHANGED <<exchange, repeats, records, mishaps>>
      /\ Now(l, "reconcile", iter[l].exit, iter[l].loaded)
  BY NowGoes DEF ScheduleNext, OpenUntouched, Places
<1> DEFINE t == iter[l].trade
<1>2. CASE t \in repeats /\ queue[t].at = "none"
  <2>1. /\ queue' = [queue EXCEPT ![t] = [at |-> "delayed", data |-> iter[l].data]]
        /\ [at |-> "delayed", data |-> iter[l].data] \in Queued /\ t \in Trades
    BY <1>2, IterationFields DEF ScheduleNext, Queued, Typed
  <2> QED
    BY <1>1, <2>1 DEF Typed
<1>3. CASE ~(t \in repeats /\ queue[t].at = "none")
  <2>1. queue' = queue
    BY <1>3 DEF ScheduleNext
  <2> QED
    BY <1>1, <1>3, <2>1 DEF Typed
<1> QED
  BY <1>2, <1>3

LEMMA CrashEffect ==
    ASSUME Typed, Crash
    PROVE  /\ open' = NoTick /\ mishaps' = mishaps \cup {"crash"} /\ mishaps' \subseteq MishapKinds
           /\ UNCHANGED <<strategy, paper, exchange, jobs, records, history>>
           /\ iter' \in [Lanes -> Iterations]
           /\ \A l \in Lanes : \/ iter'[l] = iter[l] /\ iter[l].at \in Parked
                               \/ /\ iter'[l].at = "stalled" /\ iter'[l].trade = iter[l].trade
                                  /\ iter'[l].exit = "none"
<1>1. \A l \in Lanes : LET x == [Free EXCEPT !.at = "stalled", !.trade = iter[l].trade,
                                             !.data = iter[l].data]
                       IN  /\ x \in Iterations /\ x.at = "stalled" /\ x.exit = "none"
                           /\ x.trade = iter[l].trade
  <2> TAKE l \in Lanes
  <2> QED
    BY IterationFields, Shapes DEF Free, Iterations, Places, Exits
<1>2. \A l \in Lanes : iter[l] \in Iterations
  BY DEF Typed
<1>3. mishaps' = mishaps \cup {"crash"} /\ mishaps' \subseteq MishapKinds
  BY MishapHappens DEF Crash, MishapKinds
<1>4. iter' = [l \in Lanes |->
           IF iter[l].at \in Parked THEN iter[l]
           ELSE [Free EXCEPT !.at = "stalled", !.trade = iter[l].trade, !.data = iter[l].data]]
  BY DEF Crash
<1>5. iter' \in [Lanes -> Iterations]
  BY <1>1, <1>2, <1>4
<1>6. \A l \in Lanes : \/ iter'[l] = iter[l] /\ iter[l].at \in Parked
                       \/ /\ iter'[l].at = "stalled" /\ iter'[l].trade = iter[l].trade
                          /\ iter'[l].exit = "none"
  BY <1>1, <1>4
<1> QED
  BY <1>3, <1>5, <1>6 DEF Crash

-----------------------------------------------------------------------------
(* Types, and what the gate keeps apart.                                   *)

\* Past the gate no iteration exists, unless the counts have missed one; and
\* an entry that waits for its manage job is counted.
GateInv ==
    /\ Typed
    /\ open.at \in PastGate /\ ~missed => ~Alive
    /\ open.at = "enqueue" => trades \in Trades

\* A step of an iteration, in the terms of the gate.
LEMMA IterationStep ==
    ASSUME Typed, NEW l \in Lanes,
           \/ Pick(l) \/ ScheduleNext(l) \/ Decides(l)
           \/ AppendClosed(l) \/ MarkTime(l) \/ Complete(l) \/ LoadCredits(l) \/ SaveCredits(l)
    PROVE  Alive /\ OpenUntouched /\ Typed'
<1>0. /\ exchange = <<pos, hedge>> /\ jobs = <<queue, repeats>>
      /\ records = <<cooling, recent, allocator>> /\ history = <<trades, managed, missed>>
  BY DEF exchange, jobs, records, history
<1>1. CASE Pick(l)
  BY <1>1, PickEffect DEF Typed, OpenUntouched, exchange, records, history
<1>2. CASE ScheduleNext(l)
  BY <1>2, ScheduleEffect, AliveFacts DEF Typed, Now, OpenUntouched, exchange, records, history
<1>3. CASE Decides(l)
  <2>1. Decided(l)
    BY <1>3, DecideEffect
  <2> QED
    BY <2>1, AliveFacts DEF Decided, Deciding, Typed, Now, OpenUntouched, jobs, history
<1>4. CASE AppendClosed(l)
  BY <1>4, AppendEffect, AliveFacts DEF Typed, Now, OpenUntouched, exchange, jobs, records, history
<1>5. CASE MarkTime(l)
  <2>1. cooling' \in BOOLEAN
    BY <1>5, MarkEffect DEF Typed
  <2> QED
    BY <2>1, <1>5, MarkEffect, AliveFacts DEF Typed, Now, OpenUntouched, exchange, jobs, history
<1>6. CASE Complete(l)
  BY <1>6, CompleteEffect, AliveFacts DEF Typed, Now, OpenUntouched, exchange, jobs, records, history
<1>7. CASE LoadCredits(l)
  BY <1>7, LoadEffect, AliveFacts DEF Typed, Now, OpenUntouched, exchange, jobs, records, history
<1>8. CASE SaveCredits(l)
  BY <1>8, SaveEffect, AliveFacts DEF Typed, Now, OpenUntouched, exchange, jobs, history
<1> QED
  BY <1>1, <1>2, <1>3, <1>4, <1>5, <1>6, <1>7, <1>8

LEMMA GateInvariant ==
    /\ Init => GateInv
    /\ GateInv /\ [Next]_vars => GateInv'
<1>1. Init => GateInv
  <2> SUFFICES ASSUME Init PROVE GateInv
    OBVIOUS
  <2>1. /\ open \in Ticks /\ queue \in [Trades -> Queued] /\ iter \in [Lanes -> Iterations]
        /\ pos \in Int /\ hedge \in Nat /\ allocator \in Nat /\ managed \in Nat
    BY Shapes DEF Init
  <2>2. /\ trades \in 0..MaxTrades /\ paper \in BOOLEAN /\ strategy \in Strategies
    BY WorkersAssumption DEF Init, WorkersAssumption
  <2>3. /\ repeats \subseteq Trades /\ mishaps \subseteq MishapKinds
        /\ cooling \in BOOLEAN /\ recent \in BOOLEAN /\ missed \in BOOLEAN
    BY DEF Init
  <2>4. Typed
    BY <2>1, <2>2, <2>3 DEF Typed
  <2> QED
    BY <2>4, Shapes DEF Init, GateInv, PastGate
<1>2. ASSUME GateInv, [Next]_vars PROVE GateInv'
  <2>0. Typed /\ missed \in BOOLEAN
    BY <1>2 DEF GateInv, Typed
  <2>1. CASE UNCHANGED vars
    BY <1>2, <2>1 DEF GateInv, Typed, Alive, Active, Stalled, Waiting, Delayed, vars, exchange,
                      jobs, records, history
  <2>2. CASE TickMoves
    <3>1. Typed' /\ Alive' = Alive
      BY <2>0, <2>2 DEF TickMoves, Typed, Alive, Active, Stalled, Waiting, Delayed, exchange, jobs
    <3> QED
      BY <1>2, <2>0, <2>2, <3>1 DEF GateInv, TickMoves, exchange, jobs
  <2>3. CASE PlaceEntry
    <3>1. /\ open.at = "order" /\ UNCHANGED <<queue, iter, missed>>
          /\ open'.at = "idle" \/ (open'.at = "enqueue" /\ trades' \in Trades)
      BY <2>0, <2>3, EntryEffect DEF jobs
    <3>2. Typed'
      BY <2>0, <2>3, EntryEffect DEF Typed, jobs, records
    <3>3. Alive' = Alive
      BY <3>1 DEF Alive, Active, Stalled, Waiting, Delayed
    <3> QED
      BY <1>2, <3>1, <3>2, <3>3 DEF GateInv, PastGate
  <2>4. CASE EnqueueManage
    <3>1. trades \in Trades /\ open'.at = "idle"
      BY <1>2, <2>4, Shapes DEF GateInv, EnqueueManage
    <3>2. /\ open' \in Ticks /\ mishaps' \subseteq MishapKinds
          /\ UNCHANGED <<strategy, paper, exchange, iter, records, trades, missed>>
          /\ queue' \in [Trades -> Queued]
          /\ repeats' = repeats \/ repeats' = repeats \cup {trades}
          /\ managed' = managed \/ managed' = managed + 1
      BY <2>0, <2>4, <3>1, Shapes, EnqueueEffect DEF Typed, jobs
    <3>3. repeats' \subseteq Trades /\ managed' \in Nat
      <4>1. repeats \subseteq Trades /\ managed \in Nat
        BY <2>0 DEF Typed
      <4>2. repeats' \subseteq Trades
        BY <4>1, <3>1, <3>2, Zenon
      <4> QED
        BY <4>1, <4>2, <3>2
    <3>4. Typed'
      BY <2>0, <3>2, <3>3 DEF Typed, exchange, records
    <3> QED
      BY <3>1, <3>4 DEF GateInv, PastGate
  <2>5. CASE NativeExit \/ CooldownOver
    <3>1. /\ UNCHANGED <<queue, iter, missed, open, trades>> /\ pos' \in Int
          /\ cooling' \in BOOLEAN /\ recent' \in BOOLEAN
          /\ UNCHANGED <<strategy, paper, hedge, repeats, allocator, managed, mishaps>>
      <4>1. CASE NativeExit
        BY <2>0, <4>1 DEF Typed, NativeExit, jobs, records, history
      <4>2. CASE CooldownOver
        BY <2>0, <4>2 DEF Typed, CooldownOver, exchange, jobs, history
      <4> QED
        BY <2>5, <4>1, <4>2
    <3>2. Typed' /\ Alive' = Alive
      BY <2>0, <3>1 DEF Typed, Alive, Active, Stalled, Waiting, Delayed
    <3> QED
      BY <1>2, <3>1, <3>2 DEF GateInv
  <2>6. CASE Crash
    <3>1. Typed' /\ open'.at = "idle"
      BY <2>0, <2>6, Shapes, CrashEffect DEF Typed, exchange, jobs, records, history
    <3> QED
      BY <3>1 DEF GateInv, PastGate
  <2>7. ASSUME NEW t \in Trades, Promote(t) PROVE GateInv'
    <3>1. Alive /\ OpenUntouched
      BY <2>0, <2>7, PromoteEffect, AliveFacts
    <3>2. Typed'
      BY <2>0, <2>7, PromoteEffect DEF Typed, OpenUntouched, exchange, records, history
    <3> QED
      BY <1>2, <3>1, <3>2 DEF GateInv, OpenUntouched, history
  <2>8. ASSUME NEW l \in Lanes,
               \/ Pick(l) \/ ScheduleNext(l) \/ Decides(l)
               \/ AppendClosed(l) \/ MarkTime(l) \/ Complete(l)
               \/ LoadCredits(l) \/ SaveCredits(l)
        PROVE  GateInv'
    <3>1. Alive /\ OpenUntouched /\ Typed'
      BY <2>0, <2>8, IterationStep
    <3> QED
      BY <1>2, <3>1 DEF GateInv, OpenUntouched, history
  <2>9. CASE Open
    BY <2>0, <2>2, <2>3, <2>4, <2>9, OpenEffect
  <2> QED
    BY <1>2, <2>1, <2>5, <2>6, <2>7, <2>8, <2>9, Steps
<1> QED
  BY <1>1, <1>2

\* Every variable keeps its type and the recorded size stays within the cap,
\* whatever fails and however the iterations overlap.
THEOREM TypeCorrect == Spec => []TypeOK
<1>1. GateInv => TypeOK
  BY TypedFits DEF GateInv
<1> QED
  BY <1>1, GateInvariant, PTL DEF Spec

-----------------------------------------------------------------------------
(* The cooldown after a cut loss.                                          *)

\* A failed write or a death may have lost the time of a loss.
Careless == mishaps \cap {"append", "mark", "crash"} # {}

\* A recent loss is on record, or the iteration that cut it still has to
\* write its time; only llm-managed cuts losses; and its open tick goes on
\* only with no loss on record and no iteration that could bring one.
CoolInv ==
    /\ recent => cooling \/ CutPending # {} \/ Careless
    /\ strategy # "llm-managed" => ~cooling /\ ~recent /\ \A l \in Lanes : iter[l].exit # "cut"
    /\ open.at \in {"decide", "order"} /\ strategy = "llm-managed" /\ ~missed /\ ~Careless => ~recent

\* An iteration moves on without cutting a loss, or cuts one, or records one.
LEMMA IterationCools ==
    ASSUME Typed, CoolInv, Alive, NEW l \in Lanes,
           open.at \in PastGate /\ ~missed => ~Alive,
           \/ Pick(l) \/ ScheduleNext(l) \/ Decides(l)
           \/ AppendClosed(l) \/ MarkTime(l) \/ Complete(l)
           \/ strategy = "ma-crossover" /\ (LoadCredits(l) \/ SaveCredits(l))
    PROVE  CoolInv'
<1> DEFINE Leads(at, exit) ==
              /\ \A k \in Lanes \ {l} : iter'[k] = iter[k]
              /\ iter'[l].at = at /\ iter'[l].exit = exit
<1>0. /\ OpenUntouched /\ Typed'
      /\ strategy' = strategy /\ open' = open /\ missed' = missed
  BY IterationStep DEF OpenUntouched, history
<1>1. open.at \in {"decide", "order"} => missed
  BY DEF PastGate
<1>2. ASSUME NEW at, NEW exit, Leads(at, exit),
             exit = "cut" => strategy = "llm-managed" \/ iter[l].exit = "cut",
             mishaps \subseteq mishaps', UNCHANGED <<cooling, recent>>,
             \/ iter[l].at \notin {"append", "mark"} \/ iter[l].exit # "cut"
             \/ at \in {"append", "mark"} /\ exit = "cut"
             \/ Careless'
      PROVE  CoolInv'
  <2>1. Careless => Careless'
    BY <1>2 DEF Careless
  <2>2. CutPending # {} => CutPending' # {} \/ Careless'
    <3>1. ASSUME NEW k \in CutPending PROVE k \in CutPending' \/ Careless'
      BY <1>2, <3>1 DEF CutPending
    <3> QED
      BY <3>1
  <2>3. strategy # "llm-managed" => \A k \in Lanes : iter'[k].exit # "cut"
    BY <1>2 DEF CoolInv
  <2> QED
    BY <1>0, <1>1, <1>2, <2>1, <2>2, <2>3 DEF CoolInv
<1>3. CASE Pick(l)
  BY <1>2, <1>3, PickEffect DEF records, Parked
<1>4. CASE ScheduleNext(l)
  BY <1>2, <1>4, ScheduleEffect DEF Now, records
<1>5. CASE Decides(l)
  <2>1. PICK at \in {"free", "append", "decide", "update", "done"}, exit \in Exits, loaded \in Nat :
           /\ Now(l, at, exit, loaded)
           /\ exit = "cut" => strategy = "llm-managed" \/ iter[l].exit = "cut"
           /\ recent' # recent => recent' /\ at = "append" /\ exit = "cut"
    BY <1>5, DecideEffect DEF Decided
  <2>2. /\ iter[l].at \notin {"append", "mark"} /\ mishaps \subseteq mishaps' /\ cooling' = cooling
        /\ recent \in BOOLEAN /\ recent' \in BOOLEAN
    BY <1>5, DecideEffect DEF Decided, Deciding, Typed
  <2>3. CASE recent' = recent
    BY <1>2, <2>1, <2>2, <2>3 DEF Now
  <2>4. CASE recent' # recent
    <3>1. l \in CutPending'
      BY <2>1, <2>4 DEF Now, CutPending
    <3>2. strategy # "llm-managed" => \A k \in Lanes : iter[k].exit # "cut"
      BY DEF CoolInv
    <3>3. strategy = "llm-managed"
      BY <2>1, <2>4, <3>2
    <3> QED
      BY <1>0, <1>1, <3>1, <3>3 DEF CoolInv
  <2> QED
    BY <2>3, <2>4
<1>6. CASE AppendClosed(l)
  <2>1. CASE /\ mishaps' = mishaps
             /\ Now(l, Appended(iter[l].exit), iter[l].exit, iter[l].loaded)
    <3>1. iter[l].exit = "cut" => Appended(iter[l].exit) = "mark"
      BY DEF CoolInv, Appended
    <3> QED
      BY <1>2, <1>6, <2>1, <3>1, AppendEffect DEF Now, records
  <2>2. CASE /\ mishaps' = mishaps \cup {"append"}
             /\ Now(l, "decide", "none", 0) \/ Now(l, "free", "none", 0)
    <3>1. Careless'
      BY <2>2 DEF Careless
    <3> QED
      BY <1>2, <1>6, <2>2, <3>1, AppendEffect DEF Now, records
  <2> QED
    BY <1>6, <2>1, <2>2, AppendEffect
<1>7. CASE MarkTime(l)
  <2>1. recent' = recent /\ iter[l].at = "mark"
    BY <1>7, MarkEffect
  <2>2. CASE /\ mishaps' = mishaps /\ cooling' = (cooling \/ iter[l].exit = "cut")
             /\ Now(l, "complete", iter[l].exit, iter[l].loaded)
    <3>1. CASE iter[l].exit = "cut"
      <4>1. strategy = "llm-managed" /\ cooling'
        BY <2>2, <3>1 DEF CoolInv
      <4> QED
        BY <1>0, <1>1, <4>1 DEF CoolInv
    <3>2. CASE iter[l].exit # "cut"
      <4>1. cooling' = cooling
        BY <2>2, <3>2 DEF Typed
      <4> QED
        BY <1>2, <2>1, <2>2, <3>2, <4>1 DEF Now
    <3> QED
      BY <3>1, <3>2
  <2>3. CASE /\ mishaps' = mishaps \cup {"mark"} /\ cooling' = cooling
             /\ Now(l, "decide", "none", 0) \/ Now(l, "free", "none", 0)
    <3>1. Careless'
      BY <2>3 DEF Careless
    <3> QED
      BY <1>2, <2>1, <2>3, <3>1 DEF Now
  <2> QED
    BY <1>7, <2>2, <2>3, MarkEffect
<1>8. CASE Complete(l)
  <2>1. /\ iter[l].at = "complete" /\ UNCHANGED <<cooling, recent>> /\ mishaps \subseteq mishaps'
        /\ Now(l, "free", "none", 0)
    BY <1>8, CompleteEffect DEF records
  <2> QED
    BY <1>2, <2>1 DEF Now
<1>9. CASE strategy = "ma-crossover" /\ LoadCredits(l)
  <2>1. PICK seen \in Nat : Now(l, "save", iter[l].exit, seen)
    BY <1>9, LoadEffect
  <2>2. iter[l].at = "credit" /\ UNCHANGED <<cooling, recent>> /\ mishaps \subseteq mishaps'
    BY <1>9, LoadEffect DEF records
  <2> QED
    BY <1>2, <2>1, <2>2 DEF Now
<1>10. CASE strategy = "ma-crossover" /\ SaveCredits(l)
  <2>1. iter[l].at = "save" /\ UNCHANGED <<cooling, recent>> /\ mishaps \subseteq mishaps'
    BY <1>10, SaveEffect
  <2>2. ASSUME NEW at, NEW exit \in {iter[l].exit, "none"}, NEW loaded, Now(l, at, exit, loaded)
        PROVE  CoolInv'
    BY <1>2, <2>1, <2>2 DEF Now
  <2> QED
    BY <1>10, <2>2, SaveEffect
<1> QED
  BY <1>3, <1>4, <1>5, <1>6, <1>7, <1>8, <1>9, <1>10

LEMMA CoolInvariant ==
    /\ Init => CoolInv
    /\ GateInv /\ CoolInv /\ [Next]_vars => CoolInv'
<1>1. Init => CoolInv
  BY Shapes DEF Init, CoolInv
<1>2. ASSUME GateInv, CoolInv, [Next]_vars PROVE CoolInv'
  <2>0. Typed /\ (open.at \in PastGate /\ ~missed => ~Alive)
    BY <1>2 DEF GateInv
  <2>1. CASE UNCHANGED vars
    BY <1>2, <2>1 DEF CoolInv, CutPending, Careless, vars, records, history
  <2>2. CASE TickMoves
    <3>1. UNCHANGED <<strategy, iter, cooling, recent>> /\ (Careless => Careless') /\ (missed => missed')
      BY <2>2 DEF TickMoves, Careless
    <3>2. CutPending' = CutPending
      BY <3>1 DEF CutPending
    <3>3. ASSUME open'.at \in {"decide", "order"}, strategy = "llm-managed", ~missed', ~Careless'
          PROVE  ~recent
      <4>1. ~Alive
        BY <2>0, <2>2, <3>1, <3>3 DEF TickMoves, PastGate
      <4>2. CutPending = {}
        BY <2>0, <4>1, AliveFacts DEF CutPending
      <4> QED
        BY <1>2, <2>2, <3>1, <3>3, <4>2 DEF TickMoves, CoolInv
    <3> QED
      BY <1>2, <3>1, <3>2, <3>3 DEF CoolInv
  <2>3. CASE PlaceEntry
    <3>1. /\ UNCHANGED <<strategy, iter, cooling, recent, missed>> /\ (Careless => Careless')
          /\ open'.at \notin {"decide", "order"}
      BY <2>0, <2>3, EntryEffect DEF Careless, records
    <3> QED
      BY <1>2, <3>1 DEF CoolInv, CutPending
  <2>4. CASE EnqueueManage
    <3>1. trades \in Trades
      BY <1>2, <2>4 DEF GateInv, EnqueueManage
    <3>2. /\ UNCHANGED <<strategy, iter, cooling, recent, missed>> /\ (Careless => Careless')
          /\ open'.at \notin {"decide", "order"}
      BY <2>0, <2>4, <3>1, EnqueueEffect, Shapes DEF Careless, records
    <3> QED
      BY <1>2, <3>2 DEF CoolInv, CutPending
  <2>5. CASE NativeExit
    BY <1>2, <2>5 DEF NativeExit, CoolInv, CutPending, Careless, records, history
  <2>6. CASE CooldownOver
    <3>1. /\ cooling /\ cooling' = FALSE /\ recent' = (CutPending # {})
          /\ UNCHANGED <<strategy, open, iter, missed, mishaps>>
      BY <2>6 DEF CooldownOver, history
    <3>2. CutPending' = CutPending /\ (~Alive => CutPending = {})
      BY <2>0, <3>1, AliveFacts DEF CutPending
    <3>3. strategy = "llm-managed"
      BY <1>2, <3>1 DEF CoolInv
    <3>4. open.at \in {"decide", "order"} /\ ~missed => CutPending = {}
      BY <2>0, <3>2 DEF PastGate
    <3> QED
      BY <3>1, <3>2, <3>3, <3>4 DEF CoolInv
  <2>7. CASE Crash
    <3>1. /\ UNCHANGED <<strategy, cooling, recent>> /\ Careless' /\ open'.at = "idle"
          /\ \A l \in Lanes : iter'[l].exit \in {iter[l].exit, "none"}
      BY <2>0, <2>7, CrashEffect, Shapes DEF Careless, records
    <3> QED
      BY <1>2, <3>1 DEF CoolInv
  <2>8. ASSUME NEW t \in Trades, Promote(t) PROVE CoolInv'
    <3>1. UNCHANGED <<strategy, open, iter, cooling, recent, missed, mishaps>>
      BY <2>0, <2>8, PromoteEffect DEF OpenUntouched, records, history
    <3> QED
      BY <1>2, <3>1 DEF CoolInv, CutPending, Careless
  <2>9. ASSUME NEW l \in Lanes,
               \/ Pick(l) \/ ScheduleNext(l) \/ Decides(l)
               \/ AppendClosed(l) \/ MarkTime(l) \/ Complete(l)
               \/ strategy = "ma-crossover" /\ (LoadCredits(l) \/ SaveCredits(l))
        PROVE  CoolInv'
    <3>1. Alive
      BY <2>0, <2>9, IterationStep
    <3> QED
      BY <1>2, <2>0, <2>9, <3>1, IterationCools
  <2>10. CASE Open
    BY <2>0, <2>2, <2>3, <2>4, <2>10, OpenEffect
  <2> QED
    BY <1>2, <2>1, <2>5, <2>6, <2>7, <2>8, <2>9, <2>10, Steps
<1> QED
  BY <1>1, <1>2

\* After a cut loss llm-managed orders no entry until the cooldown is over, in
\* every order of its open tick and of overlapping iterations: provided that
\* the gate has missed no manage job and no write or process has failed
\* between the close and the record of its time.
THEOREM CooldownHolds == Spec => []CooldownRespected
<1>1. CoolInv => CooldownRespected
  BY DEF CoolInv, CooldownRespected, Careless
<1> QED
  BY <1>1, GateInvariant, CoolInvariant, PTL DEF Spec

-----------------------------------------------------------------------------
(* The allocator's credits.                                                *)

\* A manage job that is scheduled has an iteration that is queued or that has
\* still to add the next one.
Scheduled ==
    \A t \in repeats : \/ queue[t].at # "none"
                       \/ \E l \in Lanes : iter[l].at \in {"picked", "stalled"} /\ iter[l].trade = t

Keeping == strategy = "ma-crossover" /\ ~missed /\ "blank" \notin mishaps

\* At most the last trade is not credited, and it is before its manage job is
\* removed; what an iteration or the open tick has loaded is as recent.
Credits ==
    /\ allocator + 1 >= managed
    /\ repeats = {} => allocator >= managed
    /\ \A l \in Lanes : /\ iter[l].at = "save" => iter[l].loaded + 1 >= managed
                        /\ iter[l].at \in {"mark", "complete"} => allocator >= managed
    /\ open.at = "select" => open.loaded >= managed

CreditInv == Scheduled /\ (Keeping => Credits)

LEMMA NoneScheduled ==
    ASSUME Typed, Scheduled, ~Alive
    PROVE  repeats = {}
<1>1. ASSUME NEW t \in repeats PROVE FALSE
  <2>1. t \in Trades
    BY DEF Typed
  <2> QED
    BY <1>1, <2>1, AliveFacts DEF Scheduled
<1> QED
  BY <1>1

\* An iteration that leaves the schedules and the allocator alone.
LEMMA MovesCredit ==
    ASSUME Typed, CreditInv, NEW l \in Lanes, NEW at, NEW exit, NEW loaded,
           Now(l, at, exit, loaded),
           iter[l].at \notin {"picked", "stalled"},
           at \in {"free", "append", "decide", "update", "done", "credit"},
           OpenUntouched, UNCHANGED <<queue, repeats, allocator>>, mishaps \subseteq mishaps'
    PROVE  CreditInv'
<1>1. UNCHANGED <<strategy, open, managed, missed>>
  BY DEF OpenUntouched, history
<1>2. Scheduled'
  BY DEF CreditInv, Scheduled, Now
<1>3. ASSUME Keeping' PROVE Credits'
  <2>1. Credits
    BY <1>1, <1>3 DEF Keeping, CreditInv
  <2> QED
    BY <1>1, <2>1 DEF Credits, Now
<1> QED
  BY <1>2, <1>3 DEF CreditInv

LEMMA IterationCredits ==
    ASSUME GateInv, CreditInv, NEW l \in Lanes,
           \/ Pick(l) \/ ScheduleNext(l) \/ Decides(l)
           \/ AppendClosed(l) \/ MarkTime(l) \/ Complete(l)
           \/ strategy = "ma-crossover" /\ (LoadCredits(l) \/ SaveCredits(l))
    PROVE  CreditInv'
<1>0. /\ Typed /\ Typed' /\ OpenUntouched
      /\ strategy' = strategy /\ open' = open /\ missed' = missed /\ managed' = managed
  BY IterationStep DEF GateInv, OpenUntouched, history
<1>1. Scheduled /\ allocator \in Nat /\ managed \in Nat
  BY <1>0 DEF CreditInv, Typed
<1>2. ASSUME mishaps \subseteq mishaps', Keeping' PROVE Credits
  BY <1>0, <1>2 DEF Keeping, CreditInv
<1>3. CASE Pick(l)
  <2>1. /\ UNCHANGED <<repeats, allocator, mishaps>> /\ iter'[l].at = "picked"
        /\ \A k \in Lanes \ {l} : iter'[k] = iter[k]
    BY <1>0, <1>3, PickEffect DEF records
  <2>2. Scheduled'
    <3>1. CASE iter[l].at = "stalled" /\ iter'[l].trade = iter[l].trade /\ queue' = queue
      BY <1>1, <2>1, <3>1 DEF Scheduled
    <3>2. CASE /\ iter[l].at = "free"
               /\ \E t \in Trades : /\ iter'[l].trade = t
                                    /\ \A u \in Trades \ {t} : queue'[u] = queue[u]
      BY <1>0, <1>1, <2>1, <3>2 DEF Scheduled, Typed
    <3> QED
      BY <1>0, <1>3, <3>1, <3>2, PickEffect
  <2>3. Keeping' => Credits'
    BY <1>0, <1>2, <2>1 DEF Credits
  <2> QED
    BY <2>2, <2>3 DEF CreditInv
<1>4. CASE ScheduleNext(l)
  <2>1. /\ UNCHANGED <<repeats, allocator, mishaps>>
        /\ Now(l, "reconcile", iter[l].exit, iter[l].loaded)
        /\ \A u \in Trades : queue[u].at # "none" => queue'[u].at # "none"
        /\ iter[l].trade \in repeats => queue'[iter[l].trade].at # "none"
    BY <1>0, <1>4, ScheduleEffect DEF records
  <2>2. Scheduled'
    BY <1>0, <1>1, <2>1 DEF Scheduled, Now, Typed
  <2>3. Keeping' => Credits'
    BY <1>0, <1>2, <2>1 DEF Credits, Now
  <2> QED
    BY <2>2, <2>3 DEF CreditInv
<1>5. CASE Decides(l)
  BY <1>0, <1>5, DecideEffect, MovesCredit DEF Decided, Deciding, jobs
<1>6. CASE AppendClosed(l)
  <2>1. /\ iter[l].at = "append" /\ UNCHANGED <<queue, repeats, allocator>>
        /\ mishaps \subseteq mishaps'
    BY <1>0, <1>6, AppendEffect DEF jobs, records
  <2>2. CASE Now(l, "decide", "none", 0) \/ Now(l, "free", "none", 0)
    BY <1>0, <2>1, <2>2, MovesCredit
  <2>3. CASE Now(l, Appended(iter[l].exit), iter[l].exit, iter[l].loaded)
    <3>1. CASE strategy = "ma-crossover"
      <4>1. Appended(iter[l].exit) \in {"update", "credit"}
        BY <3>1 DEF Appended
      <4> QED
        BY <1>0, <2>1, <2>3, <4>1, MovesCredit
    <3>2. CASE strategy # "ma-crossover"
      <4>1. Scheduled' /\ ~Keeping'
        BY <1>0, <1>1, <2>1, <2>3, <3>2 DEF Scheduled, Keeping, Now
      <4> QED
        BY <4>1 DEF CreditInv
    <3> QED
      BY <3>1, <3>2
  <2> QED
    BY <1>0, <1>6, <2>2, <2>3, AppendEffect
<1>7. CASE MarkTime(l)
  <2>1. /\ iter[l].at = "mark" /\ UNCHANGED <<queue, repeats, allocator>>
        /\ mishaps \subseteq mishaps'
    BY <1>0, <1>7, MarkEffect DEF jobs
  <2>2. CASE Now(l, "decide", "none", 0) \/ Now(l, "free", "none", 0)
    BY <1>0, <2>1, <2>2, MovesCredit
  <2>3. CASE Now(l, "complete", iter[l].exit, iter[l].loaded)
    <3>1. Scheduled'
      BY <1>1, <2>1, <2>3 DEF Scheduled, Now
    <3>2. Keeping' => Credits'
      BY <1>0, <1>2, <2>1, <2>3 DEF Credits, Now
    <3> QED
      BY <3>1, <3>2 DEF CreditInv
  <2> QED
    BY <1>0, <1>7, <2>2, <2>3, MarkEffect
<1>8. CASE Complete(l)
  <2>1. /\ iter[l].at = "complete" /\ allocator' = allocator /\ mishaps \subseteq mishaps'
        /\ Now(l, "free", "none", 0)
        /\ repeats' \subseteq repeats
        /\ \A t \in repeats' : queue'[t] = queue[t]
    BY <1>0, <1>8, CompleteEffect DEF jobs, records, Typed
  <2>2. Scheduled'
    BY <1>1, <2>1 DEF Scheduled, Now
  <2>3. Keeping' => Credits'
    BY <1>0, <1>2, <2>1 DEF Credits, Now
  <2> QED
    BY <2>2, <2>3 DEF CreditInv
<1>9. CASE strategy = "ma-crossover" /\ LoadCredits(l)
  <2>1. /\ iter[l].at = "credit" /\ UNCHANGED <<queue, repeats, allocator>>
        /\ \E seen \in Nat : /\ Now(l, "save", iter[l].exit, seen)
                             /\ \/ seen = allocator /\ mishaps' = mishaps
                                \/ mishaps' = mishaps \cup {"blank"}
    BY <1>0, <1>9, LoadEffect DEF jobs, records
  <2>2. PICK seen \in Nat : /\ Now(l, "save", iter[l].exit, seen)
                            /\ \/ seen = allocator /\ mishaps' = mishaps
                               \/ mishaps' = mishaps \cup {"blank"}
    BY <2>1
  <2>3. Scheduled'
    BY <1>1, <2>1, <2>2 DEF Scheduled, Now
  <2>4. Keeping' => Credits'
    <3> SUFFICES ASSUME Keeping' PROVE Credits'
      OBVIOUS
    <3>1. seen = allocator /\ mishaps' = mishaps
      BY <2>2 DEF Keeping
    <3> QED
      BY <1>0, <1>2, <2>1, <2>2, <3>1 DEF Credits, Now
  <2> QED
    BY <2>3, <2>4 DEF CreditInv
<1>10. CASE strategy = "ma-crossover" /\ SaveCredits(l)
  <2>1. iter[l].at = "save" /\ UNCHANGED <<queue, repeats>> /\ mishaps \subseteq mishaps'
    BY <1>0, <1>10, SaveEffect DEF jobs
  <2>2. CASE allocator' = allocator /\ (Now(l, "decide", "none", 0) \/ Now(l, "free", "none", 0))
    BY <1>0, <2>1, <2>2, MovesCredit
  <2>3. ASSUME NEW at \in {"mark", "complete"}, Now(l, at, iter[l].exit, iter[l].loaded),
               allocator' = iter[l].loaded + 1, allocator' \in Nat
        PROVE  CreditInv'
    <3>1. Scheduled'
      BY <1>1, <2>1, <2>3 DEF Scheduled, Now
    <3>2. Keeping' => Credits'
      <4> SUFFICES ASSUME Keeping' PROVE Credits'
        OBVIOUS
      <4>1. Credits /\ allocator' >= managed
        BY <1>2, <2>1, <2>3 DEF Credits
      <4> QED
        BY <1>0, <1>1, <2>3, <4>1 DEF Credits, Now
    <3> QED
      BY <3>1, <3>2 DEF CreditInv
  <2> QED
    BY <1>0, <1>10, <2>2, <2>3, SaveEffect
<1> QED
  BY <1>3, <1>4, <1>5, <1>6, <1>7, <1>8, <1>9, <1>10

LEMMA CreditInvariant ==
    /\ Init => CreditInv
    /\ GateInv /\ CreditInv /\ [Next]_vars => CreditInv'
<1>1. Init => CreditInv
  BY Shapes DEF Init, CreditInv, Scheduled, Credits
<1>2. ASSUME GateInv, CreditInv, [Next]_vars PROVE CreditInv'
  <2>0. /\ Typed /\ Scheduled /\ (open.at \in PastGate /\ ~missed => ~Alive)
        /\ allocator \in Nat /\ managed \in Nat
    BY <1>2 DEF GateInv, CreditInv, Typed
  <2>1. CASE UNCHANGED vars
    BY <1>2, <2>1 DEF CreditInv, Scheduled, Keeping, Credits, vars, jobs, records, history
  <2>2. CASE TickMoves
    <3>1. /\ UNCHANGED <<strategy, queue, repeats, iter, managed>> /\ mishaps \subseteq mishaps'
          /\ (missed => missed')
      BY <2>2 DEF TickMoves, jobs
    <3>2. ASSUME Keeping' PROVE Credits'
      <4>1. Keeping /\ Credits
        BY <1>2, <3>1, <3>2 DEF Keeping, CreditInv
      <4>2. allocator' = allocator \/ (allocator' = open.loaded /\ allocator' >= managed)
        BY <2>2, <4>1 DEF TickMoves, Credits
      <4>3. ASSUME open'.at = "select" PROVE open'.loaded >= managed
        <5>1. open.at = "load" /\ open'.loaded = allocator
          BY <2>2, <3>2, <4>3 DEF TickMoves, Keeping
        <5>2. repeats = {}
          BY <2>0, <4>1, <5>1, NoneScheduled DEF PastGate, Keeping
        <5> QED
          BY <4>1, <5>1, <5>2 DEF Credits
      <4>4. CASE allocator' = allocator
        BY <3>1, <4>1, <4>3, <4>4 DEF Credits
      <4>5. CASE allocator' = open.loaded /\ allocator' >= managed
        <5>1. managed' = managed /\ allocator' >= managed' /\ allocator' + 1 >= managed'
          BY <2>0, <2>2, <3>1, <4>5 DEF TickMoves
        <5> QED
          BY <3>1, <4>1, <4>3, <5>1 DEF Credits
      <4> QED
        BY <4>2, <4>4, <4>5
    <3> QED
      BY <2>0, <3>1, <3>2 DEF CreditInv, Scheduled
  <2>3. CASE PlaceEntry
    <3>1. /\ UNCHANGED <<strategy, queue, repeats, iter, managed, missed, allocator>>
          /\ mishaps \subseteq mishaps' /\ open'.at # "select"
      BY <2>0, <2>3, EntryEffect DEF jobs, records
    <3> QED
      BY <1>2, <3>1 DEF CreditInv, Scheduled, Keeping, Credits
  <2>4. CASE EnqueueManage
    <3>1. /\ open.at = "enqueue" /\ open'.at = "idle" /\ trades \in Trades
          /\ UNCHANGED <<strategy, iter, allocator, missed>> /\ mishaps \subseteq mishaps'
          /\ \/ /\ queue'[trades].at # "none" /\ \A t \in Trades \ {trades} : queue'[t] = queue[t]
                /\ repeats' = repeats \cup {trades} /\ managed' = managed + 1
             \/ UNCHANGED <<queue, repeats, managed>>
      <4>1. trades \in Trades
        BY <1>2, <2>4 DEF GateInv, EnqueueManage
      <4> QED
        BY <2>0, <2>4, <4>1, EnqueueEffect, Shapes DEF jobs, records
    <3>2. Scheduled'
      <4>1. repeats \subseteq Trades
        BY <2>0 DEF Typed
      <4> QED
        BY <2>0, <3>1, <4>1 DEF Scheduled
    <3>3. ASSUME Keeping' PROVE Credits'
      <4>1. Keeping /\ Credits
        BY <1>2, <3>1, <3>3 DEF Keeping, CreditInv
      <4>2. ~Alive
        BY <2>0, <3>1, <4>1 DEF PastGate, Keeping
      <4>3. repeats = {} /\ \A l \in Lanes : iter[l].at = "free"
        BY <2>0, <4>2, NoneScheduled, AliveFacts
      <4> QED
        BY <2>0, <3>1, <4>1, <4>3 DEF Credits
    <3> QED
      BY <3>2, <3>3 DEF CreditInv
  <2>5. CASE NativeExit \/ CooldownOver
    <3>1. UNCHANGED <<strategy, open, queue, repeats, iter, allocator, managed, missed, mishaps>>
      BY <2>5 DEF NativeExit, CooldownOver, jobs, records, history
    <3> QED
      BY <1>2, <3>1 DEF CreditInv, Scheduled, Keeping, Credits
  <2>6. CASE Crash
    <3>1. /\ UNCHANGED <<strategy, queue, repeats, allocator, managed, missed>>
          /\ mishaps \subseteq mishaps' /\ open'.at = "idle"
          /\ \A l \in Lanes : \/ iter'[l] = iter[l] /\ iter[l].at \in Parked
                              \/ iter'[l].at = "stalled" /\ iter'[l].trade = iter[l].trade
      BY <2>0, <2>6, CrashEffect, Shapes DEF jobs, records, history
    <3>2. Scheduled'
      BY <2>0, <3>1 DEF Scheduled
    <3>3. ASSUME Keeping' PROVE Credits'
      <4>1. Credits
        BY <1>2, <3>1, <3>3 DEF Keeping, CreditInv
      <4> QED
        BY <3>1, <4>1 DEF Credits, Parked
    <3> QED
      BY <3>2, <3>3 DEF CreditInv
  <2>7. ASSUME NEW t \in Trades, Promote(t) PROVE CreditInv'
    <3>1. /\ UNCHANGED <<strategy, open, repeats, iter, allocator, managed, missed, mishaps>>
          /\ \A u \in Trades : queue[u].at # "none" => queue'[u].at # "none"
          /\ repeats \subseteq Trades
      BY <2>0, <2>7, PromoteEffect DEF OpenUntouched, records, history, Typed
    <3>2. Scheduled'
      BY <2>0, <3>1 DEF Scheduled
    <3> QED
      BY <1>2, <3>1, <3>2 DEF CreditInv, Keeping, Credits
  <2>8. CASE Open
    BY <2>0, <2>2, <2>3, <2>4, <2>8, OpenEffect
  <2> QED
    BY <1>2, <2>1, <2>5, <2>6, <2>7, <2>8, IterationCredits, Steps
<1> QED
  BY <1>1, <1>2

\* Every trade that a manage job of ma-crossover has finished is credited to
\* the allocator, although the open tick and overlapping iterations write the
\* whole state back: provided that the gate has missed no manage job and no
\* failed read has been taken for an empty state.
THEOREM CreditsAreKept == Spec => []CreditsKept
<1>1. GateInv /\ CreditInv => CreditsKept
  <2> SUFFICES ASSUME GateInv, CreditInv, Keeping, ~Alive PROVE allocator >= managed
    BY DEF CreditsKept, Keeping
  <2>1. repeats = {}
    BY NoneScheduled DEF GateInv, CreditInv
  <2> QED
    BY <2>1 DEF CreditInv, Credits
<1> QED
  BY <1>1, GateInvariant, CreditInvariant, PTL DEF Spec


===============================================================================
