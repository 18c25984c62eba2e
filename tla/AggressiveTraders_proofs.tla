----------------------- MODULE AggressiveTraders_proofs -----------------------
(***************************************************************************)
(* Proofs about the aggressive subsystem: types, the trades of a day, the  *)
(* account of profit, and that whatever is held is managed.                *)
(***************************************************************************)
EXTENDS AggressiveTraders, SumFacts

-----------------------------------------------------------------------------
(* Types.                                                                  *)

Stages == {"idle", "active", "waiting", "decide", "seed", "order", "enqueue", "count"}
Evals == [at : Stages, equity : Int, day : 0..MaxDays, intent : Intents \cup {NoIntent}]
ManageStages == {"idle", "picked", "check", "close", "ledger", "daily", "remove"}
Manages == [at : ManageStages, trade : Trades \cup {"none"}, price : Int]
Jobs == [intent : Intents \cup {NoIntent}, repeats : BOOLEAN, queued : SUBSET Places]
Hashes == [seeded : BOOLEAN, start : Int, pnl : Int, trades : Nat]

LEMMA SignType == ASSUME NEW side PROVE Sign(side) \in {1, -1}
  BY DEF Sign

LEMMA SumIsSumOf == ASSUME NEW f PROVE Sum(f) = SumOf(f)
  BY DEF Sum, SumOf

LEMMA EquityType == TypeOK => Equity \in Int
<1>1. SUFFICES ASSUME TypeOK PROVE Sum(ledger) \in Int
  BY AggressiveAssumption DEF Equity
<1>2. PICK D : D = 1..Len(ledger) /\ IsFiniteSet(D) /\ ledger \in [D -> Int]
  BY <1>1, FS_Interval DEF TypeOK
<1> QED
  BY <1>2, SumOfType, SumIsSumOf

LEMMA LesserOf ==
    ASSUME NEW a \in Int, NEW b \in Int
    PROVE  Min({a, b}) = IF a <= b THEN a ELSE b
<1>1. \E x \in {a, b} : \A y \in {a, b} : x =< y
  OBVIOUS
<1>2. Min({a, b}) \in {a, b} /\ \A y \in {a, b} : Min({a, b}) =< y
  BY <1>1 DEF Min
<1> QED
  BY <1>2

LEMMA RestingType == Resting \in Evals
  BY AggressiveAssumption DEF Resting, Evals, Stages, NoIntent

JobChanged(v, r, at, day) == v = [r EXCEPT !.at = at, !.day = day]
JobSet(v, r, at, day, intent) == v = [r EXCEPT !.at = at, !.day = day, !.intent = intent]

LEMMA JobChangedFields ==
    ASSUME NEW r \in Evals, NEW at \in Stages, NEW day \in 0..MaxDays, NEW v, JobChanged(v, r, at, day)
    PROVE  v \in Evals /\ v.at = at /\ v.intent = r.intent
  BY DEF Evals, JobChanged

LEMMA JobSetFields ==
    ASSUME NEW r \in Evals, NEW at \in Stages, NEW day \in 0..MaxDays,
           NEW intent \in Intents \cup {NoIntent}, NEW v, JobSet(v, r, at, day, intent)
    PROVE  v \in Evals /\ v.at = at /\ v.day = day /\ v.intent = intent
  BY DEF Evals, JobSet

LEMMA MishapType ==
    ASSUME TypeOK, NEW kind, Mishap(kind), kind \in MishapKinds
    PROVE  mishaps' \subseteq MishapKinds /\ mishaps' = mishaps \cup {kind}
  BY DEF TypeOK, Mishap

\* An evaluate step changes the job of its evaluator alone.
LEMMA EvalMoves ==
    ASSUME TypeOK, NEW e \in Evaluators, NEW v \in Evals, eval' = [eval EXCEPT ![e] = v]
    PROVE  /\ eval' \in [Evaluators -> Evals] /\ eval'[e] = v
           /\ \A x \in Evaluators \ {e} : eval'[x] = eval[x]
  BY DEF TypeOK, Evals, Stages

LEMMA EvalFields ==
    ASSUME TypeOK, NEW e \in Evaluators
    PROVE  /\ eval \in [Evaluators -> Evals] /\ eval[e] \in Evals
           /\ eval[e].at \in Stages /\ eval[e].equity \in Int /\ eval[e].day \in 0..MaxDays
           /\ eval[e].intent \in Intents \cup {NoIntent}
  BY DEF TypeOK, Evals, Stages

-----------------------------------------------------------------------------
(* What each evaluate step does to the job of its evaluator.               *)

Moves(e, v) == v \in Evals /\ eval' = [eval EXCEPT ![e] = v]

Allowed == Limits.maxTrades > 0 => days[today].trades < Limits.maxTrades

LEMMA GuardedMoves ==
    ASSUME TypeOK, NEW e \in Evaluators, NEW hash, NEW equity, NEW day \in 0..MaxDays,
           NEW intent \in Intents, Guarded(e, hash, equity, intent, day)
    PROVE  \/ Moves(e, Resting)
           \/ \E v \in Evals : /\ Moves(e, v) /\ v.at = "order" /\ v.day = day /\ v.intent = intent
                               /\ Limits.maxTrades > 0 => hash.trades < Limits.maxTrades
<1>1. CASE Ends(e)
  BY <1>1, RestingType DEF Ends, Moves
<1>2. CASE ~Ends(e)
  <2> DEFINE v == [Resting EXCEPT !.at = "order", !.day = day, !.intent = intent]
  <2>1. /\ GuardsAllow([start |-> hash.start, pnl |-> hash.pnl, trades |-> hash.trades,
                        equity |-> equity], Limits)
        /\ eval' = [eval EXCEPT ![e] = [Resting EXCEPT !.at = "order", !.day = day, !.intent = intent]]
    BY <1>2 DEF Guarded
  <2>2. eval' = [eval EXCEPT ![e] = v]
    BY <2>1
  <2>3. v \in Evals /\ v.at = "order" /\ v.day = day /\ v.intent = intent
    <3>1. "order" \in Stages /\ intent \in Intents \cup {NoIntent}
      BY DEF Stages
    <3>2. JobSet(v, Resting, "order", day, intent)
      BY DEF JobSet
    <3> HIDE DEF v
    <3> QED
      BY <3>1, <3>2, RestingType, JobSetFields
  <2>4. Limits.maxTrades > 0 => hash.trades < Limits.maxTrades
    <3>1. MaxTradesPerDay([start |-> hash.start, pnl |-> hash.pnl, trades |-> hash.trades,
                           equity |-> equity], Limits)
      BY <2>1 DEF GuardsAllow
    <3>2. Limits.maxTrades <= 0 \/ hash.trades < Limits.maxTrades
      BY <3>1 DEF MaxTradesPerDay
    <3> QED
      BY <3>2, AggressiveAssumption
  <2> HIDE DEF v
  <2> QED
    BY <2>1, <2>2, <2>3, <2>4 DEF Moves
<1> QED
  BY <1>1, <1>2

LEMMA GateMoves ==
    ASSUME TypeOK, NEW e \in Evaluators, Gate(e)
    PROVE  /\ eval[e].at \in {"idle", "active", "waiting"}
           /\ \E v \in Evals : Moves(e, v) /\ v.at \in {"idle", "active", "waiting", "decide"}
           /\ UNCHANGED <<paper, today, days, ledger, position, jobs, manage, ordered,
                          realised, overwritten, mishaps>>
<1>1. Resting \in Evals /\ Resting.at = "idle"
  BY RestingType DEF Resting
<1>2. ASSUME NEW at \in {"active", "waiting", "decide"}, Becomes(e, at)
      PROVE  \E v \in Evals : Moves(e, v) /\ v.at = at
  <2> DEFINE v == [eval[e] EXCEPT !.at = at]
  <2>1. eval' = [eval EXCEPT ![e] = v]
    BY <1>2 DEF Becomes
  <2>2. v \in Evals /\ v.at = at
    BY EvalFields DEF Evals, Stages
  <2> HIDE DEF v
  <2> QED
    BY <2>1, <2>2 DEF Moves
<1>3. ASSUME NEW from, NEW found, NEW to \in {"active", "waiting", "decide"}, Count(e, from, found, to)
      PROVE  /\ eval[e].at = from
             /\ \E v \in Evals : Moves(e, v) /\ v.at \in {"idle", "active", "waiting", "decide"}
             /\ UNCHANGED <<paper, today, days, ledger, position, jobs, manage, ordered,
                            realised, overwritten, mishaps>>
  BY <1>1, <1>2, <1>3 DEF Count, Ends, Moves
<1>4. CASE CountDelayed(e)
  BY <1>3, <1>4 DEF CountDelayed
<1>5. CASE CountActive(e)
  BY <1>3, <1>5 DEF CountActive
<1>6. CASE CountWaiting(e)
  BY <1>3, <1>6 DEF CountWaiting
<1> QED
  BY <1>4, <1>5, <1>6 DEF Gate

LEMMA DecideMoves ==
    ASSUME TypeOK, NEW e \in Evaluators, DecideEntry(e)
    PROVE  /\ \/ Moves(e, Resting)
              \/ \E v \in Evals : /\ Moves(e, v) /\ v.day = today
                                  /\ v.intent \in Intents /\ v.intent.by = e
                                  /\ v.at = "seed" \/ (v.at = "order" /\ Allowed)
           /\ UNCHANGED <<paper, today, days, ledger, position, jobs, manage, ordered,
                          realised, overwritten, mishaps>>
<1>1. UNCHANGED <<paper, today, days, ledger, position, jobs, manage, ordered,
                  realised, overwritten, mishaps>>
  BY DEF DecideEntry
<1>2. CASE Ends(e)
  BY <1>1, <1>2, RestingType DEF Ends, Moves
<1>3. ASSUME NEW intent \in Intents, intent.by = e, Guarded(e, days[today], Equity, intent, today)
      PROVE  \/ Moves(e, Resting)
             \/ \E v \in Evals : /\ Moves(e, v) /\ v.day = today
                                 /\ v.intent \in Intents /\ v.intent.by = e
                                 /\ v.at = "order" /\ Allowed
  <2>1. today \in 0..MaxDays
    BY DEF TypeOK
  <2> QED
    BY <1>3, <2>1, GuardedMoves DEF Allowed
<1>4. ASSUME NEW intent \in Intents, intent.by = e,
             eval' = [eval EXCEPT ![e] = [at |-> "seed", equity |-> Equity, day |-> today, intent |-> intent]]
      PROVE  \E v \in Evals : /\ Moves(e, v) /\ v.day = today
                              /\ v.intent \in Intents /\ v.intent.by = e /\ v.at = "seed"
  <2> DEFINE v == [at |-> "seed", equity |-> Equity, day |-> today, intent |-> intent]
  <2>1. v \in Evals /\ v.at = "seed" /\ v.day = today /\ v.intent = intent
    BY EquityType DEF Evals, Stages, TypeOK
  <2> HIDE DEF v
  <2>2. eval' = [eval EXCEPT ![e] = v]
    BY <1>4 DEF v
  <2> QED
    BY <1>4, <2>1, <2>2 DEF Moves
<1> QED
  BY <1>1, <1>2, <1>3, <1>4 DEF DecideEntry

Seeded(e) == [seeded |-> TRUE, start |-> eval[e].equity, pnl |-> 0, trades |-> 0]

LEMMA SeedMoves ==
    ASSUME TypeOK, NEW e \in Evaluators, SeedDay(e), eval[e].intent \in Intents
    PROVE  /\ eval[e].at = "seed"
           /\ \/ Moves(e, Resting)
              \/ \E v \in Evals : /\ Moves(e, v) /\ v.at = "order"
                                  /\ v.day = eval[e].day /\ v.intent = eval[e].intent
           /\ days' = [days EXCEPT ![eval[e].day] = Seeded(e)]
           /\ overwritten' = (overwritten \/ days[eval[e].day].pnl # 0 \/ days[eval[e].day].trades # 0)
           /\ UNCHANGED <<paper, today, ledger, position, jobs, manage, ordered, realised, mishaps>>
<1>1. Guarded(e, Seeded(e), eval[e].equity, eval[e].intent, eval[e].day)
  BY DEF SeedDay, Seeded
<1>2. eval[e].day \in 0..MaxDays
  BY EvalFields
<1>3. \/ Moves(e, Resting)
      \/ \E v \in Evals : /\ Moves(e, v) /\ v.at = "order"
                          /\ v.day = eval[e].day /\ v.intent = eval[e].intent
  BY <1>1, <1>2, GuardedMoves
<1> QED
  BY <1>3 DEF SeedDay, Seeded

Executed(intent) ==
    [position EXCEPT ![intent.symbol] = @ + Sign(intent.side) * intent.size]

LEMMA PlaceMoves ==
    ASSUME TypeOK, NEW e \in Evaluators, PlaceOrder(e)
    PROVE  /\ eval[e].at = "order"
           /\ \/ /\ UNCHANGED mishaps
                 /\ \E v \in Evals : Moves(e, v) /\ v.at = "enqueue" /\ v.intent = eval[e].intent
                 /\ \/ paper /\ UNCHANGED position
                    \/ ~paper /\ position' = Executed(eval[e].intent)
              \/ /\ Mishap("entry") /\ Moves(e, Resting)
                 /\ ~paper /\ position' \in {position, Executed(eval[e].intent)}
           /\ ordered' = [ordered EXCEPT ![eval[e].day] = @ + 1]
           /\ UNCHANGED <<paper, today, days, ledger, jobs, manage, realised, overwritten>>
<1>1. ASSUME Ordered(e)
      PROVE  \E v \in Evals : Moves(e, v) /\ v.at = "enqueue" /\ v.intent = eval[e].intent
  <2> DEFINE v == [eval[e] EXCEPT !.at = "enqueue", !.day = 0]
  <2>1. eval' = [eval EXCEPT ![e] = v]
    BY <1>1 DEF Ordered
  <2>a. eval[e] \in Evals
    BY EvalFields
  <2>b. "enqueue" \in Stages /\ 0 \in 0..MaxDays
    BY AggressiveAssumption DEF Stages
  <2>2. v \in Evals /\ v.at = "enqueue" /\ v.intent = eval[e].intent
    <3>1. JobChanged(v, eval[e], "enqueue", 0)
      BY DEF JobChanged
    <3> HIDE DEF v
    <3> QED
      BY <2>a, <2>b, <3>1, JobChangedFields
  <2> HIDE DEF v
  <2> QED
    BY <2>1, <2>2 DEF Moves
<1>2. ASSUME Ends(e) PROVE Moves(e, Resting)
  BY <1>2, RestingType DEF Ends, Moves
<1> QED
  BY <1>1, <1>2 DEF PlaceOrder, Executed

LEMMA JobsType == TypeOK => jobs \in [Trades -> Jobs]
  BY DEF TypeOK, Jobs

\* The schedule a new trade gets.
Scheduling(intent) == [intent |-> intent, repeats |-> TRUE, queued |-> {"delayed"}]

LEMMA EnqueueMoves ==
    ASSUME TypeOK, NEW e \in Evaluators, EnqueueManage(e)
    PROVE  /\ eval[e].at = "enqueue"
           /\ \/ /\ UNCHANGED mishaps
                 /\ \E t \in Trades :
                       jobs[t] = NoJob /\ jobs' = [jobs EXCEPT ![t] = Scheduling(eval[e].intent)]
                 /\ \E v \in Evals : Moves(e, v) /\ v.at = "count"
              \/ Mishap("entry") /\ Moves(e, Resting) /\ UNCHANGED jobs
           /\ UNCHANGED <<paper, today, days, ledger, position, manage, ordered, realised,
                          overwritten>>
<1>1. ASSUME eval' = [eval EXCEPT ![e] = [Resting EXCEPT !.at = "count"]]
      PROVE  \E v \in Evals : Moves(e, v) /\ v.at = "count"
  <2> DEFINE v == [Resting EXCEPT !.at = "count"]
  <2>1. v \in Evals /\ v.at = "count"
    BY AggressiveAssumption DEF Resting, Evals, Stages
  <2> HIDE DEF v
  <2>2. eval' = [eval EXCEPT ![e] = v]
    BY <1>1 DEF v
  <2> QED
    BY <2>1, <2>2 DEF Moves
<1>2. ASSUME Ends(e) PROVE Moves(e, Resting)
  BY <1>2, RestingType DEF Ends, Moves
<1> QED
  BY <1>1, <1>2 DEF EnqueueManage, Scheduling

LEMMA RecordMoves ==
    ASSUME TypeOK, NEW e \in Evaluators, RecordTradeOpened(e)
    PROVE  /\ eval[e].at = "count" /\ Moves(e, Resting)
           /\ \/ days' = [days EXCEPT ![today].trades = @ + 1] /\ UNCHANGED mishaps
              \/ Mishap("count") /\ UNCHANGED days
           /\ UNCHANGED <<paper, today, ledger, position, jobs, manage, ordered,
                          realised, overwritten>>
  BY RestingType DEF RecordTradeOpened, Ends, Moves

-----------------------------------------------------------------------------
(* What the manage worker reads.                                           *)

ManagerHasTrade == manage.at # "idle" => manage.trade \in Trades

LEMMA ManageFields ==
    ASSUME TypeOK
    PROVE  /\ manage \in Manages /\ manage.at \in ManageStages
           /\ manage.trade \in Trades \cup {"none"} /\ manage.price \in Int
  BY DEF TypeOK, Manages, ManageStages

LEMMA JobFields ==
    ASSUME TypeOK, NEW t \in Trades
    PROVE  /\ jobs[t] \in Jobs /\ jobs[t].intent \in Intents \cup {NoIntent}
           /\ jobs[t].repeats \in BOOLEAN /\ jobs[t].queued \in SUBSET Places
           /\ jobs[t].intent.size \in Nat
  BY AggressiveAssumption, JobsType DEF Jobs, NoIntent

LEMMA ManagerRestingType == ManagerResting \in Manages /\ ManagerResting.at = "idle"
  BY DEF ManagerResting, Manages, ManageStages

LEMMA NetPnlType ==
    ASSUME TypeOK, ManagerHasTrade, manage.at # "idle"
    PROVE  NetPnl \in Int
<1>1. Sign(Entry.side) \in {1, -1} /\ manage.price \in Int
  BY SignType, ManageFields
<1>2. \A x, y \in Int : x * y \in Int
  OBVIOUS
<1>3. Sign(Entry.side) \in Int /\ Entry.size \in Int
  BY <1>1, JobFields DEF ManagerHasTrade, Entry
<1>4. Sign(Entry.side) * manage.price \in Int
  BY <1>1, <1>2, <1>3
<1> QED
  BY <1>2, <1>3, <1>4 DEF NetPnl

LEMMA ManageMoves ==
    ASSUME TypeOK, NEW at \in ManageStages, manage' = [manage EXCEPT !.at = at]
    PROVE  /\ manage' \in Manages /\ manage'.at = at
           /\ manage'.trade = manage.trade /\ manage'.price = manage.price
  BY ManageFields DEF Manages

\* A step changes the queue of one schedule.
Requeued(t, queue) ==
    /\ jobs' \in [Trades -> Jobs]
    /\ jobs'[t].intent = jobs[t].intent /\ jobs'[t].repeats = jobs[t].repeats
    /\ jobs'[t].queued = queue
    /\ \A x \in Trades \ {t} : jobs'[x] = jobs[x]

LEMMA JobsRequeued ==
    ASSUME TypeOK, NEW t \in Trades, NEW queue \in SUBSET Places,
           jobs' = [jobs EXCEPT ![t].queued = queue]
    PROVE  Requeued(t, queue)
<1> DEFINE v == [jobs[t] EXCEPT !.queued = queue]
<1>1. v \in Jobs /\ v.intent = jobs[t].intent /\ v.repeats = jobs[t].repeats /\ v.queued = queue
  BY JobFields DEF Jobs
<1>2. jobs' = [jobs EXCEPT ![t] = v]
  OBVIOUS
<1> HIDE DEF v
<1> QED
  BY <1>1, <1>2, JobsType DEF Requeued

-----------------------------------------------------------------------------
(* What each step of BullMQ and of a manage iteration does.                *)

LEMMA PromoteMoves ==
    ASSUME TypeOK, NEW t \in Trades, Promote(t)
    PROVE  /\ jobs[t].queued # {}
           /\ \E queue : queue # {} /\ Requeued(t, queue)
           /\ UNCHANGED <<paper, today, days, ledger, position, eval, manage, ordered,
                          realised, overwritten, mishaps>>
<1> DEFINE queue == (jobs[t].queued \ {"delayed"}) \cup {"waiting"}
<1>1. queue \in SUBSET Places /\ queue # {}
  BY JobFields DEF Places
<1>2. jobs' = [jobs EXCEPT ![t].queued = queue]
  BY DEF Promote
<1> HIDE DEF queue
<1> QED
  BY <1>1, <1>2, JobsRequeued DEF Promote

LEMMA PickMoves ==
    ASSUME TypeOK, NEW t \in Trades, Pick(t)
    PROVE  /\ manage.at = "idle" /\ jobs[t].queued # {}
           /\ manage' \in Manages /\ manage'.at = "picked" /\ manage'.trade = t
           /\ \E queue : Requeued(t, queue)
           /\ UNCHANGED <<paper, today, days, ledger, position, eval, ordered,
                          realised, overwritten, mishaps>>
<1>1. PICK place \in jobs[t].queued \cap {"waiting", "stalled"} :
        jobs' = [jobs EXCEPT ![t].queued = @ \ {place}]
  BY DEF Pick
<1> DEFINE queue == jobs[t].queued \ {place}
<1>2. queue \in SUBSET Places /\ jobs' = [jobs EXCEPT ![t].queued = queue]
  BY <1>1, JobFields
<1> HIDE DEF queue
<1>3. Requeued(t, queue)
  BY <1>2, JobsRequeued
<1>4. manage' = [at |-> "picked", trade |-> t, price |-> 0]
  BY DEF Pick
<1>5. manage' \in Manages
  BY <1>4 DEF Manages, ManageStages
<1> QED
  BY <1>1, <1>3, <1>4, <1>5 DEF Pick

LEMMA ScheduleMoves ==
    ASSUME TypeOK, ManagerHasTrade, ScheduleNext
    PROVE  /\ manage.at = "picked" /\ manage.trade \in Trades
           /\ manage' \in Manages /\ manage'.at = "check" /\ manage'.trade = manage.trade
           /\ UNCHANGED jobs \/ Requeued(manage.trade, {"delayed"})
           /\ jobs[manage.trade].repeats => jobs'[manage.trade].queued # {}
           /\ jobs'[manage.trade].queued # {} =>
                jobs[manage.trade].queued # {} \/ jobs[manage.trade].repeats
           /\ UNCHANGED <<paper, today, days, ledger, position, eval, ordered,
                          realised, overwritten, mishaps>>
<1>1. manage.trade \in Trades /\ manage.at = "picked"
  BY DEF ManagerHasTrade, ScheduleNext
<1>2. "check" \in ManageStages /\ manage' = [manage EXCEPT !.at = "check"]
  BY DEF ManageStages, ScheduleNext
<1>3. manage' \in Manages /\ manage'.at = "check" /\ manage'.trade = manage.trade
  BY <1>2, ManageMoves
<1>4. CASE jobs[manage.trade].repeats /\ jobs[manage.trade].queued = {}
  <2>1. jobs' = [jobs EXCEPT ![manage.trade].queued = {"delayed"}] /\ {"delayed"} \in SUBSET Places
    BY <1>4 DEF ScheduleNext, Places
  <2>2. Requeued(manage.trade, {"delayed"})
    BY <1>1, <2>1, JobsRequeued
  <2> QED
    BY <1>1, <1>3, <1>4, <2>2 DEF ScheduleNext, Requeued
<1>5. CASE ~(jobs[manage.trade].repeats /\ jobs[manage.trade].queued = {})
  <2>1. UNCHANGED jobs
    BY <1>5 DEF ScheduleNext
  <2> QED
    BY <1>1, <1>3, <1>5, <2>1 DEF ScheduleNext
<1> QED
  BY <1>4, <1>5

LEMMA TriggerMoves ==
    ASSUME TypeOK, Trigger
    PROVE  /\ manage.at = "check" /\ manage' \in Manages
           /\ \/ manage'.at = "idle"
              \/ manage'.at = (IF paper THEN "ledger" ELSE "close") /\ manage'.trade = manage.trade
           /\ UNCHANGED <<paper, today, days, ledger, position, jobs, eval, ordered,
                          realised, overwritten, mishaps>>
<1>1. CASE manage' = ManagerResting
  BY <1>1, ManagerRestingType DEF Trigger
<1>2. ASSUME NEW price \in Prices,
             manage' = [manage EXCEPT !.at = IF paper THEN "ledger" ELSE "close", !.price = price]
      PROVE  /\ manage' \in Manages /\ manage'.at = (IF paper THEN "ledger" ELSE "close")
             /\ manage'.trade = manage.trade
  <2>1. PICK at \in ManageStages : at = IF paper THEN "ledger" ELSE "close"
    BY DEF ManageStages
  <2>2. manage' = [manage EXCEPT !.at = at, !.price = price]
    BY <1>2, <2>1
  <2>3. price \in Int
    BY AggressiveAssumption
  <2> QED
    BY <2>1, <2>2, <2>3, ManageFields DEF Manages
<1> QED
  BY <1>1, <1>2 DEF Trigger

LEMMA CloseMoves ==
    ASSUME TypeOK, Close
    PROVE  /\ manage.at = "close" /\ manage' \in Manages
           /\ \/ /\ Held > 0 /\ position' = Reduced /\ UNCHANGED mishaps
                 /\ manage'.at = "ledger" /\ manage'.trade = manage.trade
              \/ /\ manage'.at = "idle"
                 /\ \/ Mishap("refused") /\ Held > 0 /\ position' \in {position, Reduced}
                    \/ UNCHANGED <<position, mishaps>>
           /\ UNCHANGED <<paper, today, days, ledger, jobs, eval, ordered, realised, overwritten>>
<1>1. manage' = [manage EXCEPT !.at = "ledger"] =>
        manage' \in Manages /\ manage'.at = "ledger" /\ manage'.trade = manage.trade
  <2>1. "ledger" \in ManageStages
    BY DEF ManageStages
  <2> QED
    BY <2>1, ManageMoves
<1> QED
  BY <1>1, ManagerRestingType DEF Close

LEMMA LedgerMoves ==
    ASSUME TypeOK, AppendLedger
    PROVE  /\ manage.at = "ledger" /\ manage' \in Manages
           /\ \/ /\ ledger' = SubSeq(<<NetPnl>> \o ledger, 1, Min({LedgerLimit, Len(ledger) + 1}))
                 /\ realised' = [entries |-> realised.entries + 1,
                                 trimmed |-> realised.trimmed \/ Len(ledger) = LedgerLimit,
                                 pnl |-> realised.pnl + NetPnl]
                 /\ manage'.at = "daily" /\ manage'.trade = manage.trade
                 /\ manage'.price = manage.price
                 /\ UNCHANGED mishaps
              \/ Mishap("append") /\ manage'.at = "idle" /\ UNCHANGED <<ledger, realised>>
           /\ UNCHANGED <<paper, today, days, position, jobs, eval, ordered, overwritten>>
<1>1. manage' = [manage EXCEPT !.at = "daily"] =>
        /\ manage' \in Manages /\ manage'.at = "daily" /\ manage'.trade = manage.trade
        /\ manage'.price = manage.price
  <2>1. "daily" \in ManageStages
    BY DEF ManageStages
  <2> QED
    BY <2>1, ManageMoves
<1> QED
  BY <1>1, ManagerRestingType DEF AppendLedger

LEMMA DailyMoves ==
    ASSUME TypeOK, RecordClosedPnl
    PROVE  /\ manage.at = "daily" /\ manage' \in Manages
           /\ \/ /\ days' = [days EXCEPT ![today].pnl = @ + NetPnl] /\ UNCHANGED mishaps
                 /\ manage'.at = "remove" /\ manage'.trade = manage.trade
              \/ Mishap("daily") /\ manage'.at = "idle" /\ UNCHANGED days
           /\ UNCHANGED <<paper, today, ledger, position, jobs, eval, ordered, realised, overwritten>>
<1>1. manage' = [manage EXCEPT !.at = "remove"] =>
        manage' \in Manages /\ manage'.at = "remove" /\ manage'.trade = manage.trade
  <2>1. "remove" \in ManageStages
    BY DEF ManageStages
  <2> QED
    BY <2>1, ManageMoves
<1> QED
  BY <1>1, ManagerRestingType DEF RecordClosedPnl

LEMMA RemoveMoves ==
    ASSUME TypeOK, ManagerHasTrade, RemoveRepeatable
    PROVE  /\ manage.at = "remove" /\ manage.trade \in Trades
           /\ manage' \in Manages /\ manage'.at = "idle"
           /\ \/ /\ jobs' \in [Trades -> Jobs] /\ UNCHANGED mishaps
                 /\ ~jobs'[manage.trade].repeats
                 /\ jobs'[manage.trade].intent = jobs[manage.trade].intent
                 /\ jobs'[manage.trade].queued # {} => jobs[manage.trade].queued # {}
                 /\ \A x \in Trades \ {manage.trade} : jobs'[x] = jobs[x]
              \/ Mishap("remove") /\ UNCHANGED jobs
           /\ UNCHANGED <<paper, today, days, ledger, position, eval, ordered, realised,
                          overwritten>>
<1>1. manage.trade \in Trades
  BY DEF ManagerHasTrade, RemoveRepeatable
<1>2. PICK t \in Trades : t = manage.trade
  BY <1>1
<1>3. CASE Mishap("remove") /\ UNCHANGED jobs
  BY <1>1, <1>3, ManagerRestingType DEF RemoveRepeatable
<1>4. CASE /\ jobs' = [jobs EXCEPT ![t].repeats = FALSE, ![t].queued = @ \ {"delayed"}]
           /\ UNCHANGED mishaps
  <2> DEFINE mid == [jobs EXCEPT ![t].repeats = FALSE]
  <2>1. mid \in [Trades -> Jobs] /\ mid[t].intent = jobs[t].intent /\ mid[t].repeats = FALSE
        /\ mid[t].queued = jobs[t].queued /\ \A x \in Trades \ {t} : mid[x] = jobs[x]
    <3> DEFINE v == [jobs[t] EXCEPT !.repeats = FALSE]
    <3>1. v \in Jobs /\ v.intent = jobs[t].intent /\ v.repeats = FALSE /\ v.queued = jobs[t].queued
      BY JobFields DEF Jobs
    <3>2. mid = [jobs EXCEPT ![t] = v]
      OBVIOUS
    <3> HIDE DEF mid, v
    <3> QED
      BY <3>1, <3>2, JobsType
  <2>2. jobs' = [mid EXCEPT ![t].queued = jobs[t].queued \ {"delayed"}]
    BY <1>4, JobsType
  <2> HIDE DEF mid
  <2> DEFINE w == [mid[t] EXCEPT !.queued = jobs[t].queued \ {"delayed"}]
  <2>3. w \in Jobs /\ w.intent = jobs[t].intent /\ w.repeats = FALSE
        /\ w.queued = jobs[t].queued \ {"delayed"}
    BY <2>1 DEF Jobs
  <2>4. jobs' = [mid EXCEPT ![t] = w]
    BY <2>2
  <2> HIDE DEF w
  <2>5. jobs' \in [Trades -> Jobs] /\ jobs'[t] = w /\ \A x \in Trades \ {t} : jobs'[x] = jobs[x]
    BY <2>1, <2>3, <2>4
  <2> QED
    BY <1>2, <1>4, <2>3, <2>5, ManagerRestingType DEF RemoveRepeatable
<1> QED
  BY <1>2, <1>3, <1>4 DEF RemoveRepeatable

LEMMA CrashMoves ==
    ASSUME TypeOK, ManagerHasTrade, Crash
    PROVE  /\ eval' = [e \in Evaluators |-> Resting] /\ manage' = ManagerResting
           /\ \/ manage.at = "idle" /\ UNCHANGED jobs
              \/ /\ manage.at # "idle" /\ manage.trade \in Trades
                 /\ \E queue : queue # {} /\ Requeued(manage.trade, queue)
           /\ mishaps' \subseteq MishapKinds /\ mishaps \subseteq mishaps' /\ "crash" \in mishaps'
           /\ (\E e \in Evaluators : eval[e].at = "enqueue") => "entry" \in mishaps'
           /\ UNCHANGED <<paper, today, days, ledger, position, ordered, realised, overwritten>>
<1>1. /\ mishaps' = mishaps \cup {"crash"}
                        \cup {"entry" : e \in {e \in Evaluators : eval[e].at = "enqueue"}}
      /\ eval' = [e \in Evaluators |-> Resting] /\ manage' = ManagerResting
      /\ UNCHANGED <<paper, today, days, ledger, position, ordered, realised, overwritten>>
  BY DEF Crash
<1>2. mishaps' \subseteq MishapKinds /\ mishaps \subseteq mishaps' /\ "crash" \in mishaps'
  BY <1>1 DEF TypeOK, MishapKinds
<1>3. (\E e \in Evaluators : eval[e].at = "enqueue") => "entry" \in mishaps'
  BY <1>1
<1>4. CASE manage.at = "idle"
  BY <1>1, <1>2, <1>3, <1>4 DEF Crash
<1>5. CASE manage.at # "idle"
  <2> DEFINE queue == jobs[manage.trade].queued \cup {"stalled"}
  <2>1. manage.trade \in Trades
    BY <1>5 DEF ManagerHasTrade
  <2>2. queue \in SUBSET Places /\ queue # {}
    BY <2>1, JobFields DEF Places
  <2>3. jobs' = [jobs EXCEPT ![manage.trade].queued = queue]
    BY <1>5 DEF Crash
  <2> HIDE DEF queue
  <2>4. Requeued(manage.trade, queue)
    BY <2>1, <2>2, <2>3, JobsRequeued
  <2> QED
    BY <1>1, <1>2, <1>3, <1>5, <2>1, <2>2, <2>4
<1> QED
  BY <1>4, <1>5

-----------------------------------------------------------------------------
(* One step of an evaluator, of the manage worker, of the world.           *)

IntentIsOwn ==
    \A e \in Evaluators : eval[e].at \in {"seed", "order", "enqueue"} =>
        eval[e].intent \in Intents /\ eval[e].intent.by = e

\* Whatever has a schedule, a queued iteration or one that runs is a trade.
Alive(t) == jobs[t].repeats \/ jobs[t].queued # {} \/ Runs(t)
KnownJobs == \A t \in Trades : Alive(t) => jobs[t].intent \in Intents

\* A schedule has a queued iteration, or its next one is about to be added.
Scheduled ==
    \A t \in Trades : jobs[t].repeats => jobs[t].queued # {} \/ (Runs(t) /\ manage.at = "picked")

Inv == TypeOK /\ ManagerHasTrade /\ IntentIsOwn /\ KnownJobs /\ Scheduled

LEMMA ExecutedType ==
    ASSUME TypeOK, NEW intent \in Intents
    PROVE  Executed(intent) \in [Symbols -> Int]
<1>1. intent.symbol \in Symbols /\ position \in [Symbols -> Int]
  BY DEF TypeOK, Symbols
<1>2. Sign(intent.side) \in {1, -1} /\ intent.size \in Nat
  BY SignType, AggressiveAssumption
<1>3. Sign(intent.side) * intent.size \in Int
  BY <1>2
<1> DEFINE amount == Sign(intent.side) * intent.size
<1>4. Executed(intent) = [position EXCEPT ![intent.symbol] = @ + amount]
  BY DEF Executed
<1> HIDE DEF amount
<1> QED
  BY <1>1, <1>3, <1>4 DEF amount

\* What the manage worker reduces: at most what is held, on the trade's side.
Cut == IF Entry.size <= Held THEN Entry.size ELSE Held

LEMMA EntryFields ==
    ASSUME Inv, manage.at # "idle"
    PROVE  /\ manage.trade \in Trades /\ Entry \in Intents /\ Entry = jobs[manage.trade].intent
           /\ Entry.symbol \in Symbols /\ Entry.side \in {"long", "short"} /\ Entry.size \in Nat
           /\ Held = Sign(Entry.side) * position[Entry.symbol] /\ position[Entry.symbol] \in Int
           /\ Held \in Int
<1>1. manage.trade \in Trades
  BY DEF Inv, ManagerHasTrade
<1>2. Entry \in Intents /\ Entry = jobs[manage.trade].intent
  BY <1>1 DEF Inv, KnownJobs, Alive, Runs, Entry
<1>3. Entry.symbol \in Symbols /\ Entry.side \in {"long", "short"} /\ Entry.size \in Nat
  BY <1>2, AggressiveAssumption DEF Symbols
<1>4. position[Entry.symbol] \in Int
  BY <1>3 DEF Inv, TypeOK
<1>5. Sign(Entry.side) \in {1, -1}
  BY SignType
<1>6. Held \in Int
  BY <1>4, <1>5 DEF Held
<1> QED
  BY <1>1, <1>2, <1>3, <1>4, <1>6 DEF Held

LEMMA ReducedFields ==
    ASSUME Inv, manage.at # "idle"
    PROVE  /\ Reduced \in [Symbols -> Int]
           /\ Reduced[Entry.symbol] = position[Entry.symbol] - Sign(Entry.side) * Cut
           /\ \A symbol \in Symbols \ {Entry.symbol} : Reduced[symbol] = position[symbol]
<1>1. Min({Entry.size, Held}) = Cut /\ Cut \in Int
  BY EntryFields, LesserOf DEF Cut
<1> DEFINE amount == Sign(Entry.side) * Cut
<1>2. Reduced = [position EXCEPT ![Entry.symbol] = @ - amount]
  BY <1>1 DEF Reduced
<1>3. amount \in Int
  BY <1>1, SignType
<1>4. position \in [Symbols -> Int] /\ Entry.symbol \in Symbols
  BY EntryFields DEF Inv, TypeOK
<1> HIDE DEF amount
<1>5. /\ Reduced \in [Symbols -> Int]
      /\ Reduced[Entry.symbol] = position[Entry.symbol] - amount
      /\ \A symbol \in Symbols \ {Entry.symbol} : Reduced[symbol] = position[symbol]
  BY <1>2, <1>3, <1>4
<1> QED
  BY <1>5 DEF amount

LEMMA DaysType == TypeOK => days \in [0..MaxDays -> Hashes] /\ today \in 0..MaxDays
  BY DEF TypeOK, Hashes

Counted(h, g) == h = [g EXCEPT !.trades = g.trades + 1]
Paid(h, g, amount) == h = [g EXCEPT !.pnl = g.pnl + amount]

LEMMA CountedHash ==
    ASSUME NEW g \in Hashes, NEW h, Counted(h, g)
    PROVE  h \in Hashes /\ h.trades = g.trades + 1 /\ h.pnl = g.pnl
  BY DEF Hashes, Counted

LEMMA PaidHash ==
    ASSUME NEW g \in Hashes, NEW amount \in Int, NEW h, Paid(h, g, amount)
    PROVE  h \in Hashes /\ h.pnl = g.pnl + amount /\ h.trades = g.trades
  BY DEF Hashes, Paid

LEMMA DaysCounted ==
    ASSUME days \in [0..MaxDays -> Hashes], today \in 0..MaxDays,
           days' = [days EXCEPT ![today].trades = @ + 1]
    PROVE  /\ days' \in [0..MaxDays -> Hashes] /\ days'[today].trades = days[today].trades + 1
           /\ \A d \in 0..MaxDays : days'[d].pnl = days[d].pnl
           /\ \A d \in 0..MaxDays \ {today} : days'[d] = days[d]
<1> DEFINE h == [days[today] EXCEPT !.trades = @ + 1]
<1>1. days[today] \in Hashes
  OBVIOUS
<1>2. days' = [days EXCEPT ![today] = h] /\ Counted(h, days[today])
  BY DEF Counted
<1> HIDE DEF h
<1>3. h \in Hashes /\ h.trades = days[today].trades + 1 /\ h.pnl = days[today].pnl
  BY <1>1, <1>2, CountedHash
<1> QED
  BY <1>2, <1>3

LEMMA DaysPaid ==
    ASSUME days \in [0..MaxDays -> Hashes], today \in 0..MaxDays, NEW amount \in Int,
           days' = [days EXCEPT ![today].pnl = @ + amount]
    PROVE  /\ days' \in [0..MaxDays -> Hashes] /\ days'[today].pnl = days[today].pnl + amount
           /\ \A d \in 0..MaxDays : days'[d].trades = days[d].trades
           /\ \A d \in 0..MaxDays \ {today} : days'[d] = days[d]
<1> DEFINE h == [days[today] EXCEPT !.pnl = @ + amount]
<1>1. days[today] \in Hashes
  OBVIOUS
<1>2. days' = [days EXCEPT ![today] = h] /\ Paid(h, days[today], amount)
  BY DEF Paid
<1> HIDE DEF h
<1>3. h \in Hashes /\ h.pnl = days[today].pnl + amount /\ h.trades = days[today].trades
  BY <1>1, <1>2, PaidHash
<1> QED
  BY <1>2, <1>3

LEMMA TypeEvaluate ==
    ASSUME TypeOK, IntentIsOwn, NEW e \in Evaluators, EvaluateStep(e)
    PROVE  TypeOK'
<1>1. ASSUME NEW v \in Evals, Moves(e, v)
      PROVE  eval' \in [Evaluators -> Evals]
  BY <1>1, EvalMoves DEF Moves
<1>2. Resting \in Evals
  BY RestingType
<1>a. eval' \in [Evaluators -> Evals] =>
        eval' \in [Evaluators -> [at : {"idle", "active", "waiting", "decide", "seed", "order",
                                        "enqueue", "count"},
                                  equity : Int, day : 0..MaxDays, intent : Intents \cup {NoIntent}]]
  BY DEF Evals, Stages
<1>3. CASE Gate(e)
  BY <1>3, <1>1, <1>a, GateMoves DEF TypeOK
<1>4. CASE DecideEntry(e)
  <2>1. PICK v \in Evals : Moves(e, v)
    BY <1>4, <1>2, DecideMoves
  <2>2. eval' \in [Evaluators -> Evals]
    BY <2>1, <1>1
  <2>3. UNCHANGED <<paper, today, days, ledger, position, jobs, manage, ordered,
                    realised, overwritten, mishaps>>
    BY <1>4, DecideMoves
  <2> QED
    BY <2>2, <2>3, <1>a DEF TypeOK
<1>5. CASE SeedDay(e)
  <2>1. eval[e].intent \in Intents
    BY <1>5 DEF IntentIsOwn, SeedDay
  <2>2. eval' \in [Evaluators -> Evals]
    BY <2>1, <1>5, <1>1, <1>2, SeedMoves
  <2>3. Seeded(e) \in Hashes
    BY EvalFields DEF Seeded, Hashes
  <2>4. days' \in [0..MaxDays -> Hashes] /\ overwritten' \in BOOLEAN
    <3>1. overwritten' = (overwritten \/ days[eval[e].day].pnl # 0 \/ days[eval[e].day].trades # 0)
      BY <2>1, <1>5, SeedMoves
    <3>2. days' = [days EXCEPT ![eval[e].day] = Seeded(e)]
      BY <2>1, <1>5, SeedMoves
    <3>3. days' \in [0..MaxDays -> Hashes]
      BY <2>3, <3>2, DaysType
    <3>4. overwritten \in BOOLEAN
      BY DEF TypeOK
    <3> QED
      BY <3>1, <3>3, <3>4
  <2>5. days' \in [0..MaxDays -> [seeded : BOOLEAN, start : Int, pnl : Int, trades : Nat]]
    BY <2>4 DEF Hashes
  <2>6. UNCHANGED <<paper, today, ledger, position, jobs, manage, ordered, realised, mishaps>>
    BY <1>5 DEF SeedDay
  <2> QED
    BY <2>2, <2>4, <2>5, <2>6, <1>a DEF TypeOK
<1>6. CASE PlaceOrder(e)
  <2>1. eval[e].intent \in Intents
    BY <1>6 DEF IntentIsOwn, PlaceOrder
  <2>2. eval' \in [Evaluators -> Evals]
    BY <1>6, <1>1, <1>2, PlaceMoves
  <2>3. position' \in [Symbols -> Int]
    <3>1. position \in [Symbols -> Int]
      BY DEF TypeOK
    <3>2. position' \in {position, Executed(eval[e].intent)}
      BY <1>6, PlaceMoves
    <3>3. Executed(eval[e].intent) \in [Symbols -> Int]
      BY <2>1, ExecutedType
    <3> QED
      BY <3>1, <3>2, <3>3
  <2>4. mishaps' \subseteq MishapKinds
    BY <1>6, PlaceMoves, MishapType DEF TypeOK, MishapKinds
  <2>5. ordered' \in [0..MaxDays -> Nat]
    <3>1. ordered \in [0..MaxDays -> Nat]
      BY DEF TypeOK
    <3>2. ordered' = [ordered EXCEPT ![eval[e].day] = @ + 1]
      BY <1>6, PlaceMoves
    <3>3. eval[e].day \in 0..MaxDays
      BY EvalFields
    <3> QED
      BY <3>1, <3>2, <3>3
  <2> QED
    BY <2>2, <2>3, <2>4, <2>5, <1>a, <1>6, PlaceMoves DEF TypeOK
<1>7. CASE EnqueueManage(e)
  <2>1. eval[e].intent \in Intents
    BY <1>7 DEF IntentIsOwn, EnqueueManage
  <2>2. eval' \in [Evaluators -> Evals]
    BY <1>7, <1>1, <1>2, EnqueueMoves
  <2>3. jobs' \in [Trades -> Jobs]
    <3>1. Scheduling(eval[e].intent) \in Jobs
      BY <2>1 DEF Scheduling, Jobs, Places
    <3>2. \/ jobs' = jobs
          \/ \E t \in Trades : jobs' = [jobs EXCEPT ![t] = Scheduling(eval[e].intent)]
      BY <1>7, EnqueueMoves
    <3> QED
      BY <3>1, <3>2, JobsType
  <2>4. mishaps' \subseteq MishapKinds
    BY <1>7, EnqueueMoves, MishapType DEF TypeOK, MishapKinds
  <2> QED
    BY <2>2, <2>3, <2>4, <1>a, <1>7, EnqueueMoves DEF TypeOK, Jobs
<1>8. CASE RecordTradeOpened(e)
  <2>1. eval' \in [Evaluators -> Evals]
    BY <1>8, <1>1, <1>2, RecordMoves
  <2>2. days' \in [0..MaxDays -> Hashes]
    BY <1>8, RecordMoves, DaysCounted, DaysType
  <2>3. mishaps' \subseteq MishapKinds
    BY <1>8, RecordMoves, MishapType DEF TypeOK, MishapKinds
  <2> QED
    BY <2>1, <2>2, <2>3, <1>a, <1>8, RecordMoves DEF TypeOK, Hashes
<1> QED
  BY <1>3, <1>4, <1>5, <1>6, <1>7, <1>8 DEF EvaluateStep

LEMMA TrimmedLedger ==
    ASSUME TypeOK, ManagerHasTrade, manage.at # "idle"
    PROVE  LET pushed == <<NetPnl>> \o ledger
               kept == SubSeq(pushed, 1, Min({LedgerLimit, Len(ledger) + 1}))
           IN  /\ kept \in Seq(Int) /\ Len(kept) <= LedgerLimit
               /\ pushed \in Seq(Int) /\ Len(pushed) = Len(ledger) + 1
               /\ Len(ledger) # LedgerLimit => kept = pushed
<1> DEFINE pushed == <<NetPnl>> \o ledger
           n == Min({LedgerLimit, Len(ledger) + 1})
<1>1. ledger \in Seq(Int) /\ Len(ledger) \in Nat /\ Len(ledger) <= LedgerLimit
  BY DEF TypeOK
<1>2. pushed \in Seq(Int) /\ Len(pushed) = Len(ledger) + 1
  BY <1>1, NetPnlType
<1>3. n \in 0..Len(ledger) + 1 /\ n <= LedgerLimit
      /\ (Len(ledger) # LedgerLimit => n = Len(ledger) + 1)
  <2>1. LedgerLimit \in Int /\ Len(ledger) + 1 \in Int /\ LedgerLimit >= 0
    BY <1>1, AggressiveAssumption
  <2>2. n = IF LedgerLimit <= Len(ledger) + 1 THEN LedgerLimit ELSE Len(ledger) + 1
    BY <2>1, LesserOf
  <2> HIDE DEF n
  <2> QED
    BY <2>1, <2>2, <1>1
<1> HIDE DEF pushed, n
<1>4. SubSeq(pushed, 1, n) \in Seq(Int) /\ Len(SubSeq(pushed, 1, n)) = n
  BY <1>1, <1>2, <1>3
<1>5. n = Len(pushed) => SubSeq(pushed, 1, n) = pushed
  BY <1>1, <1>2, <1>3
<1> QED
  BY <1>1, <1>2, <1>3, <1>4, <1>5 DEF pushed, n

LEMMA TypeManage ==
    ASSUME Inv, ManageStep
    PROVE  TypeOK'
<1>0. manage' \in Manages =>
        manage' \in [at : {"idle", "picked", "check", "close", "ledger", "daily", "remove"},
                     trade : Trades \cup {"none"}, price : Int]
  BY DEF Manages, ManageStages
<1>a. TypeOK /\ ManagerHasTrade /\ manage.at # "idle"
  BY DEF Inv, ManageStep, ScheduleNext, Trigger, Close, AppendLedger, RecordClosedPnl,
         RemoveRepeatable
<1>b. CASE ScheduleNext
  <2>1. jobs' \in [Trades -> Jobs]
    BY <1>a, <1>b, JobsType, ScheduleMoves DEF Requeued
  <2> QED
    BY <2>1, <1>0, <1>a, <1>b, ScheduleMoves DEF TypeOK, Jobs
<1>c. CASE Trigger
  BY <1>0, <1>a, <1>c, TriggerMoves DEF TypeOK
<1>1. CASE Close
  <2>2. position' \in [Symbols -> Int]
    BY <1>a, <1>1, CloseMoves, ReducedFields DEF TypeOK
  <2>3. mishaps' \subseteq MishapKinds
    BY <1>a, <1>1, CloseMoves, MishapType DEF TypeOK, MishapKinds
  <2> QED
    BY <2>2, <2>3, <1>0, <1>a, <1>1, CloseMoves DEF TypeOK
<1>2. CASE AppendLedger
  <2>1. ledger' \in Seq(Int) /\ Len(ledger') <= LedgerLimit
    BY <1>a, <1>2, LedgerMoves, TrimmedLedger DEF TypeOK
  <2>2. realised' \in [entries : Nat, trimmed : BOOLEAN, pnl : Int]
    <3>1. realised \in [entries : Nat, trimmed : BOOLEAN, pnl : Int]
      BY <1>a DEF TypeOK
    <3> DEFINE trimmed == realised.trimmed \/ Len(ledger) = LedgerLimit
               pnl == realised.pnl + NetPnl
               entries == realised.entries + 1
    <3>2. realised' \in {realised, [entries |-> entries, trimmed |-> trimmed, pnl |-> pnl]}
      BY <1>a, <1>2, LedgerMoves
    <3>3. entries \in Nat /\ pnl \in Int
      BY <3>1, <1>a, NetPnlType
    <3>4. trimmed \in BOOLEAN
      BY <3>1
    <3> HIDE DEF trimmed, pnl, entries
    <3> QED
      BY <3>1, <3>2, <3>3, <3>4
  <2>3. mishaps' \subseteq MishapKinds
    BY <1>a, <1>2, LedgerMoves, MishapType DEF TypeOK, MishapKinds
  <2> QED
    BY <2>1, <2>2, <2>3, <1>0, <1>a, <1>2, LedgerMoves DEF TypeOK
<1>3. CASE RecordClosedPnl
  <2>1. days' \in [0..MaxDays -> Hashes]
    BY <1>a, <1>3, DailyMoves, NetPnlType, DaysPaid, DaysType
  <2>2. mishaps' \subseteq MishapKinds
    BY <1>a, <1>3, DailyMoves, MishapType DEF TypeOK, MishapKinds
  <2> QED
    BY <2>1, <2>2, <1>0, <1>a, <1>3, DailyMoves DEF TypeOK, Hashes
<1>4. CASE RemoveRepeatable
  <2>1. jobs' \in [Trades -> Jobs]
    BY <1>a, <1>4, JobsType, RemoveMoves
  <2>2. mishaps' \subseteq MishapKinds
    BY <1>a, <1>4, RemoveMoves, MishapType DEF TypeOK, MishapKinds
  <2> QED
    BY <2>1, <2>2, <1>0, <1>a, <1>4, RemoveMoves DEF TypeOK, Jobs
<1> QED
  BY <1>b, <1>c, <1>1, <1>2, <1>3, <1>4 DEF ManageStep

LEMMA TypeWorld ==
    ASSUME Inv
    PROVE  /\ \A t \in Trades : Promote(t) \/ Pick(t) => TypeOK'
           /\ Midnight => TypeOK'
           /\ \A symbol \in Symbols : NativeExit(symbol) => TypeOK'
           /\ Crash => TypeOK'
<1> USE DEF Inv
<1>1. ASSUME NEW t \in Trades, Promote(t) PROVE TypeOK'
  <2>1. jobs' \in [Trades -> Jobs]
    BY <1>1, PromoteMoves DEF Requeued
  <2> QED
    BY <1>1, <2>1, PromoteMoves DEF TypeOK, Jobs
<1>2. ASSUME NEW t \in Trades, Pick(t) PROVE TypeOK'
  <2>1. jobs' \in [Trades -> Jobs] /\ manage' \in Manages
    BY <1>2, PickMoves DEF Requeued
  <2> QED
    BY <1>2, <2>1, PickMoves DEF TypeOK, Jobs, Manages, ManageStages
<1>3. ASSUME Midnight PROVE TypeOK'
  <2>1. today' \in 0..MaxDays
    BY <1>3, AggressiveAssumption DEF Midnight, TypeOK
  <2> QED
    BY <1>3, <2>1 DEF Midnight, TypeOK
<1>4. ASSUME NEW symbol \in Symbols, NativeExit(symbol) PROVE TypeOK'
  <2>1. position' \in [Symbols -> Int]
    BY <1>4 DEF NativeExit, TypeOK
  <2> QED
    BY <2>1, <1>4 DEF NativeExit, TypeOK
<1>5. ASSUME Crash PROVE TypeOK'
  <2>1. jobs' \in [Trades -> Jobs]
    BY <1>5, CrashMoves, JobsType DEF Requeued
  <2>2. eval' \in [Evaluators -> Evals] /\ manage' \in Manages
    BY <1>5, CrashMoves, RestingType, ManagerRestingType
  <2> QED
    BY <2>1, <2>2, <1>5, CrashMoves DEF TypeOK, Evals, Stages, Manages, ManageStages, Jobs
<1> QED
  BY <1>1, <1>2, <1>3, <1>4, <1>5

LEMMA InitType == Init => TypeOK
<1>1. SUFFICES ASSUME Init PROVE TypeOK
  OBVIOUS
<1>2. 0 \in 0..MaxDays
  BY AggressiveAssumption
<1>3. eval \in [Evaluators -> Evals] /\ manage \in Manages
  BY <1>1, RestingType, ManagerRestingType DEF Init
<1>4. <<>> \in Seq(Int) /\ Len(<<>>) = 0
  OBVIOUS
<1>5. [seeded |-> FALSE, start |-> 0, pnl |-> 0, trades |-> 0]
        \in [seeded : BOOLEAN, start : Int, pnl : Int, trades : Nat]
  OBVIOUS
<1>6. days \in [0..MaxDays -> [seeded : BOOLEAN, start : Int, pnl : Int, trades : Nat]]
  BY <1>1, <1>5 DEF Init
<1>7. Len(ledger) <= LedgerLimit
  BY <1>1, <1>4, AggressiveAssumption DEF Init
<1>8. position \in [Symbols -> Int] /\ ordered \in [0..MaxDays -> Nat]
      /\ realised \in [entries : Nat, trimmed : BOOLEAN, pnl : Int]
  BY <1>1 DEF Init
<1>9. NoJob \in Jobs
  BY DEF NoJob, Jobs
<1>10. jobs \in [Trades -> Jobs]
  BY <1>1, <1>9 DEF Init
<1> QED
  BY <1>1, <1>2, <1>3, <1>4, <1>6, <1>7, <1>8, <1>10
     DEF Init, TypeOK, Evals, Stages, Manages, ManageStages, Jobs

LEMMA TypeStutters == TypeOK /\ UNCHANGED vars => TypeOK'
  BY DEF TypeOK, vars

-----------------------------------------------------------------------------
(* Jobs that are alive, and schedules that go on.                          *)

\* A step leaves every trade its intent, brings none to life, and ends no
\* schedule's queue.
LastsFor(t) ==
    /\ jobs'[t].intent = jobs[t].intent
    /\ Alive(t)' => Alive(t)
    /\ jobs'[t].repeats => jobs[t].repeats
    /\ jobs'[t].repeats => jobs'[t].queued # {} \/ (Runs(t)' /\ manage'.at = "picked")
Lasts == \A t \in Trades : LastsFor(t)

LEMMA LastingJobs == ASSUME Inv, Lasts PROVE KnownJobs' /\ Scheduled'
<1>1. ASSUME NEW t \in Trades, Alive(t)' PROVE jobs'[t].intent \in Intents
  BY <1>1 DEF Lasts, LastsFor, Inv, KnownJobs
<1>2. KnownJobs'
  BY <1>1 DEF KnownJobs
<1>3. Scheduled'
  BY DEF Lasts, LastsFor, Scheduled
<1> QED
  BY <1>2, <1>3

LEMMA UntouchedLasts == ASSUME Inv, UNCHANGED <<jobs, manage>> PROVE Lasts
  BY DEF Lasts, LastsFor, Inv, Scheduled, Alive, Runs

\* An iteration that goes on, or ends.
LEMMA IterationLasts ==
    ASSUME Inv, UNCHANGED jobs, manage.at \notin {"idle", "picked"},
           manage'.at = "idle" \/ manage'.trade = manage.trade
    PROVE  Lasts /\ ManagerHasTrade'
<1>1. Lasts
  BY DEF Lasts, LastsFor, Inv, Scheduled, Alive, Runs
<1>2. ManagerHasTrade'
  BY DEF Inv, ManagerHasTrade
<1> QED
  BY <1>1, <1>2

LEMMA NobodysIntent == NoIntent \notin Intents
<1>1. NoIntent.by \notin Evaluators
  BY DEF NoIntent, Evaluators
<1> QED
  BY <1>1, AggressiveAssumption

LEMMA FreeTrade ==
    ASSUME Inv, NEW t \in Trades, jobs[t] = NoJob
    PROVE  ~Runs(t) /\ ~jobs[t].repeats /\ jobs[t].intent = NoIntent
<1>1. jobs[t].intent = NoIntent /\ ~jobs[t].repeats
  BY DEF NoJob
<1> QED
  BY <1>1, NobodysIntent DEF Inv, KnownJobs, Alive

LEMMA EnqueuedJobs ==
    ASSUME Inv, NEW t \in Trades, NEW intent \in Intents, jobs[t] = NoJob,
           jobs' = [jobs EXCEPT ![t] = Scheduling(intent)], UNCHANGED manage
    PROVE  KnownJobs' /\ Scheduled'
<1>1. /\ jobs'[t].intent = intent /\ jobs'[t].queued # {}
      /\ \A x \in Trades \ {t} : jobs'[x] = jobs[x]
  BY JobsType DEF Scheduling, Inv
<1>2. KnownJobs'
  BY <1>1 DEF Inv, KnownJobs, Alive, Runs
<1>3. Scheduled'
  BY <1>1 DEF Inv, Scheduled, Runs
<1> QED
  BY <1>2, <1>3

LEMMA KeepersEvaluate ==
    ASSUME Inv, NEW e \in Evaluators, EvaluateStep(e)
    PROVE  ManagerHasTrade' /\ IntentIsOwn' /\ KnownJobs' /\ Scheduled'
<1>0. TypeOK /\ IntentIsOwn
  BY DEF Inv
<1>1. ASSUME NEW v \in Evals, Moves(e, v), v.at \in {"seed", "order", "enqueue"} =>
                 v.intent \in Intents /\ v.intent.by = e
      PROVE  IntentIsOwn'
  BY <1>0, <1>1, EvalMoves DEF Moves, IntentIsOwn
<1>2. ASSUME UNCHANGED <<jobs, manage>> PROVE ManagerHasTrade' /\ KnownJobs' /\ Scheduled'
  <2>1. ManagerHasTrade'
    BY <1>2 DEF Inv, ManagerHasTrade
  <2> QED
    BY <2>1, <1>2, UntouchedLasts, LastingJobs
<1>5. Resting \in Evals /\ Resting.at = "idle"
  BY RestingType DEF Resting
<1>6. CASE Gate(e)
  BY <1>0, <1>6, <1>1, <1>2, GateMoves
<1>7. CASE DecideEntry(e)
  BY <1>0, <1>7, <1>1, <1>2, <1>5, DecideMoves
<1>8. CASE SeedDay(e)
  <2>1. eval[e].intent \in Intents /\ eval[e].intent.by = e
    BY <1>0, <1>8 DEF SeedDay, IntentIsOwn
  <2> QED
    BY <2>1, <1>0, <1>8, <1>1, <1>2, <1>5, SeedMoves
<1>9. CASE PlaceOrder(e)
  <2>1. eval[e].intent \in Intents /\ eval[e].intent.by = e
    BY <1>0, <1>9 DEF PlaceOrder, IntentIsOwn
  <2> QED
    BY <2>1, <1>0, <1>9, <1>1, <1>2, <1>5, PlaceMoves
<1>10. CASE EnqueueManage(e)
  <2>1. eval[e].intent \in Intents
    BY <1>0, <1>10 DEF EnqueueManage, IntentIsOwn
  <2>2. UNCHANGED manage
    BY <1>0, <1>10, EnqueueMoves
  <2>3. ManagerHasTrade'
    BY <2>2 DEF Inv, ManagerHasTrade
  <2>4. IntentIsOwn'
    BY <1>0, <1>1, <1>5, <1>10, EnqueueMoves
  <2>5. CASE UNCHANGED jobs
    BY <2>2, <2>4, <2>5, <1>2
  <2>6. CASE jobs' # jobs
    <3>1. PICK t \in Trades : jobs[t] = NoJob /\ jobs' = [jobs EXCEPT ![t] = Scheduling(eval[e].intent)]
      BY <1>0, <1>10, <2>6, EnqueueMoves
    <3> QED
      BY <2>1, <2>2, <2>3, <2>4, <3>1, EnqueuedJobs
  <2> QED
    BY <2>5, <2>6
<1>11. CASE RecordTradeOpened(e)
  BY <1>0, <1>11, <1>1, <1>2, <1>5, RecordMoves
<1> QED
  BY <1>6, <1>7, <1>8, <1>9, <1>10, <1>11 DEF EvaluateStep

LEMMA RequeuedLasts ==
    ASSUME Inv, NEW t \in Trades, NEW queue, Requeued(t, queue), Alive(t),
           queue # {} \/ (jobs[t].repeats => Runs(t)' /\ manage'.at = "picked"),
           \A x \in Trades \ {t} : ~Runs(x) /\ ~Runs(x)'
    PROVE  Lasts
<1>1. ASSUME NEW x \in Trades \ {t}
      PROVE  LastsFor(x)
  <2>1. jobs'[x] = jobs[x] /\ ~Runs(x) /\ ~Runs(x)'
    BY DEF Requeued
  <2> QED
    BY <2>1 DEF Alive, Inv, Scheduled, LastsFor
<1>2. LastsFor(t)
  BY DEF Requeued, LastsFor
<1> QED
  BY <1>1, <1>2 DEF Lasts

\* The other steps that change a job: an iteration is promoted, handed out,
\* followed by the next, or stalls, or the schedule is removed.
LEMMA PromoteLasts == ASSUME Inv, NEW t \in Trades, Promote(t) PROVE Lasts
<1>1. PICK queue : queue # {} /\ Requeued(t, queue)
  BY PromoteMoves DEF Inv
<1>2. jobs[t].queued # {} /\ UNCHANGED manage
  BY PromoteMoves DEF Inv
<1>3. ASSUME NEW x \in Trades \ {t}
      PROVE  LastsFor(x)
  BY <1>1, <1>2 DEF Requeued, Alive, Runs, Inv, Scheduled, LastsFor
<1>4. LastsFor(t)
  BY <1>1, <1>2 DEF Requeued, Alive, LastsFor
<1> QED
  BY <1>3, <1>4 DEF Lasts

LEMMA PickLasts == ASSUME Inv, NEW t \in Trades, Pick(t) PROVE Lasts
<1>1. PICK queue : Requeued(t, queue)
  BY PickMoves DEF Inv
<1>2. manage.at = "idle" /\ jobs[t].queued # {} /\ manage'.at = "picked" /\ manage'.trade = t
  BY PickMoves DEF Inv
<1>3. Alive(t) /\ Runs(t)' /\ \A x \in Trades \ {t} : ~Runs(x) /\ ~Runs(x)'
  BY <1>2 DEF Alive, Runs
<1> QED
  BY <1>1, <1>2, <1>3, RequeuedLasts

LEMMA ScheduleLasts == ASSUME Inv, ScheduleNext PROVE Lasts
<1>1. TypeOK /\ ManagerHasTrade
  BY DEF Inv
<1>2. PICK t \in Trades : t = manage.trade
  BY <1>1, ScheduleMoves
<1>3. manage.at = "picked" /\ manage'.at = "check" /\ manage'.trade = t
  BY <1>1, <1>2, ScheduleMoves
<1>4. Alive(t) /\ \A x \in Trades \ {t} : ~Runs(x) /\ ~Runs(x)'
  BY <1>2, <1>3 DEF Alive, Runs
<1>5. CASE Requeued(t, {"delayed"})
  BY <1>4, <1>5, RequeuedLasts
<1>6. CASE UNCHANGED jobs
  <2>1. jobs[t].repeats => jobs[t].queued # {}
    BY <1>1, <1>2, <1>6, ScheduleMoves
  <2>2. Requeued(t, jobs[t].queued)
    BY <1>1, <1>6, JobsType DEF Requeued
  <2> QED
    <3>1. ASSUME NEW x \in Trades
          PROVE  /\ Alive(x)' => Alive(x)
                 /\ jobs'[x].repeats => jobs'[x].queued # {} \/ (Runs(x)' /\ manage'.at = "picked")
      BY <1>3, <1>4, <1>6, <2>1 DEF Alive, Runs, Inv, Scheduled
    <3> QED
      BY <1>6, <3>1 DEF Lasts, LastsFor
<1> QED
  BY <1>1, <1>2, <1>5, <1>6, ScheduleMoves

LEMMA RemoveLasts == ASSUME Inv, RemoveRepeatable PROVE Lasts
<1>1. TypeOK /\ ManagerHasTrade
  BY DEF Inv
<1>2. PICK t \in Trades : t = manage.trade
  BY <1>1, RemoveMoves
<1>3. manage.at = "remove" /\ manage'.at = "idle"
  BY <1>1, RemoveMoves
<1>4. CASE UNCHANGED jobs
  BY <1>3, <1>4, IterationLasts
<1>5. CASE ~(UNCHANGED jobs)
  <2>1. /\ ~jobs'[t].repeats /\ jobs'[t].intent = jobs[t].intent
        /\ \A x \in Trades \ {t} : jobs'[x] = jobs[x]
    BY <1>1, <1>2, <1>5, RemoveMoves
  <2>2. Alive(t)
    BY <1>2, <1>3 DEF Alive, Runs
  <2>3. \A x \in Trades \ {t} : ~Runs(x) /\ ~Runs(x)'
    BY <1>2, <1>3 DEF Runs
  <2>4. ASSUME NEW x \in Trades \ {t}
        PROVE  LastsFor(x)
    BY <2>1, <2>3 DEF Alive, Inv, Scheduled, LastsFor
  <2>5. LastsFor(t)
    BY <2>1, <2>2 DEF LastsFor
  <2> QED
    BY <2>4, <2>5 DEF Lasts
<1> QED
  BY <1>4, <1>5

LEMMA CrashLasts == ASSUME Inv, Crash PROVE Lasts
<1>1. TypeOK /\ ManagerHasTrade
  BY DEF Inv
<1>2. manage'.at = "idle"
  BY <1>1, CrashMoves, ManagerRestingType
<1>3. \A x \in Trades : ~Runs(x)'
  BY <1>2 DEF Runs
<1>4. CASE manage.at = "idle"
  <2>1. UNCHANGED jobs
    BY <1>1, <1>4, CrashMoves
  <2> QED
    BY <1>3, <1>4, <2>1 DEF Lasts, LastsFor, Alive, Runs, Inv, Scheduled
<1>5. CASE manage.at # "idle"
  <2>1. PICK t \in Trades : t = manage.trade
    BY <1>1, <1>5 DEF ManagerHasTrade
  <2>2. PICK queue : queue # {} /\ Requeued(t, queue)
    BY <1>1, <1>5, <2>1, CrashMoves
  <2>3. Alive(t) /\ \A x \in Trades \ {t} : ~Runs(x) /\ ~Runs(x)'
    BY <1>3, <1>5, <2>1 DEF Alive, Runs
  <2> QED
    BY <2>2, <2>3, RequeuedLasts
<1> QED
  BY <1>4, <1>5

LEMMA KeepersManage ==
    ASSUME Inv, ManageStep
    PROVE  ManagerHasTrade' /\ IntentIsOwn' /\ KnownJobs' /\ Scheduled'
<1>0. TypeOK /\ ManagerHasTrade
  BY DEF Inv
<1>1. UNCHANGED eval
  BY DEF ManageStep, ScheduleNext, Trigger, Close, AppendLedger, RecordClosedPnl, RemoveRepeatable
<1>2. IntentIsOwn'
  BY <1>1 DEF Inv, IntentIsOwn
<1>3. CASE ScheduleNext
  <2>1. ManagerHasTrade'
    BY <1>0, <1>3, ScheduleMoves DEF ManagerHasTrade
  <2> QED
    BY <1>2, <1>3, <2>1, ScheduleLasts, LastingJobs
<1>4. CASE Trigger
  BY <1>0, <1>2, <1>4, TriggerMoves, IterationLasts, LastingJobs
<1>5. CASE Close
  BY <1>0, <1>2, <1>5, CloseMoves, IterationLasts, LastingJobs
<1>6. CASE AppendLedger
  BY <1>0, <1>2, <1>6, LedgerMoves, IterationLasts, LastingJobs
<1>7. CASE RecordClosedPnl
  BY <1>0, <1>2, <1>7, DailyMoves, IterationLasts, LastingJobs
<1>8. CASE RemoveRepeatable
  <2>1. ManagerHasTrade'
    BY <1>0, <1>8, RemoveMoves DEF ManagerHasTrade
  <2> QED
    BY <1>2, <1>8, <2>1, RemoveLasts, LastingJobs
<1> QED
  BY <1>3, <1>4, <1>5, <1>6, <1>7, <1>8 DEF ManageStep

Keepers == ManagerHasTrade /\ IntentIsOwn /\ KnownJobs /\ Scheduled

LEMMA KeepersWorld ==
    ASSUME Inv
    PROVE  /\ \A t \in Trades : Promote(t) \/ Pick(t) => Keepers'
           /\ Midnight => Keepers'
           /\ \A symbol \in Symbols : NativeExit(symbol) => Keepers'
           /\ Crash => Keepers'
<1>0. TypeOK /\ ManagerHasTrade
  BY DEF Inv
<1>1. ASSUME UNCHANGED eval PROVE IntentIsOwn'
  BY <1>1 DEF IntentIsOwn, Inv
<1>2. ASSUME UNCHANGED manage PROVE ManagerHasTrade'
  BY <1>2 DEF ManagerHasTrade, Inv
<1>3. ASSUME NEW t \in Trades, Promote(t) PROVE Keepers'
  BY <1>0, <1>1, <1>2, <1>3, PromoteMoves, PromoteLasts, LastingJobs DEF Keepers
<1>4. ASSUME NEW t \in Trades, Pick(t) PROVE Keepers'
  <2>1. ManagerHasTrade' /\ UNCHANGED eval
    BY <1>0, <1>4, PickMoves DEF ManagerHasTrade
  <2> QED
    BY <1>1, <1>4, <2>1, PickLasts, LastingJobs DEF Keepers
<1>5. CASE Midnight
  BY <1>1, <1>2, <1>5, UntouchedLasts, LastingJobs DEF Midnight, Keepers
<1>6. ASSUME NEW symbol \in Symbols, NativeExit(symbol) PROVE Keepers'
  BY <1>1, <1>2, <1>6, UntouchedLasts, LastingJobs DEF NativeExit, Keepers
<1>7. CASE Crash
  <2>1. eval' = [e \in Evaluators |-> Resting] /\ manage' = ManagerResting
    BY <1>0, <1>7, CrashMoves
  <2>2. Resting.at = "idle"
    BY DEF Resting
  <2>3. ManagerHasTrade'
    BY <2>1, ManagerRestingType DEF ManagerHasTrade
  <2>4. IntentIsOwn'
    BY <2>1, <2>2 DEF IntentIsOwn
  <2> QED
    BY <1>7, <2>3, <2>4, CrashLasts, LastingJobs DEF Keepers
<1> QED
  BY <1>3, <1>4, <1>5, <1>6, <1>7

LEMMA InitInv == Init => Inv
<1>1. SUFFICES ASSUME Init PROVE ManagerHasTrade /\ IntentIsOwn /\ KnownJobs /\ Scheduled
  BY InitType DEF Inv
<1>2. ManagerHasTrade
  BY <1>1, ManagerRestingType DEF Init, ManagerHasTrade
<1>3. IntentIsOwn
  BY <1>1 DEF Init, IntentIsOwn, Resting
<1>4. \A t \in Trades : ~jobs[t].repeats /\ jobs[t].queued = {} /\ ~Runs(t)
  BY <1>1, ManagerRestingType DEF Init, NoJob, Runs
<1> QED
  BY <1>2, <1>3, <1>4 DEF KnownJobs, Scheduled, Alive

LEMMA StepInv == Inv /\ [Next]_vars => Inv'
<1>1. SUFFICES ASSUME Inv, [Next]_vars PROVE Inv'
  OBVIOUS
<1>2. ASSUME NEW e \in Evaluators, EvaluateStep(e) PROVE Inv'
  <2>1. TypeOK /\ IntentIsOwn
    BY <1>1 DEF Inv
  <2> QED
    BY <1>1, <1>2, <2>1, TypeEvaluate, KeepersEvaluate DEF Inv
<1>3. ASSUME NEW t \in Trades, Promote(t) \/ Pick(t) PROVE Inv'
  BY <1>1, <1>3, TypeWorld, KeepersWorld DEF Inv, Keepers
<1>4. CASE ManageStep
  BY <1>1, <1>4, TypeManage, KeepersManage DEF Inv
<1>5. CASE Midnight
  BY <1>1, <1>5, TypeWorld, KeepersWorld DEF Inv, Keepers
<1>6. ASSUME NEW symbol \in Symbols, NativeExit(symbol) PROVE Inv'
  BY <1>1, <1>6, TypeWorld, KeepersWorld DEF Inv, Keepers
<1>7. CASE Crash
  BY <1>1, <1>7, TypeWorld, KeepersWorld DEF Inv, Keepers
<1>8. CASE UNCHANGED vars
  <2>1. ManagerHasTrade' /\ IntentIsOwn'
    BY <1>1, <1>8 DEF vars, Inv, ManagerHasTrade, IntentIsOwn
  <2>2. KnownJobs' /\ Scheduled'
    BY <1>1, <1>8, UntouchedLasts, LastingJobs DEF vars
  <2> QED
    BY <1>1, <1>8, <2>1, <2>2, TypeStutters DEF Inv
<1> QED
  BY <1>1, <1>2, <1>3, <1>4, <1>5, <1>6, <1>7, <1>8 DEF Next

LEMMA AlwaysInv == Spec => []Inv
<1>1. Init => Inv
  BY InitInv
<1>2. Inv /\ [Next]_vars => Inv'
  BY StepInv
<1> QED
  BY <1>1, <1>2, PTL DEF Spec

\* Every variable of the aggressive subsystem keeps its type.
THEOREM TypeCorrect == Spec => []TypeOK
<1>1. Inv => TypeOK
  BY DEF Inv
<1> QED
  BY <1>1, AlwaysInv, PTL

-----------------------------------------------------------------------------
(* The orders of a day.  Of two evaluators with the jobs j and k, on day t *)
(* with the hashes h and the orders n: what has been ordered today is      *)
(* counted or about to be, and an order that is decided on has its place   *)
(* below the bound already.  A day that is seeded after its midnight has   *)
(* at most one order that its hash does not show.                          *)

One(b) == IF b THEN 1 ELSE 0
Uncounted(j) == One(j.at \in {"enqueue", "count"})
Ordering(j, d) == One(j.at = "order" /\ j.day = d)
Deciding(j, d) == One(j.at \in {"seed", "order"} /\ j.day = d)

Reached(j, t) == j.at \in {"seed", "order"} => j.day <= t
LateSeed(j, k, t, h, n) ==
    j.at = "seed" /\ j.day < t => n[j.day] + Deciding(k, j.day) <= h[j.day].trades + 1
Unordered(t, n) == \A d \in 0..MaxDays : d > t => n[d] = 0
Counting(j, k, t, h, n) == n[t] <= h[t].trades + Uncounted(j) + Uncounted(k)
Bounded(j, k, n) == \A d \in 0..MaxDays : n[d] + Ordering(j, d) + Ordering(k, d) <= Limits.maxTrades + 1

TradesOk(j, k, t, h, n) ==
    /\ Unordered(t, n)
    /\ Reached(j, t) /\ Reached(k, t)
    /\ Counting(j, k, t, h, n)
    /\ LateSeed(j, k, t, h, n) /\ LateSeed(k, j, t, h, n)
    /\ Bounded(j, k, n)

TradesTyped(j, k, t, h, n) ==
    /\ j \in Evals /\ k \in Evals /\ t \in 0..MaxDays
    /\ h \in [0..MaxDays -> Hashes] /\ n \in [0..MaxDays -> Nat]
    /\ Limits.maxTrades > 0

LEMMA OneType == ASSUME NEW b PROVE One(b) \in {0, 1}
  BY DEF One

LEMMA IndicatorTypes ==
    ASSUME NEW j, NEW d
    PROVE  Uncounted(j) \in {0, 1} /\ Ordering(j, d) \in {0, 1} /\ Deciding(j, d) \in {0, 1}
  BY DEF One, Uncounted, Ordering, Deciding

LEMMA TradesFields ==
    ASSUME NEW j, NEW k, NEW t, NEW h, NEW n, TradesTyped(j, k, t, h, n)
    PROVE  /\ Limits.maxTrades \in Int /\ Limits.maxTrades > 0 /\ t \in 0..MaxDays /\ MaxDays \in Nat
           /\ j.day \in 0..MaxDays /\ k.day \in 0..MaxDays
           /\ \A d \in 0..MaxDays : h[d].trades \in Nat /\ n[d] \in Nat
  BY AggressiveAssumption DEF TradesTyped, Evals, Hashes

LEMMA TradesTurned ==
    ASSUME NEW j, NEW k, NEW t, NEW h, NEW n, TradesTyped(j, k, t, h, n), TradesOk(j, k, t, h, n)
    PROVE  TradesOk(k, j, t, h, n)
<1>1. Counting(k, j, t, h, n)
  BY TradesFields, IndicatorTypes DEF TradesOk, Counting
<1>2. Bounded(k, j, n)
  BY TradesFields, IndicatorTypes DEF TradesOk, Bounded
<1> QED
  BY <1>1, <1>2 DEF TradesOk

\* A job goes nowhere near an order.
LEMMA TradesRest ==
    ASSUME NEW j, NEW k, NEW t, NEW h, NEW n, NEW v,
           TradesTyped(j, k, t, h, n), TradesOk(j, k, t, h, n),
           v.at \notin {"seed", "order"}, Uncounted(v) = Uncounted(j)
    PROVE  TradesOk(v, k, t, h, n)
<1>1. \A d : Ordering(v, d) = 0 /\ Deciding(v, d) = 0
  BY DEF Ordering, Deciding, One
<1>2. Counting(v, k, t, h, n) /\ Reached(v, t) /\ LateSeed(v, k, t, h, n)
  BY DEF TradesOk, Counting, Reached, LateSeed
<1>3. Bounded(v, k, n)
  BY <1>1, TradesFields, IndicatorTypes DEF TradesOk, Bounded
<1>4. LateSeed(k, v, t, h, n)
  BY <1>1, TradesFields, IndicatorTypes DEF TradesOk, LateSeed
<1> QED
  BY <1>2, <1>3, <1>4 DEF TradesOk

\* A day without a hash is to be seeded.
LEMMA TradesSeed ==
    ASSUME NEW j, NEW k, NEW t, NEW h, NEW n, NEW v,
           TradesTyped(j, k, t, h, n), TradesOk(j, k, t, h, n),
           j.at = "decide", v.at = "seed", v.day = t
    PROVE  TradesOk(v, k, t, h, n)
<1>1. Uncounted(v) = 0 /\ Uncounted(j) = 0 /\ \A d : Ordering(v, d) = 0
  BY DEF Ordering, Uncounted, One
<1>2. Counting(v, k, t, h, n) /\ Reached(v, t) /\ LateSeed(v, k, t, h, n)
  BY <1>1, TradesFields DEF TradesOk, Counting, Reached, LateSeed
<1>3. Bounded(v, k, n)
  BY <1>1, TradesFields, IndicatorTypes DEF TradesOk, Bounded
<1>4. LateSeed(k, v, t, h, n)
  <2>1. k.day < t => Deciding(v, k.day) = 0
    BY TradesFields DEF Deciding, One
  <2> QED
    BY <2>1, TradesFields, IndicatorTypes DEF TradesOk, LateSeed
<1> QED
  BY <1>2, <1>3, <1>4 DEF TradesOk

\* The guard lets an order pass on the hash of today.
LEMMA TradesDecide ==
    ASSUME NEW j, NEW k, NEW t, NEW h, NEW n, NEW v,
           TradesTyped(j, k, t, h, n), TradesOk(j, k, t, h, n),
           j.at = "decide" \/ j.at = "seed", v.at = "order", v.day = t,
           h[t].trades < Limits.maxTrades
    PROVE  TradesOk(v, k, t, h, n)
<1>1. /\ Uncounted(v) = 0 /\ Uncounted(j) = 0
      /\ \A d : Ordering(v, d) = (IF d = t THEN 1 ELSE 0) /\ Ordering(j, d) = 0
  BY DEF Ordering, Uncounted, One
<1>2. Counting(v, k, t, h, n) /\ Reached(v, t) /\ LateSeed(v, k, t, h, n)
  BY <1>1, TradesFields DEF TradesOk, Counting, Reached, LateSeed
<1>3. n[t] + Ordering(k, t) <= Limits.maxTrades
  <2>1. n[t] <= h[t].trades + Uncounted(k)
    BY <1>1, TradesFields, IndicatorTypes DEF TradesOk, Counting
  <2>2. Uncounted(k) + Ordering(k, t) <= 1
    BY DEF Uncounted, Ordering, One
  <2> QED
    BY <2>1, <2>2, TradesFields, IndicatorTypes
<1>4. Bounded(v, k, n)
  <2>1. ASSUME NEW d \in 0..MaxDays PROVE n[d] + Ordering(v, d) + Ordering(k, d) <= Limits.maxTrades + 1
    <3>1. CASE d = t
      BY <3>1, <1>1, <1>3, TradesFields, IndicatorTypes
    <3>2. CASE d # t
      BY <3>2, <1>1, TradesFields, IndicatorTypes DEF TradesOk, Bounded
    <3> QED
      BY <3>1, <3>2
  <2> QED
    BY <2>1 DEF Bounded
<1>5. LateSeed(k, v, t, h, n)
  <2>1. k.day < t => Deciding(v, k.day) = 0
    BY TradesFields DEF Deciding, One
  <2> QED
    BY <2>1, TradesFields, IndicatorTypes DEF TradesOk, LateSeed
<1> QED
  BY <1>2, <1>4, <1>5 DEF TradesOk

\* The guard lets an order pass on a day it has just seeded, after midnight.
LEMMA TradesLate ==
    ASSUME NEW j, NEW k, NEW t, NEW h, NEW n, NEW v,
           TradesTyped(j, k, t, h, n), TradesOk(j, k, t, h, n),
           j.at = "seed", v.at = "order", v.day = j.day, j.day < t, h[j.day].trades = 0
    PROVE  TradesOk(v, k, t, h, n)
<1>1. /\ Uncounted(v) = 0 /\ Uncounted(j) = 0
      /\ \A d : Ordering(v, d) = (IF d = j.day THEN 1 ELSE 0) /\ Ordering(j, d) = 0
      /\ \A d : Deciding(v, d) = Deciding(j, d)
  BY DEF Ordering, Deciding, Uncounted, One
<1>2. Counting(v, k, t, h, n) /\ Reached(v, t) /\ LateSeed(v, k, t, h, n)
  BY <1>1, TradesFields DEF TradesOk, Counting, Reached, LateSeed
<1>3. n[j.day] + Ordering(k, j.day) <= 1
  <2>1. n[j.day] + Deciding(k, j.day) <= 1
    BY TradesFields DEF TradesOk, LateSeed
  <2>2. Ordering(k, j.day) <= Deciding(k, j.day)
    BY DEF Ordering, Deciding, One
  <2> QED
    BY <2>1, <2>2, TradesFields, IndicatorTypes
<1>4. Bounded(v, k, n)
  <2>1. ASSUME NEW d \in 0..MaxDays PROVE n[d] + Ordering(v, d) + Ordering(k, d) <= Limits.maxTrades + 1
    <3>1. CASE d = j.day
      BY <3>1, <1>1, <1>3, TradesFields, IndicatorTypes
    <3>2. CASE d # j.day
      BY <3>2, <1>1, TradesFields, IndicatorTypes DEF TradesOk, Bounded
    <3> QED
      BY <3>1, <3>2
  <2> QED
    BY <2>1 DEF Bounded
<1>5. LateSeed(k, v, t, h, n)
  BY <1>1, TradesFields, IndicatorTypes DEF TradesOk, LateSeed
<1> QED
  BY <1>2, <1>4, <1>5 DEF TradesOk

OrderedBy(m, n, j) == m = [n EXCEPT ![j.day] = @ + 1]

\* The order is sent.
LEMMA TradesPlace ==
    ASSUME NEW j, NEW k, NEW t, NEW h, NEW n, NEW v, NEW m,
           TradesTyped(j, k, t, h, n), TradesOk(j, k, t, h, n),
           j.at = "order", v.at = "enqueue", OrderedBy(m, n, j)
    PROVE  TradesOk(v, k, t, h, m)
<1>1. /\ Uncounted(v) = 1 /\ Uncounted(j) = 0
      /\ \A d : Ordering(v, d) = 0 /\ Deciding(v, d) = 0
      /\ \A d : Ordering(j, d) = (IF d = j.day THEN 1 ELSE 0)
      /\ \A d : Deciding(j, d) = (IF d = j.day THEN 1 ELSE 0)
  BY DEF Ordering, Deciding, Uncounted, One
<1>2. /\ \A d \in 0..MaxDays : m[d] = n[d] + (IF d = j.day THEN 1 ELSE 0)
      /\ j.day <= t
  BY TradesFields DEF TradesTyped, TradesOk, Reached, OrderedBy
<1>3. Unordered(t, m)
  BY <1>2, TradesFields DEF TradesOk, Unordered
<1>4. Counting(v, k, t, h, m)
  BY <1>1, <1>2, TradesFields, IndicatorTypes DEF TradesOk, Counting
<1>5. Reached(v, t) /\ LateSeed(v, k, t, h, m)
  BY <1>1 DEF Reached, LateSeed
<1>6. LateSeed(k, v, t, h, m)
  <2>1. SUFFICES ASSUME k.at = "seed", k.day < t
                 PROVE  m[k.day] + Deciding(v, k.day) <= h[k.day].trades + 1
    BY DEF LateSeed
  <2>2. n[k.day] + Deciding(j, k.day) <= h[k.day].trades + 1
    BY <2>1 DEF TradesOk, LateSeed
  <2> QED
    BY <2>2, <1>1, <1>2, TradesFields
<1>7. Bounded(v, k, m)
  <2>1. ASSUME NEW d \in 0..MaxDays PROVE m[d] + Ordering(v, d) + Ordering(k, d) <= Limits.maxTrades + 1
    <3>1. n[d] + Ordering(j, d) + Ordering(k, d) <= Limits.maxTrades + 1
      BY DEF TradesOk, Bounded
    <3> QED
      BY <3>1, <1>1, <1>2, TradesFields, IndicatorTypes
  <2> QED
    BY <2>1 DEF Bounded
<1> QED
  BY <1>3, <1>4, <1>5, <1>6, <1>7 DEF TradesOk

\* The trade is counted, on the hash of the day it is now.
LEMMA TradesCounted ==
    ASSUME NEW j, NEW k, NEW t, NEW h, NEW n, NEW v, NEW g,
           TradesTyped(j, k, t, h, n), TradesOk(j, k, t, h, n), j.at = "count", v.at = "idle",
           g[t].trades = h[t].trades + 1, \A d \in 0..MaxDays \ {t} : g[d] = h[d]
    PROVE  TradesOk(v, k, t, g, n)
<1>1. /\ Uncounted(v) = 0 /\ Uncounted(j) = 1
      /\ \A d : Ordering(v, d) = 0 /\ Deciding(v, d) = 0
  BY DEF Ordering, Deciding, Uncounted, One
<1>2. Counting(v, k, t, g, n)
  BY <1>1, TradesFields, IndicatorTypes DEF TradesOk, Counting
<1>3. Reached(v, t) /\ LateSeed(v, k, t, g, n)
  BY <1>1 DEF Reached, LateSeed
<1>4. LateSeed(k, v, t, g, n)
  BY <1>1, TradesFields, IndicatorTypes DEF TradesOk, LateSeed
<1>5. Bounded(v, k, n)
  BY <1>1, TradesFields, IndicatorTypes DEF TradesOk, Bounded
<1> QED
  BY <1>2, <1>3, <1>4, <1>5 DEF TradesOk

\* Hashes with the same counts.
LEMMA TradesAgree ==
    ASSUME NEW j, NEW k, NEW t, NEW h, NEW n, NEW g,
           TradesTyped(j, k, t, h, n), TradesOk(j, k, t, h, n),
           \A d \in 0..MaxDays : g[d].trades = h[d].trades
    PROVE  TradesOk(j, k, t, g, n)
<1>1. Counting(j, k, t, g, n)
  BY TradesFields DEF TradesOk, Counting
<1>2. LateSeed(j, k, t, g, n) /\ LateSeed(k, j, t, g, n)
  BY TradesFields DEF TradesOk, LateSeed
<1> QED
  BY <1>1, <1>2 DEF TradesOk

\* What midnight leaves to a seed of the day before.
LEMMA SeedAtMidnight ==
    ASSUME NEW j, NEW k, NEW t, NEW h, NEW n,
           TradesTyped(j, k, t, h, n), TradesOk(j, k, t, h, n), t < MaxDays
    PROVE  LateSeed(j, k, t + 1, h, n)
<1>1. SUFFICES ASSUME j.at = "seed", j.day < t + 1
               PROVE  n[j.day] + Deciding(k, j.day) <= h[j.day].trades + 1
  BY DEF LateSeed
<1>2. CASE j.day = t
  <2>1. Uncounted(j) = 0
    BY <1>1 DEF Uncounted, One
  <2>2. Uncounted(k) + Deciding(k, t) <= 1
    BY DEF Uncounted, Deciding, One
  <2>3. n[t] <= h[t].trades + Uncounted(k)
    BY <2>1, TradesFields, IndicatorTypes DEF TradesOk, Counting
  <2> QED
    BY <1>2, <2>2, <2>3, TradesFields, IndicatorTypes
<1>3. CASE j.day # t
  BY <1>1, <1>3, TradesFields DEF TradesOk, LateSeed
<1> QED
  BY <1>2, <1>3

LEMMA TradesMidnight ==
    ASSUME NEW j, NEW k, NEW t, NEW h, NEW n,
           TradesTyped(j, k, t, h, n), TradesOk(j, k, t, h, n), t < MaxDays
    PROVE  TradesOk(j, k, t + 1, h, n)
<1>1. Unordered(t + 1, n)
  BY TradesFields DEF TradesOk, Unordered
<1>2. Reached(j, t + 1) /\ Reached(k, t + 1)
  BY TradesFields DEF TradesOk, Reached
<1>3. Counting(j, k, t + 1, h, n)
  <2>1. n[t + 1] = 0 /\ h[t + 1].trades \in Nat
    BY TradesFields DEF TradesOk, Unordered
  <2> QED
    BY <2>1, IndicatorTypes DEF Counting
<1>4. LateSeed(j, k, t + 1, h, n)
  BY SeedAtMidnight
<1>5. LateSeed(k, j, t + 1, h, n)
  BY SeedAtMidnight, TradesTurned DEF TradesTyped
<1> QED
  BY <1>1, <1>2, <1>3, <1>4, <1>5 DEF TradesOk

Undisturbed == ~overwritten /\ mishaps \cap {"entry", "count", "crash"} = {}
Other(e) == IF e = "hunter" THEN "pump" ELSE "hunter"
TradesFor(e) == TradesOk(eval[e], eval[Other(e)], today, days, ordered)
TradesCount == Undisturbed /\ Limits.maxTrades > 0 => \A e \in Evaluators : TradesFor(e)

LEMMA OtherFacts ==
    ASSUME NEW e \in Evaluators
    PROVE  /\ Other(e) \in Evaluators \ {e} /\ Other(Other(e)) = e
           /\ \A x \in Evaluators : x = e \/ x = Other(e)
  BY DEF Other, Evaluators

LEMMA TradesTypes ==
    ASSUME TypeOK, Limits.maxTrades > 0, NEW e \in Evaluators
    PROVE  TradesTyped(eval[e], eval[Other(e)], today, days, ordered)
<1>1. eval[e] \in Evals /\ eval[Other(e)] \in Evals
  BY EvalFields, OtherFacts
<1> QED
  BY <1>1, DaysType DEF TradesTyped, TypeOK

LEMMA NextTypes ==
    ASSUME TypeOK'
    PROVE  /\ eval' \in [Evaluators -> Evals] /\ days' \in [0..MaxDays -> Hashes]
           /\ today' \in 0..MaxDays /\ ordered' \in [0..MaxDays -> Nat]
  BY DEF TypeOK, Evals, Stages, Hashes

LEMMA TradesForBothNext ==
    ASSUME TypeOK', Limits.maxTrades > 0, NEW e \in Evaluators,
           TradesOk(eval'[e], eval'[Other(e)], today', days', ordered')
    PROVE  TradesCount'
<1>1. Other(e) \in Evaluators /\ Other(Other(e)) = e
  BY OtherFacts
<1>2. TradesTyped(eval'[e], eval'[Other(e)], today', days', ordered')
  BY <1>1, NextTypes DEF TradesTyped
<1>3. TradesOk(eval'[Other(e)], eval'[e], today', days', ordered')
  BY <1>2, TradesTurned
<1>4. \A x \in Evaluators : TradesOk(eval'[x], eval'[Other(x)], today', days', ordered')
  BY <1>1, <1>3, OtherFacts
<1> QED
  BY <1>4 DEF TradesCount, TradesFor

LEMMA MishapStays == ASSUME NEW kind, Mishap(kind) PROVE kind \in mishaps' /\ mishaps \subseteq mishaps'
  BY DEF Mishap

LEMMA TradesEvaluate ==
    ASSUME Inv, TypeOK', TradesCount, NEW e \in Evaluators, EvaluateStep(e),
           Undisturbed', Limits.maxTrades > 0
    PROVE  TradesOk(eval'[e], eval'[Other(e)], today', days', ordered')
<1> DEFINE j == eval[e]
           k == eval[Other(e)]
           v == eval'[e]
<1>1. TypeOK /\ IntentIsOwn
  BY DEF Inv
<1>2. ASSUME mishaps \subseteq mishaps', overwritten => overwritten'
      PROVE  TradesTyped(j, k, today, days, ordered) /\ TradesOk(j, k, today, days, ordered)
  BY <1>1, <1>2, TradesTypes DEF Undisturbed, TradesCount, TradesFor
<1>3. ASSUME NEW w \in Evals, Moves(e, w) PROVE v = w /\ eval'[Other(e)] = k
  BY <1>1, <1>3, EvalMoves, OtherFacts DEF Moves
<1>4. Resting \in Evals /\ Resting.at = "idle" /\ Uncounted(Resting) = 0
  BY RestingType DEF Resting, Uncounted, One
<1>5. CASE Gate(e)
  <2>1. j.at \in {"idle", "active", "waiting"}
    BY <1>1, <1>5, GateMoves
  <2>2. PICK w \in Evals : Moves(e, w) /\ w.at \in {"idle", "active", "waiting", "decide"}
    BY <1>1, <1>5, GateMoves
  <2>3. v = w /\ eval'[Other(e)] = k
    BY <2>2, <1>3
  <2>4. Uncounted(w) = 0 /\ Uncounted(j) = 0
    BY <2>1, <2>2 DEF Uncounted, One
  <2>5. UNCHANGED <<today, days, ordered, overwritten, mishaps>>
    BY <1>1, <1>5, GateMoves
  <2>6. TradesTyped(j, k, today, days, ordered) /\ TradesOk(j, k, today, days, ordered)
    BY <2>5, <1>2
  <2> HIDE DEF j, k, v
  <2>7. TradesOk(w, k, today, days, ordered)
    BY <2>2, <2>4, <2>6, TradesRest
  <2> QED
    BY <2>3, <2>5, <2>7 DEF v
<1>6. CASE DecideEntry(e)
  <2>1. j.at = "decide"
    BY <1>6 DEF DecideEntry
  <2>2. UNCHANGED <<today, days, ordered, overwritten, mishaps>>
    BY <1>1, <1>6, DecideMoves
  <2>3. TradesTyped(j, k, today, days, ordered) /\ TradesOk(j, k, today, days, ordered)
    BY <2>2, <1>2
  <2>4. PICK w \in Evals : /\ Moves(e, w)
                           /\ \/ w = Resting
                              \/ w.day = today /\ (w.at = "seed" \/ (w.at = "order" /\ Allowed))
    BY <1>1, <1>4, <1>6, DecideMoves
  <2>5. v = w /\ eval'[Other(e)] = k
    BY <2>4, <1>3
  <2>6. Uncounted(j) = 0
    BY <2>1 DEF Uncounted, One
  <2> HIDE DEF j, k, v
  <2>7. CASE w = Resting
    <3>1. TradesOk(w, k, today, days, ordered)
      BY <2>3, <2>6, <2>7, <1>4, TradesRest
    <3> QED
      BY <3>1, <2>2, <2>5 DEF v
  <2>8. CASE w.day = today /\ w.at = "seed"
    <3>1. TradesOk(w, k, today, days, ordered)
      BY <2>1, <2>3, <2>8, TradesSeed
    <3> QED
      BY <3>1, <2>2, <2>5 DEF v
  <2>9. CASE w.day = today /\ w.at = "order" /\ Allowed
    <3>1. days[today].trades < Limits.maxTrades
      BY <2>9 DEF Allowed
    <3>2. TradesOk(w, k, today, days, ordered)
      BY <2>1, <2>3, <2>9, <3>1, TradesDecide
    <3> QED
      BY <3>2, <2>2, <2>5 DEF v
  <2> QED
    BY <2>4, <2>7, <2>8, <2>9
<1>7. CASE SeedDay(e)
  <2>1. j.at = "seed" /\ j.intent \in Intents
    BY <1>1, <1>7 DEF SeedDay, IntentIsOwn
  <2>2. /\ days' = [days EXCEPT ![j.day] = Seeded(e)]
        /\ overwritten' = (overwritten \/ days[j.day].pnl # 0 \/ days[j.day].trades # 0)
        /\ UNCHANGED <<today, ordered, mishaps>>
    BY <1>1, <1>7, <2>1, SeedMoves
  <2>3. TradesTyped(j, k, today, days, ordered) /\ TradesOk(j, k, today, days, ordered)
    BY <2>2, <1>2
  <2>4. days[j.day].trades = 0 /\ j.day \in 0..MaxDays /\ days \in [0..MaxDays -> Hashes]
    BY <1>1, <2>2, EvalFields, DaysType DEF Undisturbed
  <2>5. \A d \in 0..MaxDays : days'[d].trades = days[d].trades
    BY <2>2, <2>4 DEF Seeded
  <2>6. PICK w \in Evals : Moves(e, w) /\ (w = Resting \/ (w.at = "order" /\ w.day = j.day))
    BY <1>1, <1>4, <1>7, <2>1, SeedMoves
  <2>7. v = w /\ eval'[Other(e)] = k
    BY <2>6, <1>3
  <2>8. Uncounted(j) = 0
    BY <2>1 DEF Uncounted, One
  <2> HIDE DEF j, k, v
  <2>9. TradesOk(j, k, today, days', ordered)
    BY <2>3, <2>5, TradesAgree
  <2>10. days' \in [0..MaxDays -> Hashes]
    BY NextTypes
  <2>11. TradesTyped(j, k, today, days', ordered)
    BY <2>3, <2>10 DEF TradesTyped
  <2>12. j.day <= today /\ days'[j.day].trades = 0 /\ today \in Int /\ j.day \in Int
    BY <1>1, <2>1, <2>3, <2>4, <2>5, DaysType DEF TradesOk, Reached
  <2>13. TradesOk(w, k, today, days', ordered)
    <3>1. CASE w = Resting
      BY <2>8, <2>9, <2>11, <3>1, <1>4, TradesRest
    <3>2. CASE w.at = "order" /\ w.day = j.day /\ j.day < today
      BY <2>1, <2>9, <2>11, <2>12, <3>2, TradesLate
    <3>3. CASE w.at = "order" /\ w.day = j.day /\ j.day = today
      <4>1. days'[today].trades < Limits.maxTrades
        BY <2>12, <3>3
      <4> QED
        BY <2>1, <2>9, <2>11, <3>3, <4>1, TradesDecide
    <3> QED
      BY <2>6, <2>12, <3>1, <3>2, <3>3
  <2> QED
    BY <2>2, <2>7, <2>13 DEF v
<1>8. CASE PlaceOrder(e)
  <2>1. j.at = "order"
    BY <1>8 DEF PlaceOrder
  <2>2. ordered' = [ordered EXCEPT ![j.day] = @ + 1] /\ UNCHANGED <<today, days, overwritten>>
    BY <1>1, <1>8, PlaceMoves
  <2>3. ~Mishap("entry")
    BY MishapStays DEF Undisturbed
  <2>4. PICK w \in Evals : Moves(e, w) /\ w.at = "enqueue" /\ UNCHANGED mishaps
    BY <1>1, <1>8, <2>3, PlaceMoves
  <2>5. TradesTyped(j, k, today, days, ordered) /\ TradesOk(j, k, today, days, ordered)
    BY <2>2, <2>4, <1>2
  <2>6. v = w /\ eval'[Other(e)] = k
    BY <2>4, <1>3
  <2> HIDE DEF j, k, v
  <2>7. TradesOk(w, k, today, days, ordered')
    <3>1. OrderedBy(ordered', ordered, j)
      BY <2>2 DEF OrderedBy, j
    <3> QED
      BY <2>1, <2>4, <2>5, <3>1, TradesPlace
  <2> QED
    BY <2>2, <2>6, <2>7 DEF v
<1>9. CASE EnqueueManage(e)
  <2>1. j.at = "enqueue"
    BY <1>9 DEF EnqueueManage
  <2>2. UNCHANGED <<today, days, ordered, overwritten>>
    BY <1>1, <1>9, EnqueueMoves
  <2>3. ~Mishap("entry")
    BY MishapStays DEF Undisturbed
  <2>4. PICK w \in Evals : Moves(e, w) /\ w.at = "count" /\ UNCHANGED mishaps
    BY <1>1, <1>9, <2>3, EnqueueMoves
  <2>5. TradesTyped(j, k, today, days, ordered) /\ TradesOk(j, k, today, days, ordered)
    BY <2>2, <2>4, <1>2
  <2>6. v = w /\ eval'[Other(e)] = k
    BY <2>4, <1>3
  <2>7. Uncounted(w) = 1 /\ Uncounted(j) = 1
    BY <2>1, <2>4 DEF Uncounted, One
  <2> HIDE DEF j, k, v
  <2>8. TradesOk(w, k, today, days, ordered)
    BY <2>4, <2>5, <2>7, TradesRest
  <2> QED
    BY <2>2, <2>6, <2>8 DEF v
<1>10. CASE RecordTradeOpened(e)
  <2>1. j.at = "count" /\ Moves(e, Resting)
    BY <1>1, <1>10, RecordMoves
  <2>2. ~Mishap("count")
    BY MishapStays DEF Undisturbed
  <2>3. /\ days' = [days EXCEPT ![today].trades = @ + 1]
        /\ UNCHANGED <<today, ordered, overwritten, mishaps>>
    BY <1>1, <1>10, <2>2, RecordMoves
  <2>4. TradesTyped(j, k, today, days, ordered) /\ TradesOk(j, k, today, days, ordered)
    BY <2>3, <1>2
  <2>5. /\ days'[today].trades = days[today].trades + 1
        /\ \A d \in 0..MaxDays \ {today} : days'[d] = days[d]
    BY <1>1, <2>3, DaysType, DaysCounted
  <2>6. v = Resting /\ eval'[Other(e)] = k
    BY <2>1, <1>3, <1>4
  <2> HIDE DEF j, k, v
  <2>7. TradesOk(Resting, k, today, days', ordered)
    BY <2>1, <2>4, <2>5, <1>4, TradesCounted
  <2> QED
    BY <2>3, <2>6, <2>7 DEF v
<1> QED
  BY <1>5, <1>6, <1>7, <1>8, <1>9, <1>10 DEF EvaluateStep

LEMMA TradesElsewhere ==
    ASSUME Inv, TypeOK', TradesCount, Undisturbed', Limits.maxTrades > 0,
           UNCHANGED <<eval, ordered>>, mishaps \subseteq mishaps', UNCHANGED overwritten,
           \/ UNCHANGED today /\ \A d \in 0..MaxDays : days'[d].trades = days[d].trades
           \/ today < MaxDays /\ today' = today + 1 /\ UNCHANGED days
    PROVE  TradesCount'
<1>1. PICK e \in Evaluators : TRUE
  BY DEF Evaluators
<1> DEFINE j == eval[e]
           k == eval[Other(e)]
<1>2. TradesTyped(j, k, today, days, ordered) /\ TradesOk(j, k, today, days, ordered)
  BY TradesTypes DEF Undisturbed, TradesCount, TradesFor, Inv
<1>3. TradesOk(j, k, today', days', ordered)
  <2> HIDE DEF j, k
  <2>1. CASE UNCHANGED today /\ \A d \in 0..MaxDays : days'[d].trades = days[d].trades
    BY <1>2, <2>1, TradesAgree
  <2>2. CASE today < MaxDays /\ today' = today + 1 /\ UNCHANGED days
    BY <1>2, <2>2, TradesMidnight
  <2> QED
    BY <2>1, <2>2
<1> QED
  BY <1>3, TradesForBothNext

LEMMA TradesStep == Inv /\ Inv' /\ TradesCount /\ [Next]_vars => TradesCount'
<1>1. SUFFICES ASSUME Inv, Inv', TradesCount, [Next]_vars, Undisturbed', Limits.maxTrades > 0
               PROVE  TradesCount'
  BY DEF TradesCount
<1> USE <1>1
<1>2. TypeOK /\ TypeOK'
  BY DEF Inv
<1>3. ASSUME NEW e \in Evaluators, EvaluateStep(e) PROVE TradesCount'
  BY <1>2, <1>3, TradesEvaluate, TradesForBothNext
<1>4. ASSUME UNCHANGED <<today, days, eval, ordered, overwritten>>, mishaps \subseteq mishaps'
      PROVE  TradesCount'
  BY <1>2, <1>4, TradesElsewhere
<1>5. ASSUME NEW t \in Trades, Promote(t) \/ Pick(t) PROVE TradesCount'
  BY <1>2, <1>4, <1>5, PromoteMoves, PickMoves
<1>6. CASE ManageStep
  <2>a. ManagerHasTrade /\ manage.at # "idle"
    BY <1>6 DEF Inv, ManageStep, ScheduleNext, Trigger, Close, AppendLedger, RecordClosedPnl,
                RemoveRepeatable
  <2>b. CASE ScheduleNext \/ Trigger
    BY <2>a, <2>b, <1>2, <1>4, ScheduleMoves, TriggerMoves
  <2>1. CASE Close
    BY <2>1, <1>2, <1>4, CloseMoves, MishapStays
  <2>2. CASE AppendLedger
    BY <2>2, <1>2, <1>4, LedgerMoves, MishapStays
  <2>3. CASE RecordClosedPnl
    <3>1. \A d \in 0..MaxDays : days'[d].trades = days[d].trades
      BY <2>3, <2>a, <1>2, DailyMoves, DaysType, DaysPaid, NetPnlType
    <3>2. UNCHANGED <<today, eval, ordered, overwritten>> /\ mishaps \subseteq mishaps'
      BY <2>3, <1>2, DailyMoves, MishapStays
    <3> QED
      BY <1>2, <3>1, <3>2, TradesElsewhere
  <2>4. CASE RemoveRepeatable
    BY <2>4, <2>a, <1>2, <1>4, RemoveMoves, MishapStays
  <2> QED
    BY <1>6, <2>b, <2>1, <2>2, <2>3, <2>4 DEF ManageStep
<1>7. CASE Midnight
  BY <1>2, <1>7, TradesElsewhere DEF Midnight
<1>8. ASSUME NEW symbol \in Symbols, NativeExit(symbol) PROVE TradesCount'
  BY <1>4, <1>8 DEF NativeExit
<1>9. CASE Crash
  BY <1>9 DEF Crash, Undisturbed
<1>10. CASE UNCHANGED vars
  BY <1>4, <1>10 DEF vars
<1> QED
  BY <1>3, <1>5, <1>6, <1>7, <1>8, <1>9, <1>10 DEF Next

LEMMA TradesInit == Init => TradesCount
<1>1. SUFFICES ASSUME Init, Limits.maxTrades > 0, NEW e \in Evaluators PROVE TradesFor(e)
  BY DEF TradesCount
<1>2. eval[e] = Resting /\ eval[Other(e)] = Resting
  BY <1>1, OtherFacts DEF Init
<1>3. Uncounted(Resting) = 0 /\ Resting.at = "idle" /\ \A d : Ordering(Resting, d) = 0
  BY DEF Resting, Uncounted, Ordering, One
<1>4. /\ today = 0 /\ 0 \in 0..MaxDays
      /\ \A d \in 0..MaxDays : ordered[d] = 0 /\ days[d].trades = 0
  BY <1>1, AggressiveAssumption DEF Init
<1>5. TradesOk(Resting, Resting, today, days, ordered)
  BY <1>1, <1>3, <1>4, AggressiveAssumption
     DEF TradesOk, Unordered, Reached, Counting, LateSeed, Bounded
<1> QED
  BY <1>2, <1>5 DEF TradesFor

\* As long as every order is answered and counted, no process dies, and no
\* seeding erases a day, an evaluator that acts on a hash read seconds ago
\* costs one order more than the configured number of the day at most: that
\* of the other evaluator.
THEOREM TradesAreBounded == Spec => []TradesPerDayBounded
<1>1. Init => TradesCount
  BY TradesInit
<1>2. Inv /\ Inv' /\ TradesCount /\ [Next]_vars => TradesCount'
  BY TradesStep
<1>3. Inv /\ TradesCount => TradesPerDayBounded
  <2>1. SUFFICES ASSUME Inv, TradesCount, Undisturbed, Limits.maxTrades > 0, NEW d \in 0..MaxDays
                 PROVE  ordered[d] < Limits.maxTrades + Cardinality(Evaluators)
    BY DEF TradesPerDayBounded, Undisturbed
  <2>2. PICK e \in Evaluators : TRUE
    BY DEF Evaluators
  <2>3. TypeOK /\ TradesFor(e)
    BY <2>1, <2>2 DEF TradesCount, Inv
  <2>4. ordered[d] + Ordering(eval[e], d) + Ordering(eval[Other(e)], d) <= Limits.maxTrades + 1
    BY <2>1, <2>3 DEF TradesFor, TradesOk, Bounded
  <2>5. ordered[d] \in Nat /\ Limits.maxTrades \in Int
    BY <2>1, <2>3, AggressiveAssumption DEF TypeOK
  <2>6. Cardinality(Evaluators) = 2
    <3>1. IsFiniteSet({"hunter"}) /\ Cardinality({"hunter"}) = 1
      BY FS_Singleton
    <3>2. Evaluators = {"hunter"} \cup {"pump"} /\ "pump" \notin {"hunter"}
      BY DEF Evaluators
    <3> QED
      BY <3>1, <3>2, FS_AddElement
  <2> QED
    BY <2>4, <2>5, <2>6, IndicatorTypes
<1> QED
  BY <1>1, <1>2, <1>3, AlwaysInv, PTL DEF Spec

-----------------------------------------------------------------------------
(* The account of profit.  Between the ledger and the hash of the day the  *)
(* profit of one trade is on its way.                                      *)

DayProfits == [d \in 0..MaxDays |-> days[d].pnl]
Owed == IF manage.at = "daily" THEN NetPnl ELSE 0
Unerased == ~overwritten /\ mishaps \cap {"daily", "crash"} = {}

DaysAccount == Unerased => SumOf(DayProfits) + Owed = realised.pnl
LedgerAccount == ~realised.trimmed => SumOf(ledger) = realised.pnl

LEMMA DayProfitsType ==
    ASSUME TypeOK
    PROVE  Summable(DayProfits, 0..MaxDays) /\ SumOf(DayProfits) \in Int
<1>1. IsFiniteSet(0..MaxDays)
  BY FS_Interval, AggressiveAssumption
<1>2. \A d \in 0..MaxDays : days[d].pnl \in Int
  BY DaysType DEF Hashes
<1>3. DayProfits \in [0..MaxDays -> Int]
  BY <1>2 DEF DayProfits
<1> QED
  BY <1>1, <1>3, SumOfType DEF Summable

LEMMA DayProfitsNext ==
    ASSUME TypeOK'
    PROVE  Summable(DayProfits', 0..MaxDays)
<1>1. IsFiniteSet(0..MaxDays)
  BY FS_Interval, AggressiveAssumption
<1>2. \A d \in 0..MaxDays : days'[d].pnl \in Int
  BY NextTypes DEF Hashes
<1>3. DayProfits' \in [0..MaxDays -> Int]
  BY <1>2 DEF DayProfits
<1> QED
  BY <1>1, <1>3 DEF Summable

LEMMA RealisedType == TypeOK => realised.pnl \in Int /\ realised.trimmed \in BOOLEAN
  BY DEF TypeOK

LEMMA OwedStays ==
    ASSUME Inv, UNCHANGED manage,
           manage.at = "daily" => jobs'[manage.trade].intent = jobs[manage.trade].intent
    PROVE  Owed' = Owed
<1>1. manage.at = "daily" => NetPnl' = NetPnl
  BY DEF NetPnl, Entry
<1> QED
  BY <1>1 DEF Owed

LEMMA ProfitsStay ==
    ASSUME \A d \in 0..MaxDays : days'[d].pnl = days[d].pnl
    PROVE  DayProfits' = DayProfits
  BY DEF DayProfits

LEMMA SumOfPushed ==
    ASSUME NEW s \in Seq(Int), NEW x \in Int
    PROVE  SumOf(<<x>> \o s) = SumOf(s) + x
<1>1. PICK n \in Nat : n = Len(s)
  OBVIOUS
<1>2. PICK p : p = <<x>> \o s
  OBVIOUS
<1>3. <<x>> \in Seq(Int) /\ Len(<<x>>) = 1 /\ <<x>>[1] = x
  OBVIOUS
<1>4. p \in Seq(Int) /\ Len(p) = n + 1
  BY <1>1, <1>2, <1>3
<1>5. p[1] = x
  BY <1>1, <1>2, <1>3
<1>6. \A j \in 1..n : p[j + 1] = s[j]
  BY <1>1, <1>2
<1>7. Pushes(s, p, n)
  <2>1. s \in [1..n -> Int]
    BY <1>1
  <2>2. p \in [1..n + 1 -> Int]
    BY <1>4
  <2> QED
    BY <2>1, <2>2, <1>6 DEF Pushes
<1> QED
  BY <1>2, <1>5, <1>7, SumOfPush

LEMMA LedgerAccountStep == Inv /\ LedgerAccount /\ [Next]_vars => LedgerAccount'
<1>1. SUFFICES ASSUME Inv, LedgerAccount, [Next]_vars PROVE LedgerAccount'
  OBVIOUS
<1>2. TypeOK
  BY <1>1 DEF Inv
<1>a. AppendLedger => ManagerHasTrade /\ manage.at # "idle"
  BY <1>1 DEF Inv, AppendLedger
<1>3. ASSUME UNCHANGED <<ledger, realised>> PROVE LedgerAccount'
  BY <1>1, <1>3 DEF LedgerAccount
<1>4. CASE AppendLedger /\ ledger' # ledger /\ ~realised'.trimmed
  <2> DEFINE pushed == <<NetPnl>> \o ledger
  <2>1. /\ ledger' = SubSeq(pushed, 1, Min({LedgerLimit, Len(ledger) + 1}))
        /\ realised' = [entries |-> realised.entries + 1,
                        trimmed |-> realised.trimmed \/ Len(ledger) = LedgerLimit,
                        pnl |-> realised.pnl + NetPnl]
    BY <1>2, <1>4, LedgerMoves
  <2>2. ~realised.trimmed /\ Len(ledger) # LedgerLimit /\ realised'.pnl = realised.pnl + NetPnl
    BY <2>1, <1>4
  <2>3. ledger' = pushed
    BY <2>1, <2>2, <1>2, <1>4, <1>a, TrimmedLedger
  <2>4. ledger \in Seq(Int) /\ NetPnl \in Int
    <3>1. ledger \in Seq(Int)
      BY <1>2 DEF TypeOK
    <3>2. NetPnl \in Int
      BY <1>2, <1>4, <1>a, NetPnlType
    <3> QED
      BY <3>1, <3>2
  <2>5. SumOf(pushed) = SumOf(ledger) + NetPnl
    BY <2>4, SumOfPushed
  <2> QED
    BY <1>1, <2>2, <2>3, <2>5 DEF LedgerAccount
<1>5. CASE AppendLedger /\ (ledger' = ledger \/ realised'.trimmed)
  <2>1. CASE realised'.trimmed
    BY <2>1 DEF LedgerAccount
  <2>2. CASE ~realised'.trimmed /\ ledger' = ledger
    <3>1. CASE UNCHANGED realised
      BY <1>3, <2>2, <3>1
    <3>2. CASE realised' # realised
      <4>1. /\ ledger' = SubSeq(<<NetPnl>> \o ledger, 1, Min({LedgerLimit, Len(ledger) + 1}))
            /\ realised' = [entries |-> realised.entries + 1,
                            trimmed |-> realised.trimmed \/ Len(ledger) = LedgerLimit,
                            pnl |-> realised.pnl + NetPnl]
        BY <1>2, <1>5, <3>2, LedgerMoves
      <4>2. Len(ledger) # LedgerLimit
        BY <4>1, <2>2
      <4>a. ledger' = <<NetPnl>> \o ledger
        BY <4>1, <4>2, <1>2, <1>5, <1>a, TrimmedLedger
      <4>b. Len(<<NetPnl>> \o ledger) = Len(ledger) + 1
        BY <1>2, <1>5, <1>a, TrimmedLedger
      <4>c. Len(ledger) \in Nat
        BY <1>2 DEF TypeOK
      <4>3. Len(ledger') = Len(ledger) + 1 /\ Len(ledger) \in Nat
        BY <4>a, <4>b, <4>c
      <4> QED
        BY <4>3, <2>2
    <3> QED
      BY <3>1, <3>2
  <2> QED
    BY <1>5, <2>1, <2>2
<1>6. ASSUME NEW e \in Evaluators, EvaluateStep(e) PROVE UNCHANGED <<ledger, realised>>
  BY <1>6 DEF EvaluateStep, Gate, CountDelayed, CountActive, CountWaiting, Count, DecideEntry, SeedDay,
              PlaceOrder, EnqueueManage, RecordTradeOpened
<1>7. ASSUME NEW t \in Trades, Promote(t) \/ Pick(t) PROVE UNCHANGED <<ledger, realised>>
  BY <1>7 DEF Promote, Pick
<1>8. CASE ScheduleNext \/ Trigger \/ Close \/ RecordClosedPnl \/ RemoveRepeatable
  BY <1>3, <1>8 DEF ScheduleNext, Trigger, Close, RecordClosedPnl, RemoveRepeatable
<1>9. CASE Midnight \/ Crash \/ UNCHANGED vars
  BY <1>3, <1>9 DEF Midnight, Crash, vars
<1>10. ASSUME NEW symbol \in Symbols, NativeExit(symbol) PROVE UNCHANGED <<ledger, realised>>
  BY <1>10 DEF NativeExit
<1> QED
  BY <1>1, <1>3, <1>4, <1>5, <1>6, <1>7, <1>8, <1>9, <1>10 DEF Next, ManageStep

LEMMA DaysAccountEvaluate ==
    ASSUME Inv, DaysAccount, NEW e \in Evaluators, EvaluateStep(e)
    PROVE  DaysAccount'
<1>1. TypeOK /\ IntentIsOwn
  BY DEF Inv
<1>2. ASSUME Unerased' => Unerased, UNCHANGED <<manage, realised>>,
             Unerased' => \A d \in 0..MaxDays : days'[d].pnl = days[d].pnl,
             manage.at = "daily" => jobs'[manage.trade].intent = jobs[manage.trade].intent
      PROVE  DaysAccount'
  <2>1. Owed' = Owed
    BY <1>2, OwedStays
  <2>2. Unerased' => DayProfits' = DayProfits
    BY <1>2, ProfitsStay
  <2> QED
    BY <1>2, <2>1, <2>2 DEF DaysAccount
<1>4. ASSUME mishaps \subseteq mishaps', overwritten => overwritten' PROVE Unerased' => Unerased
  BY <1>4 DEF Unerased
<1>5. CASE Gate(e) \/ DecideEntry(e)
  BY <1>1, <1>2, <1>4, <1>5, GateMoves, DecideMoves
<1>6. CASE SeedDay(e)
  <2>1. eval[e].intent \in Intents
    BY <1>1, <1>6 DEF SeedDay, IntentIsOwn
  <2>2. /\ days' = [days EXCEPT ![eval[e].day] = Seeded(e)]
        /\ overwritten' = (overwritten \/ days[eval[e].day].pnl # 0 \/ days[eval[e].day].trades # 0)
        /\ UNCHANGED <<jobs, manage, realised, mishaps>>
    BY <1>1, <1>6, <2>1, SeedMoves
  <2>3. eval[e].day \in 0..MaxDays /\ days \in [0..MaxDays -> Hashes]
    BY <1>1, EvalFields, DaysType
  <2>4. Unerased' => \A d \in 0..MaxDays : days'[d].pnl = days[d].pnl
    BY <2>2, <2>3 DEF Unerased, Seeded
  <2> QED
    BY <2>2, <2>4, <1>2, <1>4
<1>7. CASE PlaceOrder(e)
  BY <1>1, <1>2, <1>4, <1>7, PlaceMoves, MishapStays
<1>8. CASE EnqueueManage(e)
  <2>1. manage.at = "daily" => jobs'[manage.trade].intent = jobs[manage.trade].intent
    <3>1. SUFFICES ASSUME manage.at = "daily"
                   PROVE  jobs'[manage.trade].intent = jobs[manage.trade].intent
      OBVIOUS
    <3>2. manage.trade \in Trades /\ Runs(manage.trade)
      BY <3>1 DEF Inv, ManagerHasTrade, Runs
    <3>3. \/ jobs' = jobs
          \/ \E t \in Trades : jobs[t] = NoJob /\ jobs' = [jobs EXCEPT ![t] = Scheduling(eval[e].intent)]
      BY <1>1, <1>8, EnqueueMoves
    <3>4. CASE jobs' # jobs
      <4>1. PICK t \in Trades :
              jobs[t] = NoJob /\ jobs' = [jobs EXCEPT ![t] = Scheduling(eval[e].intent)]
        BY <3>3, <3>4
      <4>2. manage.trade # t
        BY <3>2, <4>1, FreeTrade
      <4>3. jobs'[manage.trade] = jobs[manage.trade]
        BY <1>1, <3>2, <4>1, <4>2, JobsType
      <4> QED
        BY <4>3
    <3> QED
      BY <3>4
  <2> QED
    BY <2>1, <1>1, <1>2, <1>4, <1>8, EnqueueMoves, MishapStays
<1>9. CASE RecordTradeOpened(e)
  <2>1. \A d \in 0..MaxDays : days'[d].pnl = days[d].pnl
    BY <1>1, <1>9, RecordMoves, DaysType, DaysCounted
  <2> QED
    BY <2>1, <1>1, <1>2, <1>4, <1>9, RecordMoves, MishapStays
<1> QED
  BY <1>5, <1>6, <1>7, <1>8, <1>9 DEF EvaluateStep

LEMMA DaysAccountManage ==
    ASSUME Inv, Inv', DaysAccount, ManageStep
    PROVE  DaysAccount'
<1>1. TypeOK /\ TypeOK' /\ ManagerHasTrade /\ manage.at # "idle"
  BY DEF Inv, ManageStep, ScheduleNext, Trigger, Close, AppendLedger, RecordClosedPnl,
         RemoveRepeatable
<1>2. NetPnl \in Int /\ realised.pnl \in Int /\ SumOf(DayProfits) \in Int
  BY <1>1, NetPnlType, RealisedType, DayProfitsType
<1>3. ASSUME mishaps \subseteq mishaps', overwritten => overwritten' PROVE Unerased' => Unerased
  BY <1>3 DEF Unerased
<1>4. ASSUME Unerased' => Unerased, UNCHANGED <<realised, days>>,
             manage.at # "daily", manage'.at # "daily"
      PROVE  DaysAccount'
  <2>1. Owed = 0 /\ Owed' = 0
    BY <1>4 DEF Owed
  <2>2. DayProfits' = DayProfits
    BY <1>4 DEF DayProfits
  <2> QED
    BY <2>1, <2>2, <1>4 DEF DaysAccount
<1>a. CASE ScheduleNext \/ Trigger
  BY <1>1, <1>3, <1>4, <1>a, ScheduleMoves, TriggerMoves
<1>5. CASE Close
  BY <1>1, <1>3, <1>4, <1>5, CloseMoves, MishapStays
<1>6. CASE AppendLedger
  <2>1. manage.at = "ledger" /\ UNCHANGED <<days, jobs, overwritten>>
    BY <1>1, <1>6, LedgerMoves
  <2>2. CASE manage'.at = "daily"
    <3>1. /\ realised' = [entries |-> realised.entries + 1,
                          trimmed |-> realised.trimmed \/ Len(ledger) = LedgerLimit,
                          pnl |-> realised.pnl + NetPnl]
          /\ manage'.trade = manage.trade /\ manage'.price = manage.price /\ UNCHANGED mishaps
      BY <1>1, <1>6, <2>2, LedgerMoves
    <3>2. Owed = 0 /\ Owed' = NetPnl
      BY <2>1, <2>2, <3>1 DEF Owed, NetPnl, Entry
    <3>3. DayProfits' = DayProfits /\ realised'.pnl = realised.pnl + NetPnl
      BY <2>1, <3>1 DEF DayProfits
    <3>4. Unerased' => Unerased
      BY <1>3, <2>1, <3>1
    <3> QED
      BY <1>2, <3>2, <3>3, <3>4 DEF DaysAccount
  <2>3. CASE manage'.at # "daily"
    BY <1>1, <1>3, <1>4, <1>6, <2>1, <2>3, LedgerMoves, MishapStays
  <2> QED
    BY <2>2, <2>3
<1>7. CASE RecordClosedPnl
  <2>1. manage.at = "daily" /\ UNCHANGED <<today, jobs, realised, overwritten>>
    BY <1>1, <1>7, DailyMoves
  <2>2. CASE manage'.at = "remove"
    <3>1. days' = [days EXCEPT ![today].pnl = @ + NetPnl] /\ UNCHANGED mishaps
      BY <1>1, <1>7, <2>2, DailyMoves
    <3>2. /\ days'[today].pnl = days[today].pnl + NetPnl /\ today \in 0..MaxDays
          /\ \A d \in 0..MaxDays \ {today} : days'[d] = days[d]
      BY <1>1, <1>2, <3>1, DaysType, DaysPaid
    <3>3. /\ DayProfits'[today] = DayProfits[today] + NetPnl
          /\ \A d \in 0..MaxDays \ {today} : DayProfits'[d] = DayProfits[d]
      BY <3>2 DEF DayProfits
    <3>4. Differs(DayProfits, DayProfits', 0..MaxDays, today)
      BY <1>1, <3>2, <3>3, DayProfitsType, DayProfitsNext DEF Differs
    <3>5. SumOf(DayProfits') = SumOf(DayProfits) - DayProfits[today] + DayProfits'[today]
      BY <3>4, SumOfDifference
    <3>6. DayProfits[today] \in Int
      BY <1>1, <3>2, DayProfitsType DEF Summable
    <3>7. SumOf(DayProfits') = SumOf(DayProfits) + NetPnl
      BY <1>2, <3>3, <3>5, <3>6
    <3>8. Owed = NetPnl /\ Owed' = 0
      BY <2>1, <2>2 DEF Owed
    <3>9. Unerased' => Unerased
      BY <1>3, <2>1, <3>1
    <3> QED
      BY <1>2, <2>1, <3>7, <3>8, <3>9 DEF DaysAccount
  <2>3. CASE manage'.at # "remove"
    <3>1. "daily" \in mishaps'
      BY <1>1, <1>7, <2>3, DailyMoves, MishapStays
    <3> QED
      BY <3>1 DEF DaysAccount, Unerased
  <2> QED
    BY <2>2, <2>3
<1>8. CASE RemoveRepeatable
  BY <1>1, <1>3, <1>4, <1>8, RemoveMoves, MishapStays
<1> QED
  BY <1>a, <1>5, <1>6, <1>7, <1>8 DEF ManageStep

LEMMA DaysAccountStep == Inv /\ Inv' /\ DaysAccount /\ [Next]_vars => DaysAccount'
<1>1. SUFFICES ASSUME Inv, Inv', DaysAccount, [Next]_vars PROVE DaysAccount'
  OBVIOUS
<1>2. TypeOK
  BY <1>1 DEF Inv
<1>3. ASSUME UNCHANGED <<days, realised, overwritten, manage>>,
             \A t \in Trades : jobs'[t].intent = jobs[t].intent, mishaps \subseteq mishaps'
      PROVE  DaysAccount'
  <2>1. DayProfits' = DayProfits
    BY <1>3 DEF DayProfits
  <2>2. Owed' = Owed
    BY <1>1, <1>3, OwedStays DEF Inv, ManagerHasTrade
  <2> QED
    BY <1>1, <1>3, <2>1, <2>2 DEF DaysAccount, Unerased
<1>4. ASSUME NEW t \in Trades, Pick(t) PROVE DaysAccount'
  <2>1. manage.at = "idle" /\ manage'.at # "daily" /\ UNCHANGED <<days, realised, overwritten, mishaps>>
    BY <1>2, <1>4, PickMoves
  <2>2. Owed' = 0 /\ Owed = 0 /\ DayProfits' = DayProfits
    BY <2>1 DEF Owed, DayProfits
  <2> QED
    BY <1>1, <2>1, <2>2 DEF DaysAccount, Unerased
<1>a. ASSUME NEW t \in Trades, Promote(t) PROVE DaysAccount'
  <2>1. \A x \in Trades : jobs'[x].intent = jobs[x].intent
    BY <1>2, <1>a, PromoteMoves DEF Requeued
  <2> QED
    BY <1>2, <1>3, <1>a, <2>1, PromoteMoves
<1>5. CASE Midnight
  BY <1>3, <1>5 DEF Midnight
<1>6. ASSUME NEW symbol \in Symbols, NativeExit(symbol) PROVE DaysAccount'
  BY <1>3, <1>6 DEF NativeExit
<1>7. CASE Crash
  BY <1>7 DEF Crash, DaysAccount, Unerased
<1>8. CASE UNCHANGED vars
  BY <1>3, <1>8 DEF vars
<1> QED
  BY <1>1, <1>4, <1>a, <1>5, <1>6, <1>7, <1>8, DaysAccountEvaluate, DaysAccountManage DEF Next

\* Profit reaches the day hashes exactly once, however the midnights, the two
\* evaluators' seeding and the retries of the manage job fall; and the ledger,
\* from which the equity is computed, holds the same until it is trimmed.
THEOREM ProfitIsAccounted == Spec => []DayAccount
<1>1. Init => DaysAccount /\ LedgerAccount
  <2>1. SUFFICES ASSUME Init PROVE DaysAccount /\ LedgerAccount
    OBVIOUS
  <2>2. TypeOK
    BY <2>1, InitType
  <2>3. \A d \in 0..MaxDays : DayProfits[d] = 0
    BY <2>1 DEF Init, DayProfits
  <2>4. SumOf(DayProfits) = 0
    BY <2>2, <2>3, DayProfitsType, SumOfZeros DEF Summable
  <2>5. SumOf(ledger) = 0
    <3>1. <<>> \in Seq(Int) /\ Len(<<>>) = 0
      OBVIOUS
    <3>2. \A s \in Seq(Int) : s \in [1..Len(s) -> Int]
      OBVIOUS
    <3>3. ledger \in [1..0 -> Int] /\ IsFiniteSet(1..0) /\ 1..0 = {}
      BY <2>1, <3>1, <3>2, FS_Interval DEF Init
    <3>4. PICK f, D : f = ledger /\ f \in [D -> Int] /\ IsFiniteSet(D) /\ D = {}
      BY <3>3
    <3>5. SumOf(f) = 0
      BY <3>4, SumOfZeros
    <3> QED
      BY <3>4, <3>5
  <2>6. Owed = 0 /\ realised.pnl = 0
    BY <2>1, ManagerRestingType DEF Init, Owed
  <2> QED
    BY <2>4, <2>5, <2>6 DEF DaysAccount, LedgerAccount
<1>2. Inv /\ Inv' /\ (DaysAccount /\ LedgerAccount) /\ [Next]_vars => (DaysAccount /\ LedgerAccount)'
  BY DaysAccountStep, LedgerAccountStep
<1>3. Inv /\ DaysAccount /\ LedgerAccount => DayAccount
  <2>1. SUFFICES ASSUME Inv, DaysAccount, LedgerAccount PROVE DayAccount
    OBVIOUS
  <2>2. TypeOK
    BY <2>1 DEF Inv
  <2>3. ASSUME Unerased, manage.at # "daily" PROVE Sum([d \in 0..MaxDays |-> days[d].pnl]) = realised.pnl
    <3>1. Sum(DayProfits) = SumOf(DayProfits) /\ SumOf(DayProfits) \in Int
      BY <2>2, SumIsSumOf, DayProfitsType
    <3>2. SumOf(DayProfits) + 0 = realised.pnl
      BY <2>1, <2>3 DEF DaysAccount, Owed
    <3> QED
      BY <3>1, <3>2 DEF DayProfits
  <2>4. ASSUME ~realised.trimmed PROVE Equity = StartEquity + realised.pnl
    BY <2>1, <2>4, SumIsSumOf DEF LedgerAccount, Equity
  <2> QED
    BY <2>3, <2>4 DEF DayAccount, Unerased
<1> QED
  BY <1>1, <1>2, <1>3, AlwaysInv, PTL DEF Spec

-----------------------------------------------------------------------------
(* What is held is managed.  A symbol's cover on one side is the sum of    *)
(* the weights of the trades that are watched, and of the entries on their *)
(* way to a manage job.                                                    *)

TradeWeights(symbol, side) ==
    [t \in Trades |-> IF Watched(t) THEN UnitsOf(jobs[t].intent, symbol, side) ELSE 0]
EntryWeights(symbol, side) ==
    [e \in Evaluators |->
        IF eval[e].at = "enqueue" THEN UnitsOf(eval[e].intent, symbol, side) ELSE 0]

Weighed(symbol, side) ==
    /\ Summable(TradeWeights(symbol, side), Trades)
    /\ Summable(EntryWeights(symbol, side), Evaluators)
    /\ \A t \in Trades : TradeWeights(symbol, side)[t] >= 0
    /\ \A e \in Evaluators : EntryWeights(symbol, side)[e] >= 0

LEMMA CoverIsSum ==
    ASSUME NEW symbol, NEW side
    PROVE  Cover(symbol, side) = SumOf(TradeWeights(symbol, side)) + SumOf(EntryWeights(symbol, side))
<1>1. Cover(symbol, side) = Sum(TradeWeights(symbol, side)) + Sum(EntryWeights(symbol, side))
  BY DEF Cover, TradeWeights, EntryWeights
<1> QED
  BY <1>1, SumIsSumOf

LEMMA CoverIsSumNext ==
    ASSUME NEW symbol, NEW side
    PROVE  Cover(symbol, side)' = SumOf(TradeWeights(symbol, side)') + SumOf(EntryWeights(symbol, side)')
<1>1. Cover(symbol, side)' = Sum(TradeWeights(symbol, side)') + Sum(EntryWeights(symbol, side)')
  BY DEF Cover, TradeWeights, EntryWeights
<1> QED
  BY <1>1, SumIsSumOf

LEMMA UnitsOfType ==
    ASSUME NEW intent \in Intents \cup {NoIntent}, NEW symbol, NEW side
    PROVE  UnitsOf(intent, symbol, side) \in Nat
<1>1. intent.size \in Nat
  BY AggressiveAssumption DEF NoIntent
<1> QED
  BY <1>1 DEF UnitsOf

LEMMA FiniteEvaluators == IsFiniteSet(Evaluators)
<1>1. IsFiniteSet({"hunter"}) /\ Evaluators = {"hunter"} \cup {"pump"}
  BY FS_Singleton DEF Evaluators
<1> QED
  BY <1>1, FS_AddElement

LEMMA WeightsType ==
    ASSUME TypeOK, NEW symbol, NEW side
    PROVE  Weighed(symbol, side)
<1>1. \A t \in Trades : UnitsOf(jobs[t].intent, symbol, side) \in Nat
  BY JobFields, UnitsOfType
<1>2. \A e \in Evaluators : UnitsOf(eval[e].intent, symbol, side) \in Nat
  BY EvalFields, UnitsOfType
<1>3. \A t \in Trades : TradeWeights(symbol, side)[t] \in Nat
  BY <1>1 DEF TradeWeights
<1>4. \A e \in Evaluators : EntryWeights(symbol, side)[e] \in Nat
  BY <1>2 DEF EntryWeights
<1>5. TradeWeights(symbol, side) \in [Trades -> Int]
  BY <1>1 DEF TradeWeights
<1>6. EntryWeights(symbol, side) \in [Evaluators -> Int]
  BY <1>2 DEF EntryWeights
<1> QED
  BY <1>3, <1>4, <1>5, <1>6, FiniteEvaluators, AggressiveAssumption DEF Weighed, Summable

LEMMA WeightsTypeNext ==
    ASSUME TypeOK', NEW symbol, NEW side
    PROVE  Weighed(symbol, side)'
<1>1. \A t \in Trades : UnitsOf(jobs'[t].intent, symbol, side) \in Nat
  <2>1. \A t \in Trades : jobs'[t].intent \in Intents \cup {NoIntent}
    BY DEF TypeOK
  <2> QED
    BY <2>1, UnitsOfType
<1>2. \A e \in Evaluators : UnitsOf(eval'[e].intent, symbol, side) \in Nat
  <2>1. \A e \in Evaluators : eval'[e].intent \in Intents \cup {NoIntent}
    BY DEF TypeOK
  <2> QED
    BY <2>1, UnitsOfType
<1>3. \A t \in Trades : TradeWeights(symbol, side)'[t] \in Nat
  BY <1>1 DEF TradeWeights
<1>4. \A e \in Evaluators : EntryWeights(symbol, side)'[e] \in Nat
  BY <1>2 DEF EntryWeights
<1>5. TradeWeights(symbol, side)' \in [Trades -> Int]
  BY <1>1 DEF TradeWeights
<1>6. EntryWeights(symbol, side)' \in [Evaluators -> Int]
  BY <1>2 DEF EntryWeights
<1> QED
  BY <1>3, <1>4, <1>5, <1>6, FiniteEvaluators, AggressiveAssumption DEF Weighed, Summable

LEMMA CoverType ==
    ASSUME TypeOK, NEW symbol, NEW side
    PROVE  Cover(symbol, side) \in Int /\ Cover(symbol, side) >= 0
<1>1. Weighed(symbol, side)
  BY WeightsType
<1>2. SumOf(TradeWeights(symbol, side)) \in Int /\ SumOf(TradeWeights(symbol, side)) >= 0
  BY <1>1, SumOfNats DEF Weighed
<1>3. SumOf(EntryWeights(symbol, side)) \in Int /\ SumOf(EntryWeights(symbol, side)) >= 0
  BY <1>1, SumOfNats DEF Weighed
<1> QED
  BY <1>2, <1>3, CoverIsSum

LEMMA CoverTypeNext ==
    ASSUME TypeOK', NEW symbol, NEW side
    PROVE  Cover(symbol, side)' \in Int /\ Cover(symbol, side)' >= 0
<1>1. Weighed(symbol, side)'
  BY WeightsTypeNext
<1>2. SumOf(TradeWeights(symbol, side)') \in Int /\ SumOf(TradeWeights(symbol, side)') >= 0
  BY <1>1, SumOfNats DEF Weighed
<1>3. SumOf(EntryWeights(symbol, side)') \in Int /\ SumOf(EntryWeights(symbol, side)') >= 0
  BY <1>1, SumOfNats DEF Weighed
<1> QED
  BY <1>2, <1>3, CoverIsSumNext

\* The steps that take no cover away.
TradesShielded ==
    \A t \in Trades : Watched(t) => Watched(t)' /\ jobs'[t].intent = jobs[t].intent
EntriesShielded ==
    \A e \in Evaluators : eval[e].at = "enqueue" =>
        eval'[e].at = "enqueue" /\ eval'[e].intent = eval[e].intent

LEMMA CoverGrows ==
    ASSUME TypeOK, TypeOK', TradesShielded, EntriesShielded, NEW symbol, NEW side
    PROVE  Cover(symbol, side) <= Cover(symbol, side)'
<1>1. Weighed(symbol, side) /\ Weighed(symbol, side)'
  BY WeightsType, WeightsTypeNext
<1>2. ASSUME NEW t \in Trades PROVE TradeWeights(symbol, side)[t] <= TradeWeights(symbol, side)'[t]
  <2>1. CASE Watched(t)
    <3>1. TradeWeights(symbol, side)'[t] = TradeWeights(symbol, side)[t]
      BY <2>1 DEF TradesShielded, TradeWeights
    <3>2. TradeWeights(symbol, side)[t] \in Int
      BY <1>1 DEF Weighed, Summable
    <3> QED
      BY <3>1, <3>2
  <2>2. CASE ~Watched(t)
    <3>1. TradeWeights(symbol, side)[t] = 0
      BY <2>2 DEF TradeWeights
    <3>2. TradeWeights(symbol, side)'[t] >= 0
      BY <1>1 DEF Weighed
    <3> QED
      BY <3>1, <3>2
  <2> QED
    BY <2>1, <2>2
<1>3. ASSUME NEW e \in Evaluators PROVE EntryWeights(symbol, side)[e] <= EntryWeights(symbol, side)'[e]
  <2>1. CASE eval[e].at = "enqueue"
    <3>1. EntryWeights(symbol, side)'[e] = EntryWeights(symbol, side)[e]
      BY <2>1 DEF EntriesShielded, EntryWeights
    <3>2. EntryWeights(symbol, side)[e] \in Int
      BY <1>1 DEF Weighed, Summable
    <3> QED
      BY <3>1, <3>2
  <2>2. CASE eval[e].at # "enqueue"
    <3>1. EntryWeights(symbol, side)[e] = 0
      BY <2>2 DEF EntryWeights
    <3>2. EntryWeights(symbol, side)'[e] >= 0
      BY <1>1 DEF Weighed
    <3> QED
      BY <3>1, <3>2
  <2> QED
    BY <2>1, <2>2
<1>4. SumOf(TradeWeights(symbol, side)) <= SumOf(TradeWeights(symbol, side)')
  BY <1>1, <1>2, SumOfGreater DEF Weighed
<1>5. SumOf(EntryWeights(symbol, side)) <= SumOf(EntryWeights(symbol, side)')
  BY <1>1, <1>3, SumOfGreater DEF Weighed
<1>6. /\ SumOf(TradeWeights(symbol, side)) \in Int /\ SumOf(TradeWeights(symbol, side)') \in Int
      /\ SumOf(EntryWeights(symbol, side)) \in Int /\ SumOf(EntryWeights(symbol, side)') \in Int
  BY <1>1, SumOfNats DEF Weighed
<1> QED
  BY <1>4, <1>5, <1>6, CoverIsSum, CoverIsSumNext

\* The position of a symbol is covered on both sides.
Covered(symbol) ==
    position[symbol] <= Cover(symbol, "long") /\ -position[symbol] <= Cover(symbol, "short")

LEMMA ExposureIsCovered ==
    ExposureManaged <=> (~paper /\ "entry" \notin mishaps => \A symbol \in Symbols : Covered(symbol))
  BY DEF ExposureManaged, Covered

LEMMA ExposureIsCoveredNext ==
    ExposureManaged' <=>
        (~paper' /\ "entry" \notin mishaps' => \A symbol \in Symbols : Covered(symbol)')
  BY DEF ExposureManaged, Covered

LEMMA PositionType ==
    ASSUME TypeOK, NEW symbol \in Symbols
    PROVE  position[symbol] \in Int
  BY DEF TypeOK

LEMMA PositionTypeNext ==
    ASSUME TypeOK', NEW symbol \in Symbols
    PROVE  position'[symbol] \in Int
  BY DEF TypeOK

\* A position comes no further from zero.
Nearer(p, q) == (0 <= q /\ q <= p) \/ (p <= q /\ q <= 0)

LEMMA SameIsNear == ASSUME NEW p \in Int PROVE Nearer(p, p)
  BY DEF Nearer

LEMMA CoverKept ==
    ASSUME TypeOK, TypeOK', ExposureManaged, TradesShielded, EntriesShielded,
           UNCHANGED paper, mishaps \subseteq mishaps',
           \A symbol \in Symbols : Nearer(position[symbol], position'[symbol])
    PROVE  ExposureManaged'
<1>1. SUFFICES ASSUME ~paper', "entry" \notin mishaps', NEW symbol \in Symbols PROVE Covered(symbol)'
  BY ExposureIsCoveredNext
<1>2. Covered(symbol)
  BY <1>1, ExposureIsCovered
<1> DEFINE p == position[symbol]
           q == position'[symbol]
           long == Cover(symbol, "long")
           short == Cover(symbol, "short")
<1>3. p \in Int /\ q \in Int
  BY PositionType, PositionTypeNext
<1>4. long \in Int /\ short \in Int /\ long >= 0 /\ short >= 0
  BY CoverType
<1>5. long' \in Int /\ short' \in Int /\ long <= long' /\ short <= short'
  BY CoverTypeNext, CoverGrows
<1>6. p <= long /\ -p <= short
  BY <1>2 DEF Covered
<1>7. Nearer(p, q)
  OBVIOUS
<1>a. PICK a, b \in Int : a = long' /\ b = short'
  BY <1>5
<1>8. q <= a /\ -q <= b
  <2> HIDE DEF p, q, long, short
  <2>1. long <= a /\ short <= b
    BY <1>5, <1>a
  <2>2. CASE 0 <= q /\ q <= p
    BY <1>3, <1>4, <1>6, <2>1, <2>2
  <2>3. CASE p <= q /\ q <= 0
    BY <1>3, <1>4, <1>6, <2>1, <2>3
  <2> QED
    BY <1>7, <2>2, <2>3 DEF Nearer
<1> QED
  BY <1>8, <1>a DEF Covered

\* A position that does not change.
LEMMA CoverUntouched ==
    ASSUME TypeOK, TypeOK', ExposureManaged, TradesShielded, EntriesShielded,
           UNCHANGED <<paper, position>>, mishaps \subseteq mishaps'
    PROVE  ExposureManaged'
<1>1. \A symbol \in Symbols : Nearer(position[symbol], position'[symbol])
  BY PositionType, SameIsNear
<1> QED
  BY <1>1, CoverKept

ClosedStages == {"ledger", "daily", "remove"}

LEMMA StaysWatched ==
    ASSUME Inv', NEW t \in Trades, jobs'[t].repeats, ~(Runs(t)' /\ manage'.at \in ClosedStages)
    PROVE  Watched(t)'
<1>1. jobs'[t].queued # {} \/ Runs(t)'
  BY DEF Inv, Scheduled
<1> QED
  BY <1>1 DEF Watched, ClosedStages

-----------------------------------------------------------------------------
(* The evaluate steps.                                                     *)

LEMMA SameJobsShield == ASSUME UNCHANGED <<jobs, manage>> PROVE TradesShielded
  BY DEF TradesShielded, Watched, Runs

LEMMA OtherEntriesShield ==
    ASSUME TypeOK, NEW e \in Evaluators, eval[e].at # "enqueue", NEW v \in Evals, Moves(e, v)
    PROVE  EntriesShielded
<1>1. \A x \in Evaluators \ {e} : eval'[x] = eval[x]
  BY EvalMoves DEF Moves
<1> QED
  BY <1>1 DEF EntriesShielded

\* An order that is sent adds its units to the cover before it has a job.
LEMMA PlacedCover ==
    ASSUME TypeOK, TypeOK', NEW e \in Evaluators, eval[e].at = "order", NEW v \in Evals, Moves(e, v),
           v.at = "enqueue", v.intent = eval[e].intent, UNCHANGED <<jobs, manage>>,
           NEW symbol, NEW side
    PROVE  Cover(symbol, side)' = Cover(symbol, side) + UnitsOf(eval[e].intent, symbol, side)
<1> DEFINE f == EntryWeights(symbol, side)
           units == UnitsOf(eval[e].intent, symbol, side)
<1>1. Weighed(symbol, side) /\ Weighed(symbol, side)'
  BY WeightsType, WeightsTypeNext
<1>2. TradeWeights(symbol, side)' = TradeWeights(symbol, side)
  BY DEF TradeWeights, Watched, Runs
<1>3. eval'[e] = v /\ \A x \in Evaluators \ {e} : eval'[x] = eval[x]
  BY EvalMoves DEF Moves
<1>4. f[e] = 0 /\ f'[e] = units /\ \A x \in Evaluators \ {e} : f'[x] = f[x]
  BY <1>3 DEF EntryWeights
<1>5. Differs(f, f', Evaluators, e)
  BY <1>1, <1>4 DEF Weighed, Differs
<1>6. SumOf(f') = SumOf(f) - f[e] + f'[e]
  BY <1>5, SumOfDifference
<1>7. units \in Nat
  BY EvalFields, UnitsOfType
<1>8. SumOf(f) \in Int /\ SumOf(TradeWeights(symbol, side)) \in Int
  BY <1>1, SumOfNats DEF Weighed
<1>9. Cover(symbol, side) = SumOf(TradeWeights(symbol, side)) + SumOf(f)
  BY CoverIsSum
<1>10. Cover(symbol, side)' = SumOf(TradeWeights(symbol, side)) + SumOf(f')
  BY <1>2, CoverIsSumNext
<1> HIDE DEF f, units
<1>11. Cover(symbol, side)' = Cover(symbol, side) + units
  BY <1>4, <1>6, <1>7, <1>8, <1>9, <1>10
<1> QED
  BY <1>11 DEF units

LEMMA ExposurePlace ==
    ASSUME Inv, TypeOK', ExposureManaged, NEW e \in Evaluators, PlaceOrder(e)
    PROVE  ExposureManaged'
<1>1. TypeOK /\ IntentIsOwn
  BY DEF Inv
<1>2. SUFFICES ASSUME ~paper', "entry" \notin mishaps', NEW symbol \in Symbols PROVE Covered(symbol)'
  BY ExposureIsCoveredNext
<1>3. ~Mishap("entry")
  BY <1>2, MishapStays
<1>4. /\ eval[e].at = "order" /\ UNCHANGED <<paper, mishaps, jobs, manage>>
      /\ position' = Executed(eval[e].intent)
  BY <1>1, <1>2, <1>3, PlaceMoves
<1>5. PICK v \in Evals : Moves(e, v) /\ v.at = "enqueue" /\ v.intent = eval[e].intent
  BY <1>1, <1>3, PlaceMoves
<1>6. PICK intent \in Intents : intent = eval[e].intent
  BY <1>1, <1>4 DEF IntentIsOwn
<1>7. Covered(symbol)
  BY <1>2, <1>4, ExposureIsCovered
<1>8. /\ Cover(symbol, "long")' = Cover(symbol, "long") + UnitsOf(intent, symbol, "long")
      /\ Cover(symbol, "short")' = Cover(symbol, "short") + UnitsOf(intent, symbol, "short")
  BY <1>1, <1>4, <1>5, <1>6, PlacedCover
<1>9. /\ Cover(symbol, "long") \in Int /\ Cover(symbol, "short") \in Int
      /\ position[symbol] \in Int /\ intent.size \in Nat /\ intent.side \in {"long", "short"}
      /\ intent.symbol \in Symbols
  BY <1>1, CoverType, PositionType, AggressiveAssumption DEF Symbols
<1>10. position[symbol] <= Cover(symbol, "long") /\ -position[symbol] <= Cover(symbol, "short")
  BY <1>7 DEF Covered
<1>11. CASE intent.symbol # symbol
  <2>1. position'[symbol] = position[symbol]
    BY <1>1, <1>4, <1>6, <1>11 DEF Executed, TypeOK
  <2>2. UnitsOf(intent, symbol, "long") = 0 /\ UnitsOf(intent, symbol, "short") = 0
    BY <1>11 DEF UnitsOf
  <2> QED
    BY <1>8, <1>9, <1>10, <2>1, <2>2 DEF Covered
<1>12. CASE intent.symbol = symbol
  <2>1. position'[symbol] = position[symbol] + Sign(intent.side) * intent.size
    BY <1>1, <1>4, <1>6, <1>9, <1>12 DEF Executed, TypeOK
  <2>2. CASE intent.side = "long"
    <3>1. UnitsOf(intent, symbol, "long") = intent.size /\ UnitsOf(intent, symbol, "short") = 0
      BY <1>12, <2>2 DEF UnitsOf
    <3>2. position'[symbol] = position[symbol] + intent.size
      BY <1>9, <2>1, <2>2 DEF Sign
    <3> QED
      BY <1>8, <1>9, <1>10, <3>1, <3>2 DEF Covered
  <2>3. CASE intent.side = "short"
    <3>1. UnitsOf(intent, symbol, "long") = 0 /\ UnitsOf(intent, symbol, "short") = intent.size
      BY <1>12, <2>3 DEF UnitsOf
    <3>2. position'[symbol] = position[symbol] - intent.size
      BY <1>9, <2>1, <2>3 DEF Sign
    <3> QED
      BY <1>8, <1>9, <1>10, <3>1, <3>2 DEF Covered
  <2> QED
    BY <1>9, <2>2, <2>3
<1> QED
  BY <1>11, <1>12

\* The units of an entry pass from the evaluator to its manage job.
LEMMA EnqueuedCover ==
    ASSUME Inv, Inv', NEW e \in Evaluators, eval[e].at = "enqueue", NEW v \in Evals, Moves(e, v),
           v.at = "count", NEW t \in Trades, jobs[t] = NoJob,
           jobs' = [jobs EXCEPT ![t] = Scheduling(eval[e].intent)], UNCHANGED manage,
           NEW symbol, NEW side
    PROVE  Cover(symbol, side)' = Cover(symbol, side)
<1> DEFINE f == EntryWeights(symbol, side)
           g == TradeWeights(symbol, side)
           units == UnitsOf(eval[e].intent, symbol, side)
<1>0. TypeOK /\ TypeOK'
  BY DEF Inv
<1>1. Weighed(symbol, side) /\ Weighed(symbol, side)'
  BY <1>0, WeightsType, WeightsTypeNext
<1>2. eval'[e] = v /\ \A x \in Evaluators \ {e} : eval'[x] = eval[x]
  BY <1>0, EvalMoves DEF Moves
<1>3. f[e] = units /\ f'[e] = 0 /\ \A x \in Evaluators \ {e} : f'[x] = f[x]
  BY <1>2 DEF EntryWeights
<1>4. jobs'[t] = Scheduling(eval[e].intent) /\ \A x \in Trades \ {t} : jobs'[x] = jobs[x]
  BY <1>0, JobsType
<1>5. ~Runs(t) /\ ~Runs(t)' /\ ~jobs[t].repeats
  BY FreeTrade DEF Runs
<1>6. Watched(t)' /\ ~Watched(t) /\ jobs'[t].intent = eval[e].intent
  BY <1>4, <1>5 DEF Watched, Scheduling
<1>7. \A x \in Trades \ {t} : Watched(x)' <=> Watched(x)
  BY <1>4 DEF Watched, Runs
<1>8. g[t] = 0 /\ g'[t] = units /\ \A x \in Trades \ {t} : g'[x] = g[x]
  BY <1>4, <1>6, <1>7 DEF TradeWeights
<1>9. Differs(f, f', Evaluators, e) /\ Differs(g, g', Trades, t)
  BY <1>1, <1>3, <1>8 DEF Weighed, Differs
<1>10. SumOf(f') = SumOf(f) - f[e] + f'[e] /\ SumOf(g') = SumOf(g) - g[t] + g'[t]
  BY <1>9, SumOfDifference
<1>11. units \in Nat
  BY <1>0, EvalFields, UnitsOfType
<1>12. SumOf(f) \in Int /\ SumOf(g) \in Int
  BY <1>1, SumOfNats DEF Weighed
<1>13. Cover(symbol, side) = SumOf(g) + SumOf(f)
  BY CoverIsSum
<1>14. Cover(symbol, side)' = SumOf(g') + SumOf(f')
  BY CoverIsSumNext
<1> HIDE DEF f, g, units
<1> QED
  BY <1>3, <1>8, <1>10, <1>11, <1>12, <1>13, <1>14

LEMMA ExposureEnqueue ==
    ASSUME Inv, Inv', ExposureManaged, NEW e \in Evaluators, EnqueueManage(e)
    PROVE  ExposureManaged'
<1>1. TypeOK
  BY DEF Inv
<1>2. SUFFICES ASSUME ~paper', "entry" \notin mishaps', NEW symbol \in Symbols PROVE Covered(symbol)'
  BY ExposureIsCoveredNext
<1>3. ~Mishap("entry")
  BY <1>2, MishapStays
<1>4. eval[e].at = "enqueue" /\ UNCHANGED <<paper, mishaps, manage, position>>
  BY <1>1, <1>3, EnqueueMoves
<1>5. PICK v \in Evals : Moves(e, v) /\ v.at = "count"
  BY <1>1, <1>3, EnqueueMoves
<1>6. PICK t \in Trades : jobs[t] = NoJob /\ jobs' = [jobs EXCEPT ![t] = Scheduling(eval[e].intent)]
  BY <1>1, <1>3, EnqueueMoves
<1>7. \A side : Cover(symbol, side)' = Cover(symbol, side)
  BY <1>4, <1>5, <1>6, EnqueuedCover
<1>8. Covered(symbol)
  BY <1>2, <1>4, ExposureIsCovered
<1> QED
  BY <1>4, <1>7, <1>8 DEF Covered

LEMMA ExposureEvaluate ==
    ASSUME Inv, Inv', ExposureManaged, NEW e \in Evaluators, EvaluateStep(e)
    PROVE  ExposureManaged'
<1>1. TypeOK /\ TypeOK' /\ IntentIsOwn
  BY DEF Inv
<1>2. ASSUME NEW v \in Evals, Moves(e, v), eval[e].at # "enqueue",
             UNCHANGED <<paper, position, jobs, manage>>, mishaps \subseteq mishaps'
      PROVE  ExposureManaged'
  BY <1>1, <1>2, SameJobsShield, OtherEntriesShield, CoverUntouched
<1>3. Resting \in Evals
  BY RestingType
<1>4. CASE Gate(e)
  BY <1>1, <1>2, <1>4, GateMoves
<1>5. CASE DecideEntry(e)
  <2>1. eval[e].at = "decide"
    BY <1>5 DEF DecideEntry
  <2>2. PICK v \in Evals : Moves(e, v)
    BY <1>1, <1>3, <1>5, DecideMoves
  <2>3. UNCHANGED <<paper, position, jobs, manage, mishaps>>
    BY <1>1, <1>5, DecideMoves
  <2> QED
    BY <1>2, <2>1, <2>2, <2>3
<1>6. CASE SeedDay(e)
  <2>1. eval[e].at = "seed" /\ eval[e].intent \in Intents
    BY <1>1, <1>6 DEF SeedDay, IntentIsOwn
  <2>2. PICK v \in Evals : Moves(e, v)
    BY <1>1, <1>3, <1>6, <2>1, SeedMoves
  <2>3. UNCHANGED <<paper, position, jobs, manage, mishaps>>
    BY <1>1, <1>6, <2>1, SeedMoves
  <2> QED
    BY <1>2, <2>1, <2>2, <2>3
<1>7. CASE PlaceOrder(e)
  BY <1>1, <1>7, ExposurePlace
<1>8. CASE EnqueueManage(e)
  BY <1>8, ExposureEnqueue
<1>9. CASE RecordTradeOpened(e)
  BY <1>1, <1>2, <1>3, <1>9, RecordMoves, MishapStays
<1> QED
  BY <1>4, <1>5, <1>6, <1>7, <1>8, <1>9 DEF EvaluateStep

-----------------------------------------------------------------------------
(* The manage steps.                                                       *)

LEMMA SameEntriesShield == ASSUME UNCHANGED eval PROVE EntriesShielded
  BY DEF EntriesShielded

\* An iteration that goes on without closing, or ends.
LEMMA IterationShields ==
    ASSUME Inv, Inv', UNCHANGED jobs, manage.at # "idle",
           \/ manage'.at = "idle"
           \/ manage'.trade = manage.trade /\ (manage'.at \in ClosedStages => manage.at \in ClosedStages)
    PROVE  TradesShielded
<1>1. ASSUME NEW t \in Trades, Watched(t) PROVE Watched(t)' /\ jobs'[t].intent = jobs[t].intent
  <2>1. jobs'[t].repeats
    BY <1>1 DEF Watched
  <2>2. ~(Runs(t) /\ manage.at \in ClosedStages)
    BY <1>1 DEF Watched, ClosedStages
  <2>3. ~(Runs(t)' /\ manage'.at \in ClosedStages)
    BY <2>2 DEF Runs, ClosedStages
  <2> QED
    BY <2>1, <2>3, StaysWatched
<1> QED
  BY <1>1 DEF TradesShielded

\* A close takes away at most the units by which the position falls.
LEMMA ClosedCover ==
    ASSUME Inv, Inv', manage.at = "close", manage'.at = "ledger", manage'.trade = manage.trade,
           UNCHANGED <<jobs, eval>>, NEW symbol, NEW side
    PROVE  Cover(symbol, side)' >= Cover(symbol, side) - UnitsOf(Entry, symbol, side)
<1> DEFINE g == TradeWeights(symbol, side)
           t == manage.trade
           units == UnitsOf(Entry, symbol, side)
<1>0. TypeOK /\ TypeOK' /\ t \in Trades /\ Entry = jobs[t].intent /\ Entry \in Intents
  BY EntryFields DEF Inv
<1>1. Weighed(symbol, side) /\ Weighed(symbol, side)'
  BY <1>0, WeightsType, WeightsTypeNext
<1>2. EntryWeights(symbol, side)' = EntryWeights(symbol, side)
  BY DEF EntryWeights
<1>3. ~Watched(t)'
  BY DEF Watched, Runs
<1>4. \A x \in Trades \ {t} : Watched(x)' <=> Watched(x)
  BY DEF Watched, Runs
<1>5. g'[t] = 0 /\ \A x \in Trades \ {t} : g'[x] = g[x]
  BY <1>0, <1>3, <1>4 DEF TradeWeights
<1>6. units \in Nat
  BY <1>0, UnitsOfType
<1>7. g[t] = units \/ g[t] = 0
  BY <1>0 DEF TradeWeights
<1>8. Differs(g, g', Trades, t)
  BY <1>0, <1>1, <1>5 DEF Weighed, Differs
<1>9. SumOf(g') = SumOf(g) - g[t] + g'[t]
  BY <1>8, SumOfDifference
<1>10. SumOf(g) \in Int /\ SumOf(EntryWeights(symbol, side)) \in Int
  BY <1>1, SumOfNats DEF Weighed
<1>11. Cover(symbol, side) = SumOf(g) + SumOf(EntryWeights(symbol, side))
  BY CoverIsSum
<1>12. Cover(symbol, side)' = SumOf(g') + SumOf(EntryWeights(symbol, side))
  BY <1>2, CoverIsSumNext
<1>13. PICK c \in Int : c = Cover(symbol, side)'
  BY <1>0, CoverTypeNext
<1> HIDE DEF g, t, units
<1>14. c >= Cover(symbol, side) - units
  BY <1>5, <1>6, <1>7, <1>9, <1>10, <1>11, <1>12, <1>13
<1> QED
  BY <1>13, <1>14 DEF units

LEMMA ReducedIsNearer ==
    ASSUME Inv, manage.at # "idle", Held > 0, position' \in {position, Reduced}, NEW symbol \in Symbols
    PROVE  Nearer(position[symbol], position'[symbol])
<1>1. TypeOK /\ position[symbol] \in Int
  BY PositionType DEF Inv
<1>2. CASE position' = position \/ symbol # Entry.symbol
  BY <1>1, <1>2, ReducedFields, SameIsNear
<1>3. CASE position' = Reduced /\ symbol = Entry.symbol
  <2>1. position'[symbol] = position[symbol] - Sign(Entry.side) * Cut
    BY <1>3, ReducedFields
  <2>2. Held = Sign(Entry.side) * position[symbol] /\ Held \in Int /\ Entry.size \in Nat
    BY <1>3, EntryFields
  <2>3. Cut \in Int /\ 0 <= Cut /\ Cut <= Held
    BY <2>2 DEF Cut
  <2>4. CASE Sign(Entry.side) = 1
    BY <1>1, <2>1, <2>2, <2>3, <2>4 DEF Nearer
  <2>5. CASE Sign(Entry.side) = -1
    BY <1>1, <2>1, <2>2, <2>3, <2>5 DEF Nearer
  <2> QED
    BY <2>4, <2>5, SignType
<1> QED
  BY <1>2, <1>3

LEMMA ClosedIsCovered ==
    ASSUME Inv, Inv', manage.at = "close", manage'.at = "ledger", manage'.trade = manage.trade,
           UNCHANGED <<jobs, eval>>, Held > 0, position' = Reduced,
           NEW symbol \in Symbols, Covered(symbol)
    PROVE  Covered(symbol)'
<1>1. TypeOK /\ TypeOK' /\ position[symbol] \in Int
  BY PositionType DEF Inv
<1>2. PICK long \in Int : long = Cover(symbol, "long") /\ position[symbol] <= long
  BY <1>1, CoverType DEF Covered
<1>3. PICK short \in Int : short = Cover(symbol, "short") /\ -position[symbol] <= short
  BY <1>1, CoverType DEF Covered
<1>4. PICK a \in Int : a = Cover(symbol, "long")' /\ a >= 0 /\ a >= long - UnitsOf(Entry, symbol, "long")
  BY <1>1, <1>2, CoverTypeNext, ClosedCover
<1>5. PICK b \in Int : b = Cover(symbol, "short")' /\ b >= 0 /\ b >= short - UnitsOf(Entry, symbol, "short")
  BY <1>1, <1>3, CoverTypeNext, ClosedCover
<1>6. PICK q \in Int : q = position'[symbol]
  BY <1>1, PositionTypeNext
<1>7. SUFFICES q <= a /\ -q <= b
  BY <1>4, <1>5, <1>6 DEF Covered
<1>8. CASE symbol # Entry.symbol
  <2>1. q = position[symbol]
    BY <1>6, <1>8, ReducedFields
  <2>2. UnitsOf(Entry, symbol, "long") = 0 /\ UnitsOf(Entry, symbol, "short") = 0
    BY <1>8 DEF UnitsOf
  <2> QED
    BY <1>1, <1>2, <1>3, <1>4, <1>5, <2>1, <2>2
<1>9. CASE symbol = Entry.symbol
  <2>1. q = position[symbol] - Sign(Entry.side) * Cut
    BY <1>6, <1>9, ReducedFields
  <2>2. /\ Held = Sign(Entry.side) * position[symbol] /\ Held \in Int /\ Entry.size \in Nat
        /\ Entry.side \in {"long", "short"}
    BY <1>9, EntryFields
  <2>3. CASE Entry.side = "long"
    <3>1. UnitsOf(Entry, symbol, "long") = Entry.size
      BY <1>9, <2>3 DEF UnitsOf
    <3>2. Held = position[symbol] /\ q = position[symbol] - Cut
      BY <1>1, <2>1, <2>2, <2>3 DEF Sign, Cut
    <3> QED
      BY <1>1, <1>2, <1>4, <1>5, <2>2, <3>1, <3>2 DEF Cut
  <2>4. CASE Entry.side = "short"
    <3>1. UnitsOf(Entry, symbol, "short") = Entry.size
      BY <1>9, <2>4 DEF UnitsOf
    <3>2. Held = -position[symbol] /\ q = position[symbol] + Cut
      BY <1>1, <2>1, <2>2, <2>4 DEF Sign, Cut
    <3> QED
      BY <1>1, <1>3, <1>4, <1>5, <2>2, <3>1, <3>2 DEF Cut
  <2> QED
    BY <2>2, <2>3, <2>4
<1> QED
  BY <1>8, <1>9

LEMMA ExposureClose ==
    ASSUME Inv, Inv', ExposureManaged, Close
    PROVE  ExposureManaged'
<1>1. TypeOK /\ TypeOK' /\ manage.at = "close" /\ UNCHANGED <<jobs, eval, paper>>
  BY CloseMoves DEF Inv
<1>2. CASE manage'.at = "idle"
  <2>1. TradesShielded /\ EntriesShielded
    BY <1>1, <1>2, IterationShields, SameEntriesShield
  <2>2. mishaps \subseteq mishaps'
    BY <1>1, <1>2, CloseMoves, MishapStays
  <2>3. UNCHANGED position \/ (Held > 0 /\ position' \in {position, Reduced})
    BY <1>1, <1>2, CloseMoves
  <2>4. \A symbol \in Symbols : Nearer(position[symbol], position'[symbol])
    BY <1>1, <2>3, PositionType, SameIsNear, ReducedIsNearer
  <2> QED
    BY <1>1, <2>1, <2>2, <2>4, CoverKept
<1>3. CASE manage'.at # "idle"
  <2>1. /\ Held > 0 /\ position' = Reduced /\ UNCHANGED mishaps
        /\ manage'.at = "ledger" /\ manage'.trade = manage.trade
    BY <1>1, <1>3, CloseMoves
  <2>2. SUFFICES ASSUME ~paper', "entry" \notin mishaps', NEW symbol \in Symbols PROVE Covered(symbol)'
    BY ExposureIsCoveredNext
  <2>3. Covered(symbol)
    BY <1>1, <2>1, <2>2, ExposureIsCovered
  <2> QED
    BY <1>1, <2>1, <2>3, ClosedIsCovered
<1> QED
  BY <1>2, <1>3

LEMMA ExposureManage ==
    ASSUME Inv, Inv', ExposureManaged, ManageStep
    PROVE  ExposureManaged'
<1>1. TypeOK /\ TypeOK' /\ ManagerHasTrade
  BY DEF Inv
<1>2. UNCHANGED <<paper, eval>>
  BY DEF ManageStep, ScheduleNext, Trigger, Close, AppendLedger, RecordClosedPnl, RemoveRepeatable
<1>3. EntriesShielded
  BY <1>2, SameEntriesShield
<1>4. ASSUME TradesShielded, UNCHANGED position, mishaps \subseteq mishaps' PROVE ExposureManaged'
  BY <1>1, <1>2, <1>3, <1>4, CoverUntouched
<1>5. CASE ScheduleNext
  <2>1. /\ manage'.at = "check" /\ UNCHANGED <<position, mishaps>>
        /\ UNCHANGED jobs \/ Requeued(manage.trade, {"delayed"})
    BY <1>1, <1>5, ScheduleMoves
  <2>2. \A t \in Trades : jobs'[t].repeats = jobs[t].repeats /\ jobs'[t].intent = jobs[t].intent
    BY <2>1 DEF Requeued
  <2>3. \A t \in Trades : Watched(t) => Watched(t)'
    BY <2>1, <2>2, StaysWatched DEF Watched, ClosedStages
  <2> QED
    BY <1>4, <2>1, <2>2, <2>3 DEF TradesShielded
<1>6. CASE Trigger
  <2>1. CASE paper
    BY <1>2, <2>1 DEF ExposureManaged
  <2>2. CASE ~paper
    <3>1. /\ manage.at = "check" /\ UNCHANGED <<jobs, position, mishaps>>
          /\ manage'.at = "idle" \/ (manage'.at = "close" /\ manage'.trade = manage.trade)
      BY <1>1, <1>6, <2>2, TriggerMoves
    <3>2. TradesShielded
      BY <3>1, IterationShields DEF ClosedStages
    <3> QED
      BY <1>4, <3>1, <3>2
  <2> QED
    BY <2>1, <2>2
<1>7. CASE Close
  BY <1>7, ExposureClose
<1>8. CASE AppendLedger
  <2>1. /\ manage.at = "ledger" /\ UNCHANGED <<jobs, position>> /\ mishaps \subseteq mishaps'
        /\ manage'.at = "idle" \/ manage'.trade = manage.trade
    BY <1>1, <1>8, LedgerMoves, MishapStays
  <2> QED
    BY <1>4, <2>1, IterationShields DEF ClosedStages
<1>9. CASE RecordClosedPnl
  <2>1. /\ manage.at = "daily" /\ UNCHANGED <<jobs, position>> /\ mishaps \subseteq mishaps'
        /\ manage'.at = "idle" \/ manage'.trade = manage.trade
    BY <1>1, <1>9, DailyMoves, MishapStays
  <2> QED
    BY <1>4, <2>1, IterationShields DEF ClosedStages
<1>10. CASE RemoveRepeatable
  <2>1. /\ manage.at = "remove" /\ manage'.at = "idle" /\ UNCHANGED position
        /\ mishaps \subseteq mishaps'
        /\ \A x \in Trades \ {manage.trade} : jobs'[x] = jobs[x]
    BY <1>1, <1>10, RemoveMoves, MishapStays
  <2>2. ASSUME NEW t \in Trades, Watched(t) PROVE Watched(t)' /\ jobs'[t].intent = jobs[t].intent
    <3>1. t # manage.trade
      BY <2>1, <2>2 DEF Watched, Runs
    <3>2. jobs'[t] = jobs[t] /\ jobs'[t].repeats
      BY <2>1, <2>2, <3>1 DEF Watched
    <3> QED
      BY <2>1, <3>2, StaysWatched DEF ClosedStages
  <2> QED
    BY <1>4, <2>1, <2>2 DEF TradesShielded
<1> QED
  BY <1>5, <1>6, <1>7, <1>8, <1>9, <1>10 DEF ManageStep

-----------------------------------------------------------------------------
(* BullMQ, and the world.                                                  *)

LEMMA ExposureQueue ==
    ASSUME Inv, Inv', ExposureManaged, NEW t \in Trades, Promote(t) \/ Pick(t)
    PROVE  ExposureManaged'
<1>1. TypeOK /\ TypeOK'
  BY DEF Inv
<1>2. UNCHANGED <<paper, eval, position, mishaps>>
  BY <1>1, PromoteMoves, PickMoves
<1>3. \A x \in Trades : jobs'[x].repeats = jobs[x].repeats /\ jobs'[x].intent = jobs[x].intent
  BY <1>1, PromoteMoves, PickMoves DEF Requeued
<1>4. UNCHANGED manage \/ manage'.at = "picked"
  BY <1>1, PromoteMoves, PickMoves
<1>5. ASSUME NEW x \in Trades, Watched(x) PROVE Watched(x)'
  <2>1. jobs'[x].repeats
    BY <1>3, <1>5 DEF Watched
  <2>2. ~(Runs(x)' /\ manage'.at \in ClosedStages)
    BY <1>4, <1>5 DEF Watched, Runs, ClosedStages
  <2> QED
    BY <2>1, <2>2, StaysWatched
<1> QED
  BY <1>1, <1>2, <1>3, <1>5, SameEntriesShield, CoverUntouched DEF TradesShielded

LEMMA ExposureWorld ==
    ASSUME Inv, Inv', ExposureManaged
    PROVE  /\ Midnight => ExposureManaged'
           /\ \A symbol \in Symbols : NativeExit(symbol) => ExposureManaged'
           /\ Crash => ExposureManaged'
<1>1. TypeOK /\ TypeOK' /\ ManagerHasTrade
  BY DEF Inv
<1>2. CASE Midnight
  BY <1>1, <1>2, SameJobsShield, SameEntriesShield, CoverUntouched DEF Midnight
<1>3. ASSUME NEW symbol \in Symbols, NativeExit(symbol) PROVE ExposureManaged'
  <2>1. position' = [position EXCEPT ![symbol] = 0] /\ UNCHANGED <<paper, jobs, eval, manage, mishaps>>
    BY <1>3 DEF NativeExit
  <2>2. ASSUME NEW x \in Symbols PROVE Nearer(position[x], position'[x])
    <3>1. position[x] \in Int /\ position'[x] \in {position[x], 0}
      BY <1>1, <2>1, PositionType DEF TypeOK
    <3> QED
      BY <3>1 DEF Nearer
  <2> QED
    BY <1>1, <2>1, <2>2, SameJobsShield, SameEntriesShield, CoverKept
<1>4. CASE Crash
  <2>1. /\ manage' = ManagerResting /\ UNCHANGED <<paper, position>> /\ mishaps \subseteq mishaps'
        /\ (\E e \in Evaluators : eval[e].at = "enqueue") => "entry" \in mishaps'
        /\ UNCHANGED jobs \/ \E queue : Requeued(manage.trade, queue)
    BY <1>1, <1>4, CrashMoves
  <2>2. CASE \E e \in Evaluators : eval[e].at = "enqueue"
    BY <2>1, <2>2 DEF ExposureManaged
  <2>3. CASE ~ \E e \in Evaluators : eval[e].at = "enqueue"
    <3>1. EntriesShielded
      BY <2>3 DEF EntriesShielded
    <3>2. \A x \in Trades : jobs'[x].repeats = jobs[x].repeats /\ jobs'[x].intent = jobs[x].intent
      BY <2>1 DEF Requeued
    <3>3. \A x \in Trades : Watched(x) => Watched(x)'
      BY <2>1, <3>2, ManagerRestingType, StaysWatched DEF Watched, Runs
    <3> QED
      BY <1>1, <2>1, <3>1, <3>2, <3>3, CoverUntouched DEF TradesShielded
  <2> QED
    BY <2>2, <2>3
<1> QED
  BY <1>2, <1>3, <1>4

LEMMA ExposureStep == Inv /\ Inv' /\ ExposureManaged /\ [Next]_vars => ExposureManaged'
<1>1. SUFFICES ASSUME Inv, Inv', ExposureManaged, [Next]_vars PROVE ExposureManaged'
  OBVIOUS
<1>2. CASE UNCHANGED vars
  BY <1>1, <1>2, SameJobsShield, SameEntriesShield, CoverUntouched DEF vars, Inv
<1> QED
  BY <1>1, <1>2, ExposureEvaluate, ExposureManage, ExposureQueue, ExposureWorld DEF Next

\* However the two evaluators' positions add up or cancel out, whatever the
\* exchange cuts a close to, and whatever is refused, lost, retried or stalls: a
\* position is covered by watched trades of its side, as long as every entry
\* that was ordered got its manage job.
THEOREM ExposureIsManaged == Spec => []ExposureManaged
<1>1. Init => ExposureManaged
  <2>1. SUFFICES ASSUME Init, NEW symbol \in Symbols PROVE Covered(symbol)
    BY ExposureIsCovered
  <2>2. TypeOK /\ position[symbol] = 0
    BY <2>1, InitType DEF Init
  <2> QED
    BY <2>2, CoverType DEF Covered
<1>2. Inv /\ Inv' /\ ExposureManaged /\ [Next]_vars => ExposureManaged'
  BY ExposureStep
<1> QED
  BY <1>1, <1>2, AlwaysInv, PTL DEF Spec


===============================================================================
