------------------------ MODULE TwoLegTrade_proofs ------------------------
(* A two-leg trade is given to a manager only with both legs open, never   *)
(* turns a leg round and never ends unequal and unnoticed, for every       *)
(* strategy, every size of a leg and every way its orders fail.            *)
EXTENDS TwoLegTrade, TLAPS

-----------------------------------------------------------------------------
(* Orders and legs.                                                        *)

\* What every outcome has in common.
LEMMA OutcomeType ==
    ASSUME NEW r, NEW o \in Outcomes(r)
    PROVE  /\ o.answer \in {"ok", "failed"}
           /\ o.filled \in Nat
           /\ o.resting \in Nat
<1>1. o \in [answer : {"ok", "failed"}, filled : 0..2 * Full, resting : 0..Full]
  BY DEF Outcomes
<1> QED BY <1>1

\* An entry that is answered "ok" has opened its leg, a market entry exactly.
LEMMA EntryOutcome ==
    ASSUME NEW mode, NEW leg, NEW o \in Outcomes(Request(mode, FALSE, leg))
    PROVE  /\ o.answer = "ok" => o.filled >= Full
           /\ o.answer = "ok" /\ mode = "market" => o.filled = Full
           /\ mode = "market" => o.resting = 0
<1> DEFINE r == Request(mode, FALSE, leg)
<1>1. r.mode = mode /\ r.reduceOnly = FALSE
  BY DEF Request
<1>2. Lot(r) = Full
  BY <1>1 DEF Lot
<1>3. /\ o.answer = "ok" => Lot(r) > 0 /\ o.filled >= Lot(r)
      /\ r.mode = "market" => MarketOutcome(r, o)
  BY DEF Outcomes
<1>4. mode = "market" => o.resting = 0 /\ o.filled \in {0, Full}
  BY <1>1, <1>2, <1>3 DEF MarketOutcome
<1>5. Full \in Nat \ {0}
  BY PlacementAssumption
<1> HIDE DEF r
<1> QED BY <1>2, <1>3, <1>4, <1>5

LEMMA LegFacts ==
    /\ FirstOpened \in Legs
    /\ \A leg \in Legs : Other(leg) \in Legs /\ Other(leg) # leg
    /\ \A leg \in Legs : leg = FirstOpened \/ leg = Other(FirstOpened)
    /\ Compensations \in {1, 3}
    /\ CloseTries \in {1, 3}
BY DEF FirstOpened, Legs, Other, Compensations, CloseTries

-----------------------------------------------------------------------------
JobType == [at : {"open", "compensate", "enqueue", "sleeping", "reconcile",
                  "decide", "close", "settle", "over"},
            leg : Legs, tries : 0..2]

\* Every move of the processors leads to a proper place.
LEMMA GoType ==
    ASSUME NEW at \in {"open", "compensate", "enqueue", "sleeping", "reconcile",
                       "decide", "close", "settle", "over"},
           NEW leg \in Legs, NEW tries \in 0..2, Go(at, leg, tries)
    PROVE  /\ job' \in JobType
           /\ job'.at = at
           /\ job'.leg = leg
           /\ job'.tries = tries
BY DEF Go, JobType

LEMMA InitType == Init => TypeOK
<1> SUFFICES ASSUME Init PROVE TypeOK
    OBVIOUS
<1>1. job \in JobType
  BY LegFacts DEF Init, JobType
<1>2. crashes \in 0..MaxCrashes
  BY TradeAssumption DEF Init
<1>3. size \in [Legs -> Int] /\ resting \in [Legs -> Nat]
  BY DEF Init
<1> QED BY <1>1, <1>2, <1>3 DEF Init, TypeOK, JobType

LEMMA StepType == TypeOK /\ [Next]_vars => TypeOK'
<1> SUFFICES ASSUME TypeOK, [Next]_vars PROVE TypeOK'
    OBVIOUS
<1>t. /\ strategy \in Strategies
      /\ size \in [Legs -> Int]
      /\ resting \in [Legs -> Nat]
      /\ job \in JobType
      /\ mishaps \subseteq {"lost", "native", "add", "crash"}
      /\ crashes \in 0..MaxCrashes
      /\ MaxCrashes \in Nat
  BY TradeAssumption DEF TypeOK, JobType
<1>j. /\ job.leg \in Legs
      /\ job.tries \in 0..2
      /\ "leg1" \in Legs /\ "leg2" \in Legs
  BY <1>t DEF JobType, Legs
<1>b. failedClose \in BOOLEAN /\ recorded \in BOOLEAN /\ alerted \in BOOLEAN
  BY DEF TypeOK
<1>lost. \A o : Lost(o) \subseteq {"lost", "native", "add", "crash"}
  BY <1>t DEF Lost
<1> SUFFICES /\ strategy' \in Strategies
             /\ size' \in [Legs -> Int]
             /\ resting' \in [Legs -> Nat]
             /\ job' \in JobType
             /\ failedClose' \in BOOLEAN
             /\ recorded' \in BOOLEAN
             /\ alerted' \in BOOLEAN
             /\ mishaps' \subseteq {"lost", "native", "add", "crash"}
             /\ crashes' \in 0..MaxCrashes
    BY DEF TypeOK, JobType
<1>1. CASE OpenLeg
  <2>1. PICK o \in Outcomes(Request(EntryMode, FALSE, job.leg)) :
          /\ size' = [size EXCEPT ![job.leg] = @ + o.filled]
          /\ resting' = [resting EXCEPT ![job.leg] = @ + o.resting]
          /\ mishaps' = Lost(o)
          /\ \/ Go("open", Other(job.leg), 0)
             \/ Go("enqueue", "leg1", 0)
             \/ Over
             \/ Go("compensate", FirstOpened, 0)
    BY <1>1 DEF OpenLeg
  <2>2. o.filled \in Nat /\ o.resting \in Nat
    BY OutcomeType
  <2>3. size' \in [Legs -> Int] /\ resting' \in [Legs -> Nat]
    BY <2>1, <2>2, <1>t, <1>j
  <2>4. job' \in JobType
    BY <2>1, <1>j, GoType, LegFacts DEF Over
  <2>5. UNCHANGED <<strategy, failedClose, recorded, alerted, crashes>>
    BY <1>1 DEF OpenLeg
  <2> QED BY <1>t, <1>b, <1>lost, <2>1, <2>3, <2>4, <2>5, Zenon
<1>2. CASE Compensate
  <2>1. PICK o \in Outcomes(Request("market", TRUE, job.leg)) :
          /\ size' = [size EXCEPT ![job.leg] = @ - o.filled]
          /\ mishaps' = Lost(o)
          /\ \/ job.tries + 1 < Compensations /\ Go("compensate", job.leg, job.tries + 1)
             \/ Over
    BY <1>2 DEF Compensate
  <2>2. o.filled \in Nat
    BY OutcomeType
  <2>3. size' \in [Legs -> Int]
    BY <2>1, <2>2, <1>t, <1>j
  <2>4. job' \in JobType
    <3>1. job.tries + 1 < Compensations => job.tries + 1 \in 0..2
      BY <1>j, LegFacts
    <3> QED BY <2>1, <3>1, <1>j, GoType DEF Over
  <2>5. /\ UNCHANGED <<strategy, resting, failedClose, recorded, crashes>>
        /\ alerted' \in BOOLEAN
    BY <1>2, <1>b DEF Compensate
  <2> QED BY <1>t, <1>b, <1>lost, <2>1, <2>3, <2>4, <2>5, Zenon
<1>3. CASE EnqueueManage
  <2>1. job' \in JobType
    BY <1>3, <1>j, GoType DEF EnqueueManage, Sleep, Over
  <2>2. /\ UNCHANGED <<strategy, size, resting, failedClose, recorded, alerted, crashes>>
        /\ mishaps' \subseteq {"lost", "native", "add", "crash"}
    BY <1>3, <1>t DEF EnqueueManage
  <2> QED BY <1>t, <1>b, <2>1, <2>2, Zenon
<1>4. CASE Wake \/ Decide \/ Settle
  <2>1. job' \in JobType
    BY <1>4, <1>j, GoType DEF Wake, Decide, Settle, Sleep, Over
  <2>2. /\ UNCHANGED <<strategy, size, resting, failedClose, alerted, mishaps, crashes>>
        /\ recorded' \in BOOLEAN
    BY <1>4, <1>b DEF Wake, Decide, Settle
  <2> QED BY <1>t, <1>b, <2>1, <2>2, Zenon
<1>5. CASE Reconcile
  <2>1. job' \in JobType
    BY <1>5, <1>j, GoType DEF Reconcile, Over
  <2>2. /\ UNCHANGED <<strategy, size, resting, failedClose, mishaps, crashes>>
        /\ recorded' \in BOOLEAN /\ alerted' \in BOOLEAN
    BY <1>5, <1>b DEF Reconcile
  <2> QED BY <1>t, <1>b, <2>1, <2>2, Zenon
<1>6. CASE CloseLeg
  <2>1. PICK o \in Outcomes(Request(CloseMode(job.leg), ReduceOnly(job.leg), job.leg)) :
          /\ size' = [size EXCEPT ![job.leg] = @ - o.filled]
          /\ mishaps' = Lost(o)
          /\ \/ Go("close", "leg2", 0) \/ Go("settle", "leg1", 0) \/ Sleep
             \/ job.tries + 1 < CloseTries /\ Go("close", job.leg, job.tries + 1)
          /\ failedClose' \in {failedClose, TRUE} /\ alerted' \in {alerted, TRUE}
    BY <1>6 DEF CloseLeg
  <2>2. o.filled \in Nat
    BY OutcomeType
  <2>3. size' \in [Legs -> Int]
    BY <2>1, <2>2, <1>t, <1>j
  <2>4. job' \in JobType
    <3>1. job.tries + 1 < CloseTries => job.tries + 1 \in 0..2
      BY <1>j, LegFacts
    <3> QED BY <2>1, <3>1, <1>j, GoType DEF Sleep
  <2>5. UNCHANGED <<strategy, resting, recorded, crashes>>
    BY <1>6 DEF CloseLeg
  <2>6. failedClose' \in BOOLEAN /\ alerted' \in BOOLEAN
    BY <2>1, <1>b
  <2> QED BY <1>t, <1>b, <1>lost, <2>1, <2>3, <2>4, <2>5, <2>6, Zenon
<1>7. ASSUME NEW leg \in Legs, LateFill(leg) \/ NativeExit(leg) PROVE TypeOK'
  <2>1. size' \in [Legs -> Int] /\ resting' \in [Legs -> Nat]
    BY <1>7, <1>t DEF LateFill, NativeExit
  <2>2. /\ UNCHANGED <<strategy, job, failedClose, recorded, alerted, crashes>>
        /\ mishaps' \subseteq {"lost", "native", "add", "crash"}
    BY <1>7, <1>t DEF LateFill, NativeExit
  <2> QED BY <1>t, <1>b, <2>1, <2>2, Zenon DEF TypeOK, JobType
<1>8. CASE Crash
  <2>1. job' \in JobType
    BY <1>8, <1>j, GoType, LegFacts DEF Crash, Sleep
  <2>2. crashes' \in 0..MaxCrashes
    BY <1>8, <1>t DEF Crash
  <2>3. /\ UNCHANGED <<strategy, size, resting, failedClose, recorded, alerted>>
        /\ mishaps' \subseteq {"lost", "native", "add", "crash"}
    BY <1>8, <1>t DEF Crash
  <2> QED BY <1>t, <1>b, <2>1, <2>2, <2>3, Zenon
<1>9. CASE UNCHANGED vars
  BY <1>9, <1>t, <1>b DEF vars
<1> QED BY <1>1, <1>2, <1>3, <1>4, <1>5, <1>6, <1>7, <1>8, <1>9
        DEF Next, Open, Manage, TypeOK, JobType

\* Every reachable state of a two-leg trade is well typed, for every strategy,
\* size and number of deaths.
THEOREM TypeCorrect == Spec => []TypeOK
<1> QED BY InitType, StepType, PTL DEF Spec

-----------------------------------------------------------------------------
(* Both legs are open when the manager gets the trade.                     *)

Undisturbed == mishaps \subseteq {"lost"}

Opened(leg) == size[leg] >= Full /\ (EntryMode = "market" => size[leg] = Full)
Untouched(leg) == size[leg] >= 0 /\ (EntryMode = "market" => size[leg] = 0)

\* A market order leaves nothing in the book.
NothingRests == EntryMode = "market" => \A leg \in Legs : resting[leg] = 0

\* While the second leg is being opened the first one is there.
HalfOpen ==
    Undisturbed /\ job.at = "open" =>
        /\ Untouched(Other(FirstOpened))
        /\ IF job.leg = FirstOpened THEN Untouched(FirstOpened) ELSE Opened(FirstOpened)

BothOpen ==
    Undisturbed /\ ~failedClose /\ (Managed \/ job.at = "enqueue") =>
        \A leg \in Legs : Opened(leg)

IInv == TypeOK /\ NothingRests /\ HalfOpen /\ BothOpen

LEMMA InitIInv == Init => IInv
<1> SUFFICES ASSUME Init PROVE IInv
    OBVIOUS
<1>1. \A leg \in Legs : size[leg] = 0 /\ resting[leg] = 0
  BY DEF Init
<1>2. job.at = "open" /\ job.leg = FirstOpened
  BY DEF Init
<1> QED BY <1>1, <1>2, InitType, LegFacts
        DEF IInv, NothingRests, HalfOpen, BothOpen, Untouched, Managed

\* Who does not change sizes, the book or the stage changes nothing here.
LEMMA StrategyStep ==
    ASSUME [Next]_vars
    PROVE  /\ strategy' = strategy
           /\ EntryMode' = EntryMode
           /\ FirstOpened' = FirstOpened
           /\ \A leg : Other(leg)' = Other(leg)
BY DEF Next, vars, Open, Manage, OpenLeg, Compensate, EnqueueManage, Wake, Reconcile,
       Decide, CloseLeg, Settle, LateFill, NativeExit, Crash, EntryMode, FirstOpened

\* Mishaps are never forgotten.
LEMMA MishapsGrow == [Next]_vars => mishaps \subseteq mishaps'
BY DEF Next, vars, Open, Manage, OpenLeg, Compensate, EnqueueManage, Wake, Reconcile,
       Decide, CloseLeg, Settle, LateFill, NativeExit, Crash, Lost

\* An attempt to open a leg: it ends with the leg open, or with the attempt.
LEMMA OpenLegStep ==
    ASSUME IInv, OpenLeg, TypeOK', Undisturbed
    PROVE  HalfOpen' /\ BothOpen'
<1>s. [Next]_vars
  BY DEF Next, Open
<1>m. EntryMode' = EntryMode /\ FirstOpened' = FirstOpened
      /\ \A leg : Other(leg)' = Other(leg)
  BY <1>s, StrategyStep
<1> DEFINE F == FirstOpened
           S == Other(FirstOpened)
<1>l. /\ F \in Legs /\ S \in Legs /\ F # S
      /\ job.leg \in {F, S}
      /\ \A leg \in Legs : leg \in {F, S}
  BY LegFacts DEF IInv, TypeOK
<1>o. PICK o \in Outcomes(Request(EntryMode, FALSE, job.leg)) :
        /\ size' = [size EXCEPT ![job.leg] = @ + o.filled]
        /\ \/ o.answer = "ok" /\ job.leg = F /\ Go("open", Other(job.leg), 0)
           \/ o.answer = "ok" /\ job.leg # F /\ Go("enqueue", "leg1", 0)
           \/ Over
           \/ Go("compensate", FirstOpened, 0)
  BY DEF OpenLeg
<1>f. /\ o.filled \in Nat
      /\ o.answer = "ok" => o.filled >= Full
      /\ o.answer = "ok" /\ EntryMode = "market" => o.filled = Full
  BY OutcomeType, EntryOutcome
<1>t. size \in [Legs -> Int] /\ Full \in Nat
  BY PlacementAssumption DEF IInv, TypeOK
<1>a. job.at = "open"
  BY DEF OpenLeg
<1>1. CASE job.leg = F /\ o.answer = "ok" /\ Go("open", Other(job.leg), 0)
  <2>1. job'.at = "open" /\ job'.leg = S
    BY <1>1 DEF Go
  <2>2. size'[F] = size[F] + o.filled /\ size'[S] = size[S]
    BY <1>1, <1>l, <1>o, <1>t
  <2>3. Untouched(F) /\ Untouched(S)
    BY <1>1, <1>a DEF IInv, HalfOpen
  <2>4. Opened(F)' /\ Untouched(S)'
    BY <1>1, <1>f, <1>t, <1>l, <1>m, <2>2, <2>3 DEF Opened, Untouched
  <2> QED BY <1>l, <1>m, <2>1, <2>4 DEF HalfOpen, BothOpen, Managed
<1>2. CASE job.leg = S /\ o.answer = "ok" /\ Go("enqueue", "leg1", 0)
  <2>1. job'.at = "enqueue"
    BY <1>2 DEF Go
  <2>2. size'[S] = size[S] + o.filled /\ size'[F] = size[F]
    BY <1>2, <1>l, <1>o, <1>t
  <2>3. Opened(F) /\ Untouched(S)
    BY <1>2, <1>a, <1>l DEF IInv, HalfOpen
  <2>4. Opened(F)' /\ Opened(S)'
    BY <1>2, <1>f, <1>t, <1>l, <1>m, <2>2, <2>3 DEF Opened, Untouched
  <2>5. \A leg \in Legs : Opened(leg)'
    BY <1>l, <1>m, <2>4
  <2> QED BY <2>1, <2>5 DEF HalfOpen, BothOpen, Managed
<1>3. CASE Over \/ Go("compensate", FirstOpened, 0)
  <2>1. job'.at \in {"over", "compensate"}
    BY <1>3 DEF Over, Go
  <2> QED BY <2>1 DEF HalfOpen, BothOpen, Managed
<1> QED BY <1>1, <1>2, <1>3, <1>o, <1>l

\* Steps that leave the sizes alone and do not enter the opening stages.
LEMMA QuietStep ==
    ASSUME IInv, [Next]_vars, UNCHANGED <<size, failedClose>>,
           \/ job' = job
           \/ /\ Managed \/ job.at = "enqueue"
              /\ job'.at \notin {"open", "enqueue"}
           \/ job'.at \in {"over", "close"}
    PROVE  HalfOpen' /\ BothOpen'
<1>m. EntryMode' = EntryMode /\ FirstOpened' = FirstOpened
      /\ \A leg : Other(leg)' = Other(leg)
  BY StrategyStep
<1>u. Undisturbed' => Undisturbed
  BY MishapsGrow DEF Undisturbed
<1>1. \A leg : Opened(leg)' = Opened(leg) /\ Untouched(leg)' = Untouched(leg)
  BY <1>m DEF Opened, Untouched
<1> QED BY <1>m, <1>u, <1>1 DEF IInv, HalfOpen, BothOpen, Managed

LEMMA StepIInv == IInv /\ [Next]_vars => IInv'
<1> SUFFICES ASSUME IInv, [Next]_vars PROVE IInv'
    OBVIOUS
<1>t. TypeOK'
  BY StepType DEF IInv
<1>m. EntryMode' = EntryMode /\ FirstOpened' = FirstOpened
      /\ \A leg : Other(leg)' = Other(leg)
  BY StrategyStep
<1>u. Undisturbed' => Undisturbed
  BY MishapsGrow DEF Undisturbed
<1>j. job \in JobType /\ size \in [Legs -> Int] /\ resting \in [Legs -> Nat]
  BY DEF IInv, TypeOK, JobType
<1>r. NothingRests'
  <2>1. CASE OpenLeg
    <3>1. PICK o \in Outcomes(Request(EntryMode, FALSE, job.leg)) :
            resting' = [resting EXCEPT ![job.leg] = @ + o.resting]
      BY <2>1 DEF OpenLeg
    <3>2. EntryMode = "market" => o.resting = 0
      BY EntryOutcome
    <3>3. o.resting \in Nat
      BY OutcomeType
    <3> QED BY <1>m, <1>j, <3>1, <3>2, <3>3 DEF NothingRests, IInv
  <2>2. ASSUME NEW leg \in Legs, LateFill(leg) PROVE NothingRests'
    BY <1>m, <1>j, <2>2 DEF NothingRests, LateFill, IInv
  <2>3. ASSUME resting' = resting PROVE NothingRests'
    BY <1>m, <2>3 DEF NothingRests, IInv
  <2> QED BY <2>1, <2>2, <2>3
          DEF Next, vars, Open, Manage, Compensate, EnqueueManage, Wake, Reconcile,
              Decide, CloseLeg, Settle, NativeExit, Crash
<1> SUFFICES HalfOpen' /\ BothOpen'
    BY <1>t, <1>r DEF IInv
<1>0. CASE ~Undisturbed'
  BY <1>0 DEF HalfOpen, BothOpen
<1>1. CASE OpenLeg /\ Undisturbed'
  BY <1>1, <1>t, <1>u, OpenLegStep
<1>2. CASE Compensate
  <2>1. job'.at \in {"compensate", "over"}
    BY <1>2 DEF Compensate, Over, Go
  <2> QED BY <2>1 DEF HalfOpen, BothOpen, Managed
<1>3. CASE EnqueueManage \/ Wake \/ Decide \/ Reconcile \/ Settle
  <2>1. /\ UNCHANGED <<size, failedClose>>
        /\ \/ /\ Managed \/ job.at = "enqueue"
              /\ job'.at \notin {"open", "enqueue"}
           \/ job'.at \in {"over", "close"}
    BY <1>3 DEF EnqueueManage, Wake, Decide, Reconcile, Settle, Sleep, Over, Go, Managed
  <2> QED BY <2>1, QuietStep
<1>4. CASE CloseLeg
  <2>1. \/ job'.at \in {"close", "settle"}
        \/ job'.at = "sleeping" /\ failedClose' = TRUE
    BY <1>4 DEF CloseLeg, Sleep, Go
  <2> QED BY <2>1 DEF HalfOpen, BothOpen, Managed
<1>5. ASSUME NEW leg \in Legs, LateFill(leg) PROVE HalfOpen' /\ BothOpen'
  <2>1. /\ job' = job /\ failedClose' = failedClose
        /\ size' \in {size, [size EXCEPT ![leg] = @ + 1]}
        /\ EntryMode # "market"
    BY <1>5, <1>j DEF LateFill, IInv, NothingRests
  <2>2. \A k \in Legs : size'[k] >= size[k]
    BY <1>j, <2>1
  <2>3. Full \in Nat /\ \A k \in Legs : size[k] \in Int /\ size'[k] \in Int
    BY <1>j, <1>t, PlacementAssumption DEF TypeOK
  <2>4. \A k \in Legs : (Opened(k) => Opened(k)') /\ (Untouched(k) => Untouched(k)')
    BY <1>m, <2>1, <2>2, <2>3 DEF Opened, Untouched
  <2> QED BY <1>m, <1>u, <2>1, <2>4, LegFacts DEF IInv, HalfOpen, BothOpen, Managed
<1>6. ASSUME NEW leg \in Legs, NativeExit(leg) PROVE ~Undisturbed'
  BY <1>6 DEF NativeExit, Undisturbed
<1>7. CASE Crash
  BY <1>7, <1>0 DEF Crash, Undisturbed
<1>8. CASE UNCHANGED vars
  BY <1>8, QuietStep DEF vars
<1> QED BY <1>0, <1>1, <1>2, <1>3, <1>4, <1>5, <1>6, <1>7, <1>8 DEF Next, Open, Manage

LEMMA IInvariant == Spec => []IInv
<1> QED BY InitIInv, StepIInv, PTL DEF Spec

\* A trade reaches its manager only with both legs open, whichever orders
\* fail or lose their answer on the way: proved for every strategy and every
\* size of a leg.
THEOREM ManagedIsHedged == Spec => []BothLegsManaged
<1>1. IInv => BothLegsManaged
  BY DEF IInv, BothOpen, BothLegsManaged, Undisturbed, Opened
<1> QED BY <1>1, IInvariant, PTL

-----------------------------------------------------------------------------
(* Legs are never turned round: a close takes what there is at most.       *)

LEMMA ReductionBounded ==
    ASSUME NEW mode, NEW leg, NEW o \in Outcomes(Request(mode, TRUE, leg))
    PROVE  o.filled <= size[leg]
<1> DEFINE r == Request(mode, TRUE, leg)
<1>1. r.reduceOnly = TRUE /\ r.held = size[leg]
  BY DEF Request
<1>2. r.reduceOnly => o.filled <= r.held
  BY DEF Outcomes
<1> HIDE DEF r
<1> QED BY <1>1, <1>2

\* No order of the trade, whatever its answer, makes a leg change its side,
\* except on the spot leg, whose closes are plain orders.
THEOREM NoLegTurnsRound == Spec => []ClosesNeverFlip
<1>1. Init => ClosesNeverFlip
  BY DEF Init, ClosesNeverFlip
<1>2. TypeOK /\ ClosesNeverFlip /\ [Next]_vars => ClosesNeverFlip'
  <2> SUFFICES ASSUME TypeOK, ClosesNeverFlip, [Next]_vars
               PROVE  ClosesNeverFlip'
    OBVIOUS
  <2>t. size \in [Legs -> Int] /\ job.leg \in Legs
    BY DEF TypeOK
  <2>r. \A leg \in Legs : ReduceOnly(leg)' = ReduceOnly(leg)
    BY StrategyStep DEF ReduceOnly
  <2>1. CASE OpenLeg
    <3>1. PICK o \in Outcomes(Request(EntryMode, FALSE, job.leg)) :
            size' = [size EXCEPT ![job.leg] = @ + o.filled]
      BY <2>1 DEF OpenLeg
    <3>2. o.filled \in Nat
      BY OutcomeType
    <3> QED BY <2>t, <2>r, <3>1, <3>2 DEF ClosesNeverFlip
  <2>2. ASSUME NEW mode, NEW o \in Outcomes(Request(mode, ReduceOnly(job.leg), job.leg)),
               size' = [size EXCEPT ![job.leg] = @ - o.filled]
        PROVE  ClosesNeverFlip'
    <3>1. o.filled \in Nat
      BY OutcomeType
    <3>2. ReduceOnly(job.leg) => o.filled <= size[job.leg]
      BY ReductionBounded DEF ReduceOnly
    <3> QED BY <2>t, <2>r, <2>2, <3>1, <3>2 DEF ClosesNeverFlip
  <2>3. CASE Compensate
    <3>1. PICK o \in Outcomes(Request("market", TRUE, job.leg)) :
            size' = [size EXCEPT ![job.leg] = @ - o.filled]
      BY <2>3 DEF Compensate
    <3>2. o.filled \in Nat /\ o.filled <= size[job.leg]
      BY OutcomeType, ReductionBounded
    <3> QED BY <2>t, <2>r, <3>1, <3>2 DEF ClosesNeverFlip
  <2>4. CASE CloseLeg
    BY <2>2, <2>4 DEF CloseLeg
  <2>5. ASSUME NEW leg \in Legs, LateFill(leg) \/ NativeExit(leg)
        PROVE  ClosesNeverFlip'
    BY <2>t, <2>r, <2>5 DEF LateFill, NativeExit, ClosesNeverFlip
  <2>6. ASSUME size' = size PROVE ClosesNeverFlip'
    BY <2>r, <2>6 DEF ClosesNeverFlip
  <2>7. CASE EnqueueManage \/ Wake \/ Reconcile \/ Decide \/ Settle \/ Crash \/ UNCHANGED vars
    BY <2>6, <2>7 DEF EnqueueManage, Wake, Reconcile, Decide, Settle, Crash, vars
  <2> QED BY <2>1, <2>3, <2>4, <2>5, <2>7 DEF Next, Open, Manage
<1> QED BY <1>1, <1>2, TypeCorrect, PTL DEF Spec

-----------------------------------------------------------------------------
(* No trade ends with unequal legs and unnoticed.  With market entries and *)
(* nothing worse than rejected orders and exits of the exchange, a leg is  *)
(* either whole or closed, and the place of the job tells which.           *)

Calm == EntryMode = "market" /\ mishaps \subseteq {"native"}

\* The spot leg of basis-arb, which the exchange does not close.
HoldsSpot == strategy \in BasisArb /\ (Managed \/ job.at \in {"enqueue", "close"})

LegsInv ==
    /\ \A leg \in Legs : size[leg] \in {0, Full}
    /\ job.at = "open" => /\ size[Other(FirstOpened)] = 0
                          /\ job.leg = FirstOpened => size[FirstOpened] = 0
    /\ job.at = "compensate" => /\ job.leg = FirstOpened
                                /\ size[Other(FirstOpened)] = 0
    /\ HoldsSpot => size["leg2"] = Full
    /\ job.at = "close" /\ job.leg = "leg2" => size["leg1"] = 0
    /\ job.at = "settle" => \A leg \in Legs : size[leg] = 0
    /\ job.at = "over" => size["leg1"] = size["leg2"] \/ alerted

CalmInv == Calm => LegsInv

\* A reduce-only order for a leg that is whole or closed: "ok" closes it.
LEMMA CloseOutcome ==
    ASSUME NEW mode, NEW leg, NEW o \in Outcomes(Request(mode, TRUE, leg)),
           o.answer = "ok"
    PROVE  size[leg] \in {0, Full} => size[leg] = Full /\ o.filled = Full
<1> DEFINE r == Request(mode, TRUE, leg)
<1>1. r.reduceOnly = TRUE /\ r.held = size[leg]
  BY DEF Request
<1>2. Lot(r) = IF size[leg] < Full THEN size[leg] ELSE Full
  BY <1>1 DEF Lot
<1>3. Lot(r) > 0 /\ o.filled >= Lot(r) /\ (r.reduceOnly => o.filled <= r.held)
  BY DEF Outcomes
<1>4. o.filled \in Nat /\ Full \in Nat \ {0}
  BY OutcomeType, PlacementAssumption
<1> HIDE DEF r
<1> QED BY <1>1, <1>2, <1>3, <1>4

\* An order that failed without losing its answer changed nothing.
LEMMA FailedOutcome ==
    ASSUME NEW r, NEW o \in Outcomes(r), o.answer = "failed",
           mishaps' = Lost(o), mishaps' \subseteq {"native"}
    PROVE  o.filled = 0
<1>1. o.filled \in Nat
  BY OutcomeType
<1>2. "lost" \notin mishaps'
  OBVIOUS
<1> QED BY <1>1, <1>2 DEF Lost

LEMMA CalmOpenLeg ==
    ASSUME TypeOK, TypeOK', Calm, Calm', LegsInv, OpenLeg
    PROVE  LegsInv'
<1> DEFINE F == FirstOpened
           S == Other(FirstOpened)
<1>l. /\ F \in Legs /\ S \in Legs /\ F # S
      /\ job.leg \in {F, S}
      /\ \A leg \in Legs : leg \in {F, S}
      /\ Legs = {"leg1", "leg2"}
  BY LegFacts DEF TypeOK, Legs
<1>m. FirstOpened' = FirstOpened /\ (\A leg : Other(leg)' = Other(leg))
  BY StrategyStep DEF Next, Open
<1>o. PICK o \in Outcomes(Request(EntryMode, FALSE, job.leg)) :
        /\ size' = [size EXCEPT ![job.leg] = @ + o.filled]
        /\ mishaps' = Lost(o)
        /\ \/ o.answer = "ok" /\ job.leg = F /\ Go("open", Other(job.leg), 0)
           \/ o.answer = "ok" /\ job.leg # F /\ Go("enqueue", "leg1", 0)
           \/ o.answer = "failed" /\ job.leg = F /\ Over
           \/ o.answer = "failed" /\ job.leg # F /\ Go("compensate", FirstOpened, 0)
  BY DEF OpenLeg
<1>f. /\ o.answer = "ok" => o.filled = Full
      /\ o.answer = "failed" => o.filled = 0
      /\ Full \in Nat
  BY <1>o, EntryOutcome, FailedOutcome, PlacementAssumption DEF Calm
<1>t. size \in [Legs -> Int] /\ strategy' = strategy
  BY DEF TypeOK, OpenLeg
<1>a. job.at = "open" /\ size[S] = 0 /\ (job.leg = F => size[F] = 0)
  BY DEF OpenLeg, LegsInv
<1>z. size[F] \in {0, Full}
  BY <1>l DEF LegsInv
<1>1. CASE job.leg = F /\ o.answer = "ok" /\ Go("open", Other(job.leg), 0)
  <2>1. size'[F] = Full /\ size'[S] = 0
    BY <1>1, <1>a, <1>f, <1>l, <1>o, <1>t
  <2>2. job'.at = "open" /\ job'.leg = S
    BY <1>1 DEF Go
  <2> QED BY <1>l, <1>m, <2>1, <2>2 DEF LegsInv, HoldsSpot, Managed
<1>2. CASE job.leg = S /\ o.answer = "ok" /\ Go("enqueue", "leg1", 0)
  <2>1. size'[S] = Full /\ size'[F] = size[F]
    BY <1>2, <1>a, <1>f, <1>l, <1>o, <1>t
  <2>2. job'.at = "enqueue"
    BY <1>2 DEF Go
  <2>3. strategy \in BasisArb => S = "leg2"
    BY DEF BasisArb, FirstOpened, Other
  <2> QED BY <1>l, <1>t, <1>z, <2>1, <2>2, <2>3 DEF LegsInv, HoldsSpot, Managed
<1>3. CASE job.leg = F /\ o.answer = "failed" /\ Over
  <2>1. size'[F] = 0 /\ size'[S] = 0
    BY <1>3, <1>a, <1>f, <1>l, <1>o, <1>t
  <2>2. job'.at = "over"
    BY <1>3 DEF Over, Go
  <2> QED BY <1>l, <2>1, <2>2 DEF LegsInv, HoldsSpot, Managed
<1>4. CASE job.leg = S /\ o.answer = "failed" /\ Go("compensate", FirstOpened, 0)
  <2>1. size'[F] = size[F] /\ size'[S] = 0
    BY <1>4, <1>a, <1>f, <1>l, <1>o, <1>t
  <2>2. job'.at = "compensate" /\ job'.leg = F
    BY <1>4 DEF Go
  <2> QED BY <1>l, <1>m, <1>z, <2>1, <2>2 DEF LegsInv, HoldsSpot, Managed
<1> QED BY <1>1, <1>2, <1>3, <1>4, <1>l, <1>o

LEMMA CalmCompensate ==
    ASSUME TypeOK, TypeOK', Calm, Calm', LegsInv, Compensate
    PROVE  LegsInv'
<1> DEFINE F == FirstOpened
           S == Other(FirstOpened)
<1>l. /\ F \in Legs /\ S \in Legs /\ F # S
      /\ \A leg \in Legs : leg \in {F, S}
      /\ Legs = {"leg1", "leg2"}
  BY LegFacts DEF Legs
<1>m. FirstOpened' = FirstOpened /\ (\A leg : Other(leg)' = Other(leg))
  BY StrategyStep DEF Next, Open
<1>a. job.at = "compensate" /\ job.leg = F /\ size[S] = 0 /\ size[F] \in {0, Full}
  BY <1>l DEF Compensate, LegsInv
<1>o. PICK o \in Outcomes(Request("market", TRUE, job.leg)) :
        /\ size' = [size EXCEPT ![job.leg] = @ - o.filled]
        /\ mishaps' = Lost(o)
        /\ \/ o.answer = "failed" /\ Go("compensate", job.leg, job.tries + 1)
           \/ Over /\ alerted' = (alerted \/ o.answer = "failed")
  BY DEF Compensate
<1>t. size \in [Legs -> Int] /\ Full \in Nat
  BY PlacementAssumption DEF TypeOK
<1>1. CASE o.answer = "ok"
  <2>0. size[job.leg] \in {0, Full}
    BY <1>a
  <2>1. size[F] = Full /\ o.filled = Full
    <3>1. size[job.leg] = Full /\ o.filled = Full
      BY <1>1, <2>0, CloseOutcome
    <3> QED BY <1>a, <3>1
  <2>2. size'[F] = 0 /\ size'[S] = 0
    BY <1>a, <1>l, <1>o, <1>t, <2>1
  <2>3. job'.at = "over"
    BY <1>1, <1>o DEF Over, Go
  <2> QED BY <1>l, <2>2, <2>3 DEF LegsInv, HoldsSpot, Managed
<1>2. CASE o.answer = "failed"
  <2>1. o.filled = 0
    BY <1>2, <1>o, FailedOutcome DEF Calm
  <2>2. size'[F] = size[F] /\ size'[S] = 0
    BY <1>a, <1>l, <1>o, <1>t, <2>1
  <2>3. CASE Go("compensate", job.leg, job.tries + 1)
    <3>1. job'.at = "compensate" /\ job'.leg = F
      BY <1>a, <2>3 DEF Go
    <3> QED BY <1>a, <1>l, <1>m, <2>2, <3>1 DEF LegsInv, HoldsSpot, Managed
  <2>4. CASE Over /\ alerted' = (alerted \/ o.answer = "failed")
    <3>1. job'.at = "over" /\ alerted'
      BY <1>2, <2>4 DEF Over, Go
    <3> QED BY <1>a, <1>l, <2>2, <3>1 DEF LegsInv, HoldsSpot, Managed
  <2> QED BY <1>o, <2>3, <2>4
<1> QED BY <1>1, <1>2, OutcomeType

LEMMA CalmCloseLeg ==
    ASSUME TypeOK, TypeOK', Calm, Calm', LegsInv, CloseLeg
    PROVE  LegsInv'
<1>l. Legs = {"leg1", "leg2"} /\ job.leg \in Legs
  BY DEF TypeOK, Legs
<1>a. /\ job.at = "close"
      /\ \A leg \in Legs : size[leg] \in {0, Full}
      /\ strategy \in BasisArb => size["leg2"] = Full
      /\ job.leg = "leg2" => size["leg1"] = 0
  BY DEF CloseLeg, LegsInv, HoldsSpot
<1>o. PICK o \in Outcomes(Request(CloseMode(job.leg), ReduceOnly(job.leg), job.leg)) :
        /\ size' = [size EXCEPT ![job.leg] = @ - o.filled]
        /\ mishaps' = Lost(o)
        /\ \/ o.answer = "ok" /\ job.leg = "leg1" /\ Go("close", "leg2", 0)
           \/ o.answer = "ok" /\ job.leg = "leg2" /\ Go("settle", "leg1", 0)
           \/ o.answer = "failed" /\ (Go("close", job.leg, job.tries + 1) \/ Sleep)
  BY <1>l DEF CloseLeg
<1>t. size \in [Legs -> Int] /\ Full \in Nat /\ strategy' = strategy
  BY PlacementAssumption DEF TypeOK, CloseLeg
<1>1. CASE o.answer = "ok"
  <2>1. size[job.leg] = Full /\ o.filled = Full
    <3>1. CASE ReduceOnly(job.leg)
      <4>1. o \in Outcomes(Request(CloseMode(job.leg), TRUE, job.leg))
        BY <3>1 DEF ReduceOnly
      <4>2. size[job.leg] \in {0, Full}
        BY <1>a, <1>l
      <4> QED BY <1>1, <4>1, <4>2, CloseOutcome
    <3>2. CASE ~ReduceOnly(job.leg)
      <4>1. job.leg = "leg2" /\ strategy \in BasisArb /\ CloseMode(job.leg) = "market"
        BY <1>l, <3>2 DEF ReduceOnly, CloseMode
      <4>2. ReduceOnly(job.leg) = FALSE
        BY <3>2 DEF ReduceOnly
      <4> QED BY <1>1, <1>a, <4>1, <4>2, EntryOutcome
    <3> QED BY <3>1, <3>2
  <2>2. size'[job.leg] = 0 /\ \A leg \in Legs : leg # job.leg => size'[leg] = size[leg]
    BY <1>l, <1>o, <1>t, <2>1
  <2>3. CASE job.leg = "leg1" /\ Go("close", "leg2", 0)
    <3>1. job'.at = "close" /\ job'.leg = "leg2"
      BY <2>3 DEF Go
    <3> QED BY <1>a, <1>l, <1>t, <2>2, <2>3, <3>1 DEF LegsInv, HoldsSpot, Managed
  <2>4. CASE job.leg = "leg2" /\ Go("settle", "leg1", 0)
    <3>1. job'.at = "settle"
      BY <2>4 DEF Go
    <3> QED BY <1>a, <1>l, <2>2, <2>4, <3>1 DEF LegsInv, HoldsSpot, Managed
  <2> QED BY <1>1, <1>o, <2>3, <2>4
<1>2. CASE o.answer = "failed"
  <2>1. o.filled = 0
    BY <1>2, <1>o, FailedOutcome DEF Calm
  <2>2. \A leg \in Legs : size'[leg] = size[leg]
    BY <1>l, <1>o, <1>t, <2>1
  <2>3. \/ job'.at = "close" /\ job'.leg = job.leg
        \/ job'.at = "sleeping"
    BY <1>2, <1>o DEF Go, Sleep
  <2> QED BY <1>a, <1>l, <1>t, <2>2, <2>3 DEF LegsInv, HoldsSpot, Managed
<1> QED BY <1>1, <1>2, OutcomeType

LEMMA CalmInvariant == Spec => []CalmInv
<1>1. Init => CalmInv
  <2> SUFFICES ASSUME Init PROVE LegsInv
    BY DEF CalmInv
  <2>1. \A leg \in Legs : size[leg] = 0
    BY DEF Init
  <2>2. job.at = "open"
    BY DEF Init
  <2> QED BY <2>1, <2>2, LegFacts DEF LegsInv, HoldsSpot, Managed
<1>2. IInv /\ CalmInv /\ [Next]_vars => CalmInv'
  <2> SUFFICES ASSUME IInv, CalmInv, [Next]_vars, Calm'
               PROVE  LegsInv'
    BY DEF CalmInv
  <2>m. /\ strategy' = strategy
        /\ EntryMode' = EntryMode
        /\ FirstOpened' = FirstOpened
        /\ \A leg : Other(leg)' = Other(leg)
    BY StrategyStep
  <2>c. Calm /\ LegsInv
    BY <2>m, MishapsGrow DEF Calm, CalmInv
  <2>t. TypeOK /\ TypeOK'
    BY StepType DEF IInv
  <2>1. CASE OpenLeg
    BY <2>1, <2>c, <2>t, CalmOpenLeg
  <2>2. CASE Compensate
    BY <2>2, <2>c, <2>t, CalmCompensate
  <2>3. CASE CloseLeg
    BY <2>3, <2>c, <2>t, CalmCloseLeg
  <2>4. CASE EnqueueManage
    <3>1. job.at = "enqueue" /\ job'.at = "sleeping" /\ size' = size
      BY <2>4 DEF EnqueueManage, Sleep, Go, Calm
    <3> QED BY <2>c, <2>m, <3>1 DEF LegsInv, HoldsSpot, Managed
  <2>5. CASE Wake \/ Decide
    <3>1. /\ Managed /\ size' = size
          /\ job'.at \in {"sleeping", "reconcile", "close"}
          /\ job'.leg = "leg1"
      BY <2>5 DEF Wake, Decide, Sleep, Go, Managed
    <3> QED BY <2>c, <2>m, <3>1 DEF LegsInv, HoldsSpot, Managed
  <2>6. CASE Reconcile
    <3>1. Managed /\ size' = size /\ ((job'.at = "over" /\ alerted') \/ job'.at = "decide")
      BY <2>6 DEF Reconcile, Over, Go, Managed
    <3> QED BY <2>c, <2>m, <3>1 DEF LegsInv, HoldsSpot, Managed
  <2>7. CASE Settle
    <3>1. job.at = "settle" /\ size' = size /\ job'.at = "over"
      BY <2>7 DEF Settle, Over, Go
    <3>2. size["leg1"] = 0 /\ size["leg2"] = 0
      BY <2>c, <3>1 DEF LegsInv, Legs
    <3> QED BY <2>c, <3>1, <3>2 DEF LegsInv, HoldsSpot, Managed
  <2>8. ASSUME NEW leg \in Legs, LateFill(leg) PROVE FALSE
    BY <2>8, <2>c DEF LateFill, IInv, NothingRests, Calm
  <2>9. ASSUME NEW leg \in Legs, NativeExit(leg) PROVE LegsInv'
    <3>1. /\ job' = job /\ job.at # "over" /\ ReduceOnly(leg)
          /\ size' = [size EXCEPT ![leg] = 0]
      BY <2>9 DEF NativeExit
    <3>2. \A k \in Legs : size'[k] \in {0, size[k]}
      BY <2>t, <3>1 DEF TypeOK
    <3>3. strategy \in BasisArb => size'["leg2"] = size["leg2"]
      BY <2>t, <3>1 DEF TypeOK, ReduceOnly, Legs
    <3> QED BY <2>c, <2>m, <3>1, <3>2, <3>3, LegFacts DEF LegsInv, HoldsSpot, Managed, Legs
  <2>10. CASE Crash
    BY <2>10 DEF Crash, Calm
  <2>11. CASE UNCHANGED vars
    BY <2>11, <2>c DEF vars, LegsInv, HoldsSpot, Managed, FirstOpened, Other
  <2> QED BY <2>1, <2>2, <2>3, <2>4, <2>5, <2>6, <2>7, <2>8, <2>9, <2>10, <2>11
          DEF Next, Open, Manage
<1> QED BY <1>1, <1>2, IInvariant, PTL DEF Spec

\* With market entries a trade is settled only with both legs closed, and one
\* that ends with its legs unequal has told the operator, whichever orders are
\* rejected and whichever legs the exchange closes.
THEOREM NakedLegIsTold == Spec => []NakedIsAlerted
<1>1. CalmInv => NakedIsAlerted
  BY DEF CalmInv, Calm, LegsInv, NakedIsAlerted
<1> QED BY <1>1, CalmInvariant, PTL

=============================================================================
