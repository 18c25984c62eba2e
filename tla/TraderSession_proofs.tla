----------------------- MODULE TraderSession_proofs -----------------------
(* Proofs about the trading loop, for all symbols, configurations, numbers *)
(* of trades and crashes.                                                  *)
EXTENDS TraderSession, TLAPS

\* The numeric part of the assumption on the constants.
LEMMA Bounds ==
    /\ ReconcileTicks \in Nat
    /\ SafetyDelayTicks \in Nat
    /\ MaxTrades \in Nat
    /\ MaxCrashes \in Nat
BY SessionAssumption

LEMMA QuantityFacts ==
    ASSUME NEW n \in Int
    PROVE  /\ Abs(n) \in Nat
           /\ n # 0 => Abs(n) \in Nat \ {0}
           /\ Opposite(n) \in Sides
BY DEF Abs, Opposite, Sides

-----------------------------------------------------------------------------
(* Type correctness.                                                       *)

LEMMA PurgeType ==
    ASSUME TypeOK, NEW s \in Symbols,
           NEW book \in [CloseOrders -> OrderRecords]
    PROVE  Purge(s, book) \in [CloseOrders -> OrderRecords]
BY DEF Purge, OrderRecords

LEMMA FlatType == Flat \in PositionRecords
BY DEF Flat, PositionRecords

LEMMA ForgetType ==
    ASSUME TypeOK, Forget
    PROVE  /\ local' \in PositionRecords
           /\ safetyPlaced' \in BOOLEAN
           /\ held' \in -1..SafetyDelayTicks + 1
           /\ force' \in BOOLEAN
<1>1. held' \in -1..SafetyDelayTicks + 1
  BY Bounds DEF Forget
<1> QED
  BY <1>1, FlatType DEF Forget

LEMMA AgeTickType ==
    ASSUME TypeOK, AgeTick
    PROVE  age' \in 0..ReconcileTicks /\ held' \in -1..SafetyDelayTicks + 1
BY Bounds DEF TypeOK, AgeTick

LEMMA ExchangeType ==
    ASSUME TypeOK, Exchange
    PROVE  TypeOK'
<1>1. ASSUME NEW o \in CloseOrders, OrderFills(o)
      PROVE  TypeOK'
  <2> DEFINE ord == orders[o]
             s == ord.sym
             filled == [orders EXCEPT ![o].st = "filled"]
             left == IF ord.reduceOnly /\ ord.qty >= Abs(pos[s]) THEN 0
                     ELSE pos[s] + ord.side * ord.qty
  <2>1. s \in Symbols /\ ord.side \in Int /\ ord.qty \in Int /\ pos[s] \in Int
    BY <1>1 DEF TypeOK, OrderRecords, Sides
  <2>2. left \in Int
    BY <2>1
  <2>3. filled \in [CloseOrders -> OrderRecords]
    BY DEF TypeOK, OrderRecords
  <2>4. orders' \in [CloseOrders -> OrderRecords]
    BY <1>1, <2>1, <2>3, PurgeType DEF OrderFills
  <2>5. pos' \in [Symbols -> Int] /\ stop' \in [Symbols -> BOOLEAN]
    BY <1>1, <2>1, <2>2 DEF OrderFills, TypeOK
  <2> QED
    BY <1>1, <2>4, <2>5 DEF OrderFills, TypeOK, memory, store, history
<1>2. ASSUME NEW o \in CloseOrders, OrderDies(o)
      PROVE  TypeOK'
  BY <1>2 DEF OrderDies, TypeOK, OrderRecords, memory, store, history
<1>3. ASSUME NEW s \in Symbols, NativeExit(s)
      PROVE  TypeOK'
  <2>1. orders' \in [CloseOrders -> OrderRecords]
    BY <1>3, PurgeType DEF NativeExit, TypeOK
  <2> QED
    BY <1>3, <2>1 DEF NativeExit, TypeOK, memory, store, history
<1> QED
  BY <1>1, <1>2, <1>3 DEF Exchange

LEMMA TickType ==
    ASSUME TypeOK, Tick
    PROVE  TypeOK'
<1> USE DEF exchange, memory, store, history, Stages
<1>1. CASE Hydrate
  BY <1>1, FlatType DEF Hydrate, TypeOK
<1>2. CASE SelectSymbol
  BY <1>2 DEF SelectSymbol, TypeOK, PositionRecords
<1>3. CASE MarketUnavailable
  BY <1>3, AgeTickType DEF MarketUnavailable, TypeOK
<1>4. CASE SkipReconcile
  BY <1>4 DEF SkipReconcile, TypeOK
<1>5. CASE Reconcile
  <2>1. PICK observed \in ObservedPositions(active) :
           LET drift == Drift(local.pos, observed)
           IN \/ /\ drift = "aligned"
                 /\ halt' = FALSE
                 /\ pc' = "pending"
                 /\ UNCHANGED <<local, force, held, safetyPlaced>>
              \/ /\ drift = "missing-on-exchange"
                 /\ halt' = FALSE
                 /\ Forget
                 /\ pc' = "clear"
              \/ /\ drift = "extra-on-exchange"
                 /\ halt' = TRUE
                 /\ pc' = "pending"
                 /\ UNCHANGED <<local, force, held, safetyPlaced>>
              \/ /\ drift = "mismatch"
                 /\ local' = [local EXCEPT !.pos = observed]
                 /\ pc' = "clear"
                 /\ UNCHANGED <<halt, force, held, safetyPlaced>>
    BY <1>5 DEF Reconcile
  <2>2. observed \in Int
    BY DEF ObservedPositions, TypeOK
  <2>3. /\ local' \in PositionRecords
        /\ safetyPlaced' \in BOOLEAN
        /\ held' \in -1..SafetyDelayTicks + 1
        /\ force' \in BOOLEAN
        /\ halt' \in BOOLEAN
        /\ pc' \in Stages
    BY <2>1, <2>2, ForgetType DEF TypeOK, PositionRecords, Stages
  <2>4. age' \in 0..ReconcileTicks
    BY <1>5, Bounds DEF Reconcile
  <2> QED
    BY <1>5, <2>3, <2>4 DEF Reconcile, TypeOK
<1>6. CASE SyncReconciled
  BY <1>6 DEF SyncReconciled, TypeOK
<1>7. CASE CheckPendingClose
  BY <1>7, ForgetType DEF CheckPendingClose, TypeOK
<1>8. CASE NoExit
  BY <1>8 DEF NoExit, TypeOK
<1>9. CASE PlaceClose
  <2>1. /\ Abs(local.pos) \in Nat \ {0}
        /\ Opposite(local.pos) \in Sides
    BY <1>9, QuantityFacts DEF PlaceClose, Holding, TypeOK, PositionRecords
  <2>2. CloseOrder(active, local.pos) \in
            OrderRecords
    BY <2>1 DEF CloseOrder, TypeOK, OrderRecords
  <2> QED
    BY <1>9, <2>2, ForgetType DEF PlaceClose, FreeOrders, TypeOK
<1>10. CASE AppendLedger
  BY <1>10 DEF AppendLedger, TypeOK
<1>11. CASE SyncSettled
  BY <1>11 DEF SyncSettled, TypeOK
<1>12. CASE NoEntry
  BY <1>12 DEF NoEntry, TypeOK
<1>13. CASE Enter
  <2>1. PICK side \in Sides :
           /\ MarketEntry(side)
           /\ local' = [pos |-> side, sym |-> active]
    BY <1>13 DEF Enter
  <2>2. pos' \in [Symbols -> Int] /\ stop' \in [Symbols -> BOOLEAN]
    BY <2>1 DEF MarketEntry, TypeOK, Sides
  <2>3. orders' \in [CloseOrders -> OrderRecords]
    BY <2>1, PurgeType DEF MarketEntry, TypeOK
  <2>4. local' \in PositionRecords
    BY <2>1 DEF TypeOK, PositionRecords, Sides
  <2>5. held' \in -1..SafetyDelayTicks + 1 /\ trades' \in 0..MaxTrades
    BY <1>13, Bounds DEF Enter, TypeOK
  <2> QED
    BY <1>13, <2>2, <2>3, <2>4, <2>5 DEF Enter, TypeOK
<1>14. CASE NativeStops
  BY <1>14 DEF NativeStops, TypeOK
<1>15. CASE SyncEntered
  BY <1>15 DEF SyncEntered, TypeOK
<1>16. CASE PlaceSafetyStop
  BY <1>16, AgeTickType DEF PlaceSafetyStop, TypeOK
<1>17. CASE EndTick
  BY <1>17, AgeTickType DEF EndTick, TypeOK
<1> QED
  BY <1>1, <1>2, <1>3, <1>4, <1>5, <1>6, <1>7, <1>8, <1>9, <1>10, <1>11,
     <1>12, <1>13, <1>14, <1>15, <1>16, <1>17 DEF Tick

\* Every variable of the loop keeps its type, whatever the configuration.
THEOREM TypeCorrect == Spec => []TypeOK
<1>1. Init => TypeOK
  <2> SUFFICES ASSUME Init PROVE TypeOK
    OBVIOUS
  <2>1. /\ age \in 0..ReconcileTicks
        /\ held \in -1..SafetyDelayTicks + 1
        /\ trades \in 0..MaxTrades
        /\ crashes \in 0..MaxCrashes
    BY Bounds DEF Init
  <2>2. /\ orders \in [CloseOrders -> OrderRecords]
        /\ active \in Symbols
    BY DEF Init, OrderRecords, Sides
  <2>3. pos \in [Symbols -> Int] /\ ledger \in Nat
    BY DEF Init
  <2> QED
    BY <2>1, <2>2, <2>3, FlatType DEF Init, TypeOK, Stages
<1>2. TypeOK /\ [Next]_vars => TypeOK'
  <2> SUFFICES ASSUME TypeOK, [Next]_vars
               PROVE  TypeOK'
    OBVIOUS
  <2>1. CASE Crash
    <3>1. /\ age' \in 0..ReconcileTicks
          /\ held' \in -1..SafetyDelayTicks + 1
          /\ crashes' \in 0..MaxCrashes
      BY <2>1, Bounds DEF Crash, Volatile, TypeOK
    <3> QED
      BY <2>1, <3>1, FlatType DEF Crash, Volatile, TypeOK, Stages, exchange, store
  <2>2. CASE Restart
    BY <2>2 DEF Restart, TypeOK, Stages, exchange, memory, store, history
  <2>3. CASE UNCHANGED vars
    BY <2>3 DEF vars, TypeOK, exchange, memory, store, history
  <2> QED
    BY <2>1, <2>2, <2>3, TickType, ExchangeType DEF Next
<1> QED
  BY <1>1, <1>2, PTL DEF Spec

-----------------------------------------------------------------------------
(* The snapshot.  It trails the memory only between a change of the        *)
(* position and the syncSnapshot that follows it in the same tick.         *)

Synced == {"scan", "reconcile", "pending", "exit", "entry", "protect"}

SnapshotInv ==
    /\ pc \in Synced => snap = local
    /\ pc \in {"boot", "down"} => local = Flat

LEMMA SnapshotInvariant == Spec => []SnapshotInv
<1>1. Init => SnapshotInv
  BY DEF Init, SnapshotInv, Synced
<1>2. SnapshotInv /\ [Next]_vars => SnapshotInv'
  <2> SUFFICES ASSUME SnapshotInv, [Next]_vars
               PROVE  SnapshotInv'
    OBVIOUS
  <2> USE DEF SnapshotInv, Synced, exchange, memory, store, history
  <2>1. CASE Hydrate
    BY <2>1 DEF Hydrate
  <2>2. CASE SelectSymbol
    BY <2>2 DEF SelectSymbol
  <2>3. CASE MarketUnavailable
    BY <2>3 DEF MarketUnavailable
  <2>4. CASE SkipReconcile
    BY <2>4 DEF SkipReconcile
  <2>5. CASE Reconcile
    BY <2>5 DEF Reconcile
  <2>6. CASE SyncReconciled
    BY <2>6 DEF SyncReconciled
  <2>7. CASE CheckPendingClose
    BY <2>7 DEF CheckPendingClose
  <2>8. CASE NoExit
    BY <2>8 DEF NoExit
  <2>9. CASE PlaceClose
    BY <2>9 DEF PlaceClose
  <2>10. CASE AppendLedger
    BY <2>10 DEF AppendLedger
  <2>11. CASE SyncSettled
    BY <2>11 DEF SyncSettled
  <2>12. CASE NoEntry
    BY <2>12 DEF NoEntry
  <2>13. CASE Enter
    BY <2>13 DEF Enter
  <2>14. CASE NativeStops
    BY <2>14 DEF NativeStops
  <2>15. CASE SyncEntered
    BY <2>15 DEF SyncEntered
  <2>16. CASE PlaceSafetyStop
    BY <2>16 DEF PlaceSafetyStop
  <2>17. CASE EndTick
    BY <2>17 DEF EndTick
  <2>18. CASE Exchange
    BY <2>18 DEF Exchange, OrderFills, OrderDies, NativeExit
  <2>19. CASE Crash
    BY <2>19 DEF Crash, Volatile
  <2>20. CASE Restart
    BY <2>20 DEF Restart
  <2>21. CASE UNCHANGED vars
    BY <2>21 DEF vars
  <2> QED
    BY <2>1, <2>2, <2>3, <2>4, <2>5, <2>6, <2>7, <2>8, <2>9, <2>10, <2>11,
       <2>12, <2>13, <2>14, <2>15, <2>16, <2>17, <2>18, <2>19, <2>20, <2>21
       DEF Next, Tick
<1> QED
  BY <1>1, <1>2, PTL DEF Spec

\* Between ticks the Redis snapshot is the position in memory, whatever
\* fails, whenever the process dies and however often it is restarted.
THEOREM SnapshotIsFresh == Spec => []SnapshotFresh
<1>1. SnapshotInv => SnapshotFresh
  BY DEF SnapshotInv, SnapshotFresh, Synced
<1> QED
  BY <1>1, SnapshotInvariant, PTL

-----------------------------------------------------------------------------
(* Close orders only reduce: every resting order is reduce-only, and a      *)
(* reduce-only order stops at zero.                                         *)

ReduceOnlyInv == \A o \in CloseOrders : orders[o].reduceOnly

LEMMA PurgeKeepsReduceOnly ==
    ASSUME NEW s \in Symbols,
           NEW book \in [CloseOrders -> OrderRecords],
           \A o \in CloseOrders : book[o].reduceOnly
    PROVE  \A o \in CloseOrders : Purge(s, book)[o].reduceOnly
BY DEF Purge, OrderRecords

LEMMA ExchangeKeepsReduceOnly ==
    ASSUME TypeOK, ReduceOnlyInv, Exchange
    PROVE  ReduceOnlyInv'
<1>1. ASSUME NEW o \in CloseOrders, OrderFills(o)
      PROVE  ReduceOnlyInv'
  <2> DEFINE filled == [orders EXCEPT ![o].st = "filled"]
  <2>1. filled \in [CloseOrders -> OrderRecords] /\ orders[o].sym \in Symbols
    BY DEF TypeOK, OrderRecords
  <2>2. \A c \in CloseOrders : filled[c].reduceOnly
    BY DEF ReduceOnlyInv, TypeOK, OrderRecords
  <2>3. \A c \in CloseOrders : Purge(orders[o].sym, filled)[c].reduceOnly
    BY <2>1, <2>2, PurgeKeepsReduceOnly
  <2> QED
    BY <1>1, <2>2, <2>3 DEF OrderFills, ReduceOnlyInv
<1>2. ASSUME NEW o \in CloseOrders, OrderDies(o)
      PROVE  ReduceOnlyInv'
  BY <1>2 DEF OrderDies, ReduceOnlyInv, TypeOK, OrderRecords
<1>3. ASSUME NEW s \in Symbols, NativeExit(s)
      PROVE  ReduceOnlyInv'
  BY <1>3, PurgeKeepsReduceOnly DEF NativeExit, ReduceOnlyInv, TypeOK
<1> QED
  BY <1>1, <1>2, <1>3 DEF Exchange

LEMMA NextKeepsReduceOnly ==
    ASSUME TypeOK, ReduceOnlyInv, [Next]_vars
    PROVE  ReduceOnlyInv'
<1>1. CASE PlaceClose
  <2>1. CloseOrder(active, local.pos).reduceOnly
    BY DEF CloseOrder
  <2> QED
    BY <1>1, <2>1 DEF PlaceClose, ReduceOnlyInv, TypeOK
<1>2. CASE Enter
  BY <1>2, PurgeKeepsReduceOnly DEF Enter, MarketEntry, ReduceOnlyInv, TypeOK
<1>3. CASE Exchange
  BY <1>3, ExchangeKeepsReduceOnly
<1>4. ASSUME UNCHANGED orders
      PROVE  ReduceOnlyInv'
  BY <1>4 DEF ReduceOnlyInv
<1>5. CASE Tick /\ ~PlaceClose /\ ~Enter
  BY <1>4, <1>5 DEF Tick, Hydrate, SelectSymbol, MarketUnavailable,
     SkipReconcile, Reconcile, SyncReconciled, CheckPendingClose, NoExit,
     AppendLedger, SyncSettled, NoEntry, NativeStops, SyncEntered,
     PlaceSafetyStop, EndTick, exchange
<1>6. CASE Crash \/ Restart \/ UNCHANGED vars
  BY <1>4, <1>6 DEF Crash, Restart, vars, exchange
<1> QED
  BY <1>1, <1>2, <1>3, <1>5, <1>6 DEF Next

\* Arithmetic of one fill.
LEMMA FillReduces ==
    ASSUME NEW p \in Int, NEW side \in Sides, NEW qty \in Nat \ {0},
           p * side < 0, qty < Abs(p)
    PROVE  Abs(p + side * qty) < Abs(p) /\ (p + side * qty) * p >= 0
<1>1. CASE side = 1
  <2>1. p < 0 /\ p + side * qty < 0
    BY <1>1 DEF Abs
  <2> QED
    BY <1>1, <2>1 DEF Abs
<1>2. CASE side = -1
  <2>1. p > 0 /\ p + side * qty > 0
    BY <1>2 DEF Abs
  <2> QED
    BY <1>2, <2>1 DEF Abs
<1> QED
  BY <1>1, <1>2 DEF Sides

LEMMA ReduceOnlyInvariant == Spec => []ReduceOnlyInv
<1>1. Init => ReduceOnlyInv
  BY DEF Init, ReduceOnlyInv
<1>2. TypeOK /\ ReduceOnlyInv /\ [Next]_vars => ReduceOnlyInv'
  BY NextKeepsReduceOnly
<1> QED
  BY <1>1, <1>2, TypeCorrect, PTL DEF Spec

\* A step other than an entry never enlarges or flips a position, whatever
\* close orders earlier sessions left on the exchange.
THEOREM CloseNeverFlips == Spec => ClosesOnlyReduce
<1> DEFINE Reduces(s) ==
       pos'[s] # pos[s] /\ trades' = trades =>
           Abs(pos'[s]) < Abs(pos[s]) /\ pos'[s] * pos[s] >= 0
<1>1. TypeOK /\ ReduceOnlyInv /\ [Next]_vars
        => [\A s \in Symbols : Reduces(s)]_vars
  <2> SUFFICES ASSUME TypeOK, ReduceOnlyInv, Next, NEW s \in Symbols,
                      pos'[s] # pos[s], trades' = trades
               PROVE  Abs(pos'[s]) < Abs(pos[s]) /\ pos'[s] * pos[s] >= 0
    OBVIOUS
  <2>0. pos[s] \in Int
    BY DEF TypeOK
  <2>1. ASSUME pos'[s] = 0
        PROVE  Abs(pos'[s]) < Abs(pos[s]) /\ pos'[s] * pos[s] >= 0
    BY <2>0, <2>1 DEF Abs
  <2>2. ASSUME NEW o \in CloseOrders, OrderFills(o)
        PROVE  Abs(pos'[s]) < Abs(pos[s]) /\ pos'[s] * pos[s] >= 0
    <3>1. /\ orders[o].reduceOnly
          /\ orders[o].side \in Sides
          /\ orders[o].qty \in Nat \ {0}
      BY DEF ReduceOnlyInv, TypeOK, OrderRecords
    <3>2. orders[o].sym = s /\ pos[s] * orders[o].side < 0
      BY <2>2, <3>1 DEF OrderFills, Reducible, TypeOK
    <3>3. CASE orders[o].qty >= Abs(pos[s])
      BY <2>1, <2>2, <3>1, <3>2, <3>3 DEF OrderFills, TypeOK
    <3>4. CASE orders[o].qty < Abs(pos[s])
      <4>1. pos'[s] = pos[s] + orders[o].side * orders[o].qty
        BY <2>2, <3>1, <3>2, <3>4, <2>0, QuantityFacts DEF OrderFills, TypeOK
      <4> QED
        BY <4>1, <2>0, <3>1, <3>2, <3>4, FillReduces
    <3>5. Abs(pos[s]) \in Nat
      BY <2>0, QuantityFacts
    <3> QED
      BY <3>1, <3>3, <3>4, <3>5
  <2>3. ASSUME NEW c \in Symbols, NativeExit(c)
        PROVE  pos'[s] = 0
    BY <2>3 DEF NativeExit, TypeOK
  <2>4. CASE Enter
    BY <2>4 DEF Enter, TypeOK
  <2>5. CASE ~Enter /\ ~Exchange
    BY <2>5 DEF Next, Tick, Hydrate, SelectSymbol, MarketUnavailable,
       SkipReconcile, Reconcile, SyncReconciled, CheckPendingClose, NoExit,
       PlaceClose, AppendLedger, SyncSettled, NoEntry, NativeStops,
       SyncEntered, PlaceSafetyStop, EndTick, Crash, Restart, exchange
  <2> QED
    BY <2>1, <2>2, <2>3, <2>4, <2>5 DEF Next, Exchange, OrderDies
<1> QED
  BY <1>1, TypeCorrect, ReduceOnlyInvariant, PTL DEF Spec, ClosesOnlyReduce

-----------------------------------------------------------------------------
(* One close order.  Without failed calls, crashes and reconciliation the  *)
(* resting close order is always the tracked one.                          *)

CloseInv ==
    /\ OpenOrders \subseteq {pending}
    /\ pending # NoOrder => Holding /\ orders[pending].sym = local.sym
    /\ Holding => local.sym \in Symbols
    /\ snap.pos # 0 => snap.sym \in Symbols
    /\ pc = "boot" => pending = NoOrder
    /\ pc # "down"
    /\ pc \notin {"boot", "scan"} /\ Holding => active = local.sym

\* The exchange only ends orders, and never changes what they are for.
LEMMA EndingOrders ==
    ASSUME TypeOK, Exchange
    PROVE  \A c \in CloseOrders : /\ orders'[c].st = "open" => orders[c].st = "open"
                                  /\ orders'[c].sym = orders[c].sym
<1>1. ASSUME NEW s \in Symbols,
             NEW book \in [CloseOrders -> OrderRecords], NEW c \in CloseOrders
      PROVE  /\ Purge(s, book)[c].st = "open" => book[c].st = "open"
             /\ Purge(s, book)[c].sym = book[c].sym
  BY DEF Purge, OrderRecords
<1>2. ASSUME NEW o \in CloseOrders, OrderFills(o), NEW c \in CloseOrders
      PROVE  /\ orders'[c].st = "open" => orders[c].st = "open"
             /\ orders'[c].sym = orders[c].sym
  <2> DEFINE filled == [orders EXCEPT ![o].st = "filled"]
  <2>1. filled \in [CloseOrders -> OrderRecords] /\ orders[o].sym \in Symbols
    BY DEF TypeOK, OrderRecords
  <2>2. /\ filled[c].st = "open" => orders[c].st = "open"
        /\ filled[c].sym = orders[c].sym
    BY DEF TypeOK, OrderRecords
  <2> QED
    BY <1>1, <1>2, <2>1, <2>2 DEF OrderFills
<1>3. ASSUME NEW o \in CloseOrders, OrderDies(o), NEW c \in CloseOrders
      PROVE  /\ orders'[c].st = "open" => orders[c].st = "open"
             /\ orders'[c].sym = orders[c].sym
  BY <1>3 DEF OrderDies, TypeOK, OrderRecords
<1>4. ASSUME NEW s \in Symbols, NativeExit(s), NEW c \in CloseOrders
      PROVE  /\ orders'[c].st = "open" => orders[c].st = "open"
             /\ orders'[c].sym = orders[c].sym
  BY <1>1, <1>4 DEF NativeExit, TypeOK
<1> QED
  BY <1>2, <1>3, <1>4 DEF Exchange

LEMMA CloseInvariant ==
    ASSUME ReconcileTicks = 0, ~ApiErrors
    PROVE  Spec => [](crashes = 0 => CloseInv)
<1> DEFINE Inv == crashes = 0 => CloseInv
<1>1. Init => Inv
  BY DEF Init, CloseInv, OpenOrders, Holding, Flat
<1>2. TypeOK /\ Inv /\ [Next]_vars => Inv'
  <2>a. ASSUME TypeOK, Crash PROVE crashes' # 0
    BY <2>a, SessionAssumption DEF Crash, TypeOK
  <2>b. ASSUME [Next]_vars, ~Crash PROVE crashes' = crashes
    BY <2>b DEF Next, Tick, Hydrate, SelectSymbol, MarketUnavailable,
       SkipReconcile, Reconcile, SyncReconciled, CheckPendingClose, NoExit,
       PlaceClose, AppendLedger, SyncSettled, NoEntry, Enter, NativeStops,
       SyncEntered, PlaceSafetyStop, EndTick, Exchange, OrderFills, OrderDies,
       NativeExit, Restart, history, vars
  <2> SUFFICES ASSUME TypeOK, CloseInv, [Next]_vars, crashes' = 0
               PROVE  CloseInv'
    BY <2>a, <2>b
  <2> USE DEF CloseInv, OpenOrders, Holding, exchange, memory, store, history
  <2>1. CASE Hydrate
    BY <2>1 DEF Hydrate, Flat
  <2>2. CASE SelectSymbol
    BY <2>2, SessionAssumption DEF SelectSymbol
  <2>3. CASE MarketUnavailable
    BY <2>3 DEF MarketUnavailable
  <2>4. CASE SkipReconcile
    BY <2>4 DEF SkipReconcile
  <2>5. CASE Reconcile
    BY <2>5 DEF Reconcile, ReconcileDue
  <2>6. CASE SyncReconciled
    BY <2>6 DEF SyncReconciled
  <2>7. CASE CheckPendingClose
    BY <2>7, SessionAssumption DEF CheckPendingClose, LookupResults, Forget,
       Flat, TypeOK
  <2>8. CASE NoExit
    BY <2>8 DEF NoExit
  <2>9. CASE PlaceClose
    BY <2>9, SessionAssumption DEF PlaceClose, FreeOrders, CloseOrder, Forget,
       Flat, TypeOK
  <2>10. CASE AppendLedger
    BY <2>10 DEF AppendLedger
  <2>11. CASE SyncSettled
    BY <2>11 DEF SyncSettled
  <2>12. CASE NoEntry
    BY <2>12 DEF NoEntry
  <2>13. CASE Enter
    BY <2>13 DEF Enter, MarketEntry, Purge, TypeOK
  <2>14. CASE NativeStops
    BY <2>14 DEF NativeStops
  <2>15. CASE SyncEntered
    BY <2>15 DEF SyncEntered
  <2>16. CASE PlaceSafetyStop
    BY <2>16 DEF PlaceSafetyStop
  <2>17. CASE EndTick
    BY <2>17 DEF EndTick
  <2>18. CASE Exchange
    <3>1. UNCHANGED <<pc, memory, store>>
      BY <2>18 DEF Exchange, OrderFills, OrderDies, NativeExit
    <3>2. OpenOrders' \subseteq OpenOrders
      BY <2>18, EndingOrders
    <3>3. pending # NoOrder => orders'[pending].sym = orders[pending].sym
      BY <2>18, EndingOrders DEF TypeOK
    <3> QED
      BY <3>1, <3>2, <3>3
  <2>19. CASE Crash
    BY <2>19, <2>a
  <2>20. CASE Restart
    BY <2>20 DEF Restart
  <2>21. CASE UNCHANGED vars
    BY <2>21 DEF vars
  <2> QED
    BY <2>1, <2>2, <2>3, <2>4, <2>5, <2>6, <2>7, <2>8, <2>9, <2>10, <2>11,
       <2>12, <2>13, <2>14, <2>15, <2>16, <2>17, <2>18, <2>19, <2>20, <2>21
       DEF Next, Tick
<1> QED
  BY <1>1, <1>2, TypeCorrect, PTL DEF Spec

\* The trader never has two close orders resting on the exchange, as long as
\* reconciliation is off, the exchange answers and the process lives.
THEOREM CloseOrderIsUnique ==
    ASSUME ReconcileTicks = 0, ~ApiErrors
    PROVE  Spec => []OneCloseOrder
<1>1. (crashes = 0 => CloseInv) => OneCloseOrder
  BY DEF CloseInv, OneCloseOrder
<1> QED
  BY <1>1, CloseInvariant, PTL

-----------------------------------------------------------------------------
(* What every later proof needs of a step: which action writes which       *)
(* history variable, and that the exchange never revives a position.       *)

LEMMA HistoryStep ==
    ASSUME [Next]_vars
    PROVE  /\ ~Crash => crashes' = crashes
           /\ ~Enter => trades' = trades
           /\ ~AppendLedger => ledger' = ledger
BY DEF Next, Tick, Hydrate, SelectSymbol, MarketUnavailable, SkipReconcile,
   Reconcile, SyncReconciled, CheckPendingClose, NoExit, PlaceClose,
   AppendLedger, SyncSettled, NoEntry, Enter, NativeStops, SyncEntered,
   PlaceSafetyStop, EndTick, Exchange, OrderFills, OrderDies, NativeExit, Crash,
   Restart, store, history, vars

\* A step of the exchange leaves a flat symbol flat and takes the stop only
\* from a position that is gone.
LEMMA ExchangeStep ==
    ASSUME TypeOK, ReduceOnlyInv, Exchange
    PROVE  /\ UNCHANGED <<pc, memory, store, history>>
           /\ \A s \in Symbols : pos[s] = 0 => pos'[s] = 0
           /\ \A s \in Symbols : pos'[s] # 0 => stop'[s] = stop[s]
<1>1. UNCHANGED <<pc, memory, store, history>>
  BY DEF Exchange, OrderFills, OrderDies, NativeExit
<1>2. ASSUME NEW o \in CloseOrders, OrderFills(o), NEW s \in Symbols
      PROVE  /\ pos[s] = 0 => pos'[s] = 0
             /\ pos'[s] # 0 => stop'[s] = stop[s]
  <2>1. /\ orders[o].sym \in Symbols
        /\ orders[o].side \in Int
        /\ pos[orders[o].sym] # 0
    BY <1>2 DEF OrderFills, Reducible, ReduceOnlyInv, TypeOK, OrderRecords, Sides
  <2>2. s # orders[o].sym => pos'[s] = pos[s] /\ stop'[s] = stop[s]
    BY <1>2, <2>1 DEF OrderFills, TypeOK
  <2>3. s = orders[o].sym => stop'[s] = (stop[s] /\ pos'[s] # 0)
    BY <1>2, <2>1 DEF OrderFills, TypeOK
  <2> QED
    BY <2>1, <2>2, <2>3 DEF TypeOK
<1>3. ASSUME NEW o \in CloseOrders, OrderDies(o)
      PROVE  pos' = pos /\ stop' = stop
  BY <1>3 DEF OrderDies
<1>4. ASSUME NEW c \in Symbols, NativeExit(c), NEW s \in Symbols
      PROVE  /\ pos[s] = 0 => pos'[s] = 0
             /\ pos'[s] # 0 => stop'[s] = stop[s]
  BY <1>4 DEF NativeExit, TypeOK
<1> QED
  BY <1>1, <1>2, <1>3, <1>4 DEF Exchange

-----------------------------------------------------------------------------
(* Stops.  Which tick position is worked on, and on which symbol.          *)

\* A position is somewhere, and a tick beyond its start works on its symbol.
PlaceInv ==
    /\ Holding => local.sym \in Symbols
    /\ snap.pos # 0 => snap.sym \in Symbols
    /\ pc \notin {"down", "boot", "scan"} /\ Holding => active = local.sym
    /\ pc \in {"down", "boot"} => ~Holding /\ ~safetyPlaced /\ held = -1

LEMMA PlaceInvariant == Spec => []PlaceInv
<1>1. Init => PlaceInv
  BY DEF Init, PlaceInv, Holding, Flat
<1>2. TypeOK /\ PlaceInv /\ [Next]_vars => PlaceInv'
  <2> SUFFICES ASSUME TypeOK, PlaceInv, [Next]_vars
               PROVE  PlaceInv'
    OBVIOUS
  <2> USE DEF PlaceInv, Holding, exchange, memory, store, history
  <2>1. CASE Hydrate
    BY <2>1 DEF Hydrate, Flat
  <2>2. CASE SelectSymbol
    BY <2>2, SessionAssumption DEF SelectSymbol
  <2>3. CASE MarketUnavailable
    BY <2>3 DEF MarketUnavailable
  <2>4. CASE SkipReconcile \/ NoExit \/ NoEntry
    BY <2>4 DEF SkipReconcile, NoExit, NoEntry
  <2>5. CASE Reconcile
    BY <2>5 DEF Reconcile, Forget, Flat, TypeOK, PositionRecords, Drift
  <2>6. CASE SyncReconciled \/ SyncSettled \/ SyncEntered
    BY <2>6 DEF SyncReconciled, SyncSettled, SyncEntered
  <2>7. CASE CheckPendingClose
    BY <2>7 DEF CheckPendingClose, Forget, Flat
  <2>8. CASE PlaceClose
    BY <2>8 DEF PlaceClose, Forget, Flat
  <2>9. CASE AppendLedger
    BY <2>9 DEF AppendLedger
  <2>10. CASE Enter
    BY <2>10 DEF Enter, TypeOK
  <2>11. CASE NativeStops
    BY <2>11 DEF NativeStops
  <2>12. CASE PlaceSafetyStop
    BY <2>12 DEF PlaceSafetyStop
  <2>13. CASE EndTick
    BY <2>13 DEF EndTick
  <2>14. CASE Exchange
    <3>1. UNCHANGED <<pc, memory, store>>
      BY <2>14 DEF Exchange, OrderFills, OrderDies, NativeExit
    <3> QED
      BY <3>1
  <2>15. CASE Crash
    BY <2>15 DEF Crash, Volatile, Flat
  <2>16. CASE Restart
    BY <2>16 DEF Restart
  <2>17. CASE UNCHANGED vars
    BY <2>17 DEF vars
  <2> QED
    BY <2>1, <2>2, <2>3, <2>4, <2>5, <2>6, <2>7, <2>8, <2>9, <2>10, <2>11,
       <2>12, <2>13, <2>14, <2>15, <2>16, <2>17 DEF Next, Tick
<1> QED
  BY <1>1, <1>2, TypeCorrect, PTL DEF Spec

-----------------------------------------------------------------------------
(* The safety stop of the logical mode.                                    *)

Protected == stop[local.sym] \/ pos[local.sym] = 0

SafetyInv ==
    /\ held > SafetyDelayTicks => safetyPlaced
    /\ ~Holding => ~safetyPlaced /\ held = -1
    /\ Holding /\ safetyPlaced => Protected

\* With an exchange that answers, every position that the process has opened
\* itself carries its native stop once the safety delay has passed, for every
\* delay, with or without reconciliation and across any number of deaths.
THEOREM SafetyStopIsInTime ==
    ASSUME LogicalExits, ~ApiErrors
    PROVE  Spec => []SafetyStopInTime
<1>1. Init => SafetyInv
  BY SessionAssumption DEF Init, SafetyInv, Holding, Flat
<1>2. TypeOK /\ ReduceOnlyInv /\ PlaceInv /\ SafetyInv /\ [Next]_vars => SafetyInv'
  <2> SUFFICES ASSUME TypeOK, ReduceOnlyInv, PlaceInv, SafetyInv, [Next]_vars
               PROVE  SafetyInv'
    OBVIOUS
  <2>n. SafetyDelayTicks \in Nat /\ held \in Int /\ local.pos \in Int
    BY SessionAssumption DEF TypeOK, PositionRecords
  <2> USE DEF SafetyInv, Holding, Protected, exchange, memory, store, history
  <2>1. CASE Hydrate
    BY <2>1, <2>n DEF Hydrate, PlaceInv
  <2>2. CASE SelectSymbol
    BY <2>2 DEF SelectSymbol
  <2>3. CASE MarketUnavailable
    BY <2>3 DEF MarketUnavailable
  <2>4. CASE SkipReconcile \/ NoExit \/ NoEntry
    BY <2>4 DEF SkipReconcile, NoExit, NoEntry
  <2>5. CASE Reconcile
    BY <2>5, <2>n DEF Reconcile, Forget, Flat, Drift, TypeOK, PositionRecords,
       ObservedPositions
  <2>6. CASE SyncReconciled \/ SyncSettled \/ SyncEntered
    BY <2>6 DEF SyncReconciled, SyncSettled, SyncEntered
  <2>7. CASE CheckPendingClose
    BY <2>7, <2>n DEF CheckPendingClose, Forget, Flat
  <2>8. CASE PlaceClose
    BY <2>8, <2>n DEF PlaceClose, Forget, Flat
  <2>9. CASE AppendLedger
    BY <2>9 DEF AppendLedger
  <2>10. CASE Enter
    BY <2>10, <2>n DEF Enter, Sides
  <2>11. CASE NativeStops
    BY <2>11, <2>n DEF NativeStops, PlaceInv, TypeOK
  <2>12. CASE PlaceSafetyStop
    <3>1. Protected'
      BY <2>12, <2>n DEF PlaceSafetyStop, SafetyStopDue, PlaceInv, TypeOK
    <3> QED
      BY <2>12, <3>1 DEF PlaceSafetyStop, SafetyStopDue
  <2>13. CASE EndTick
    <3>1. Holding /\ ~safetyPlaced => held < SafetyDelayTicks
      BY <2>13, <2>n DEF EndTick, SafetyStopDue
    <3>2. UNCHANGED <<pos, stop, local, safetyPlaced>>
      BY <2>13, <2>n DEF EndTick
    <3>3. held' > SafetyDelayTicks => safetyPlaced
      BY <2>13, <2>n, <3>1 DEF EndTick, AgeTick
    <3>4. ~Holding => held' = -1
      BY <2>13 DEF EndTick, AgeTick
    <3> QED
      BY <3>2, <3>3, <3>4
  <2>14. CASE Exchange
    BY <2>14, ExchangeStep DEF PlaceInv
  <2>15. CASE Crash
    BY <2>15, <2>n DEF Crash, Volatile, Flat
  <2>16. CASE Restart
    BY <2>16 DEF Restart
  <2>17. CASE UNCHANGED vars
    BY <2>17 DEF vars
  <2> QED
    BY <2>1, <2>2, <2>3, <2>4, <2>5, <2>6, <2>7, <2>8, <2>9, <2>10, <2>11,
       <2>12, <2>13, <2>14, <2>15, <2>16, <2>17 DEF Next, Tick
<1>3. SafetyInv => SafetyStopInTime
  BY DEF SafetyInv, SafetyStopInTime, Protected
<1> QED
  BY <1>1, <1>2, <1>3, TypeCorrect, ReduceOnlyInvariant, PlaceInvariant, PTL DEF Spec

-----------------------------------------------------------------------------
(* Native stops of the exchange-native mode.                               *)

StopInv ==
    /\ pc = "boot" => snap = Flat
    /\ pc # "down"
    /\ Holding /\ pc # "opened" => Protected \/ force

\* In exchange-native mode a position that is live has its native stop, or
\* the process knows that it has to exit by itself: whichever calls fail,
\* whatever reconciliation finds, as long as the process lives.
THEOREM StopOrExit ==
    ASSUME ~LogicalExits
    PROVE  Spec => []StopOrFallback
<1> DEFINE Inv == crashes = 0 => StopInv
<1>1. Init => Inv
  BY DEF Init, StopInv, Holding, Flat
<1>2. TypeOK /\ ReduceOnlyInv /\ PlaceInv /\ Inv /\ [Next]_vars => Inv'
  <2>a. ASSUME TypeOK, Crash PROVE crashes' # 0
    BY <2>a, SessionAssumption DEF Crash, TypeOK
  <2> SUFFICES ASSUME TypeOK, ReduceOnlyInv, PlaceInv, StopInv, [Next]_vars, ~Crash
               PROVE  StopInv'
    BY <2>a, HistoryStep
  <2> USE DEF StopInv, Holding, Protected, exchange, memory, store, history
  <2>1. CASE Hydrate
    BY <2>1 DEF Hydrate, Flat
  <2>2. CASE SelectSymbol
    BY <2>2 DEF SelectSymbol
  <2>3. CASE MarketUnavailable
    BY <2>3 DEF MarketUnavailable
  <2>4. CASE SkipReconcile \/ NoExit \/ NoEntry
    BY <2>4 DEF SkipReconcile, NoExit, NoEntry
  <2>5. CASE Reconcile
    BY <2>5 DEF Reconcile, Forget, Flat, Drift, TypeOK, PositionRecords
  <2>6. CASE SyncReconciled \/ SyncSettled \/ SyncEntered
    BY <2>6 DEF SyncReconciled, SyncSettled, SyncEntered
  <2>7. CASE CheckPendingClose
    BY <2>7 DEF CheckPendingClose, Forget, Flat
  <2>8. CASE PlaceClose
    BY <2>8 DEF PlaceClose, Forget, Flat
  <2>9. CASE AppendLedger
    BY <2>9 DEF AppendLedger
  <2>10. CASE Enter
    BY <2>10 DEF Enter
  <2>11. CASE NativeStops
    BY <2>11 DEF NativeStops, PlaceInv, TypeOK
  <2>12. CASE PlaceSafetyStop
    BY <2>12 DEF PlaceSafetyStop, SafetyStopDue, PlaceInv, TypeOK
  <2>13. CASE EndTick
    BY <2>13 DEF EndTick, PlaceInv, TypeOK
  <2>14. CASE Exchange
    BY <2>14, ExchangeStep DEF PlaceInv
  <2>15. CASE Restart
    BY <2>15 DEF Restart
  <2>16. CASE UNCHANGED vars
    BY <2>16 DEF vars
  <2> QED
    BY <2>1, <2>2, <2>3, <2>4, <2>5, <2>6, <2>7, <2>8, <2>9, <2>10, <2>11,
       <2>12, <2>13, <2>14, <2>15, <2>16 DEF Next, Tick
<1>3. Inv => StopOrFallback
  BY DEF StopInv, StopOrFallback, Protected
<1> QED
  BY <1>1, <1>2, <1>3, TypeCorrect, ReduceOnlyInvariant, PlaceInvariant, PTL DEF Spec

-----------------------------------------------------------------------------
(* Exposure.  While the process lives and the exchange answers, the memory *)
(* is the truth, up to a position that the exchange has just closed.       *)

Tracked ==
    /\ orders[pending].st \in {"open", "filled", "cancelled"}
    /\ orders[pending].qty = Abs(local.pos)
    /\ orders[pending].st = "filled" => pos[local.sym] = 0

ExposureInv ==
    /\ \A s \in Symbols : pos[s] # 0 => local.sym = s
    /\ Holding \/ local = Flat
    /\ Holding => pos[local.sym] \in {0, local.pos}
    /\ pending # NoOrder => Tracked
    /\ pc \in {"boot", "down"} => snap = Flat /\ local = Flat

\* Only the tracked order can fill, and it closes the whole position.
LEMMA FillSettles ==
    ASSUME TypeOK, ReduceOnlyInv, CloseInv, ExposureInv, NEW o \in CloseOrders,
           OrderFills(o)
    PROVE  ExposureInv'
<1>1. o = pending /\ pending # NoOrder /\ Holding /\ orders[o].sym = local.sym
  BY SessionAssumption DEF OrderFills, CloseInv, OpenOrders
<1>2. /\ local.sym \in Symbols
      /\ local.pos \in Int
      /\ pos[local.sym] \in {0, local.pos}
      /\ orders[o].qty = Abs(local.pos)
      /\ orders[o].reduceOnly
  BY <1>1 DEF ExposureInv, Tracked, CloseInv, ReduceOnlyInv, TypeOK, PositionRecords
<1>3. orders[o].qty >= Abs(pos[local.sym])
  BY <1>2 DEF Abs
<1>4. pos' = [pos EXCEPT ![local.sym] = 0]
  BY <1>1, <1>2, <1>3 DEF OrderFills
<1>5. UNCHANGED <<pc, local, pending, snap>>
  BY DEF OrderFills, memory, store
<1>6. orders' = Purge(local.sym, [orders EXCEPT ![o].st = "filled"])
  BY <1>1, <1>2, <1>3 DEF OrderFills
<1>7. orders'[o].st = "filled" /\ orders'[o].qty = orders[o].qty
  <2> DEFINE filled == [orders EXCEPT ![o].st = "filled"]
  <2>1. filled[o].st = "filled" /\ filled[o].qty = orders[o].qty
    BY DEF TypeOK, OrderRecords
  <2> QED
    BY <1>6, <2>1 DEF Purge
<1>8. pos'[local.sym] = 0 /\ \A s \in Symbols : s # local.sym => pos'[s] = pos[s]
  BY <1>2, <1>4 DEF TypeOK
<1> QED
  BY <1>1, <1>2, <1>5, <1>7, <1>8 DEF ExposureInv, Tracked, Holding

LEMMA ExposureInvariant ==
    ASSUME ReconcileTicks = 0, ~ApiErrors
    PROVE  Spec => [](crashes = 0 => ExposureInv)
<1> DEFINE Known == crashes = 0 => CloseInv
           Inv == crashes = 0 => ExposureInv
<1>1. Init => Inv
  BY DEF Init, ExposureInv, Holding, Flat
<1>2. TypeOK /\ ReduceOnlyInv /\ Known /\ Inv /\ [Next]_vars => Inv'
  <2>a. ASSUME TypeOK, Crash PROVE crashes' # 0
    BY <2>a, SessionAssumption DEF Crash, TypeOK
  <2> SUFFICES ASSUME TypeOK, ReduceOnlyInv, CloseInv, ExposureInv, [Next]_vars, ~Crash
               PROVE  ExposureInv'
    BY <2>a, HistoryStep
  <2>n. NoOrder \notin CloseOrders /\ NoSymbol \notin Symbols /\ local.pos \in Int
    BY SessionAssumption DEF TypeOK, PositionRecords
  <2> USE DEF ExposureInv, Tracked, Holding, exchange, memory, store, history
  <2>1. CASE Hydrate
    BY <2>1 DEF Hydrate, Flat, CloseInv
  <2>2. CASE SelectSymbol
    BY <2>2 DEF SelectSymbol
  <2>3. CASE MarketUnavailable
    BY <2>3 DEF MarketUnavailable
  <2>4. CASE SkipReconcile \/ NoExit \/ NoEntry
    BY <2>4 DEF SkipReconcile, NoExit, NoEntry
  <2>5. CASE Reconcile
    BY <2>5 DEF Reconcile, ReconcileDue
  <2>6. CASE SyncReconciled \/ SyncSettled \/ SyncEntered
    BY <2>6 DEF SyncReconciled, SyncSettled, SyncEntered
  <2>7. CASE CheckPendingClose
    <3>1. CASE pending # NoOrder /\ Holding
      <4>1. LookupResults(pending) = {orders[pending].st}
        BY <2>7, <3>1 DEF LookupResults, CheckPendingClose, CloseInv
      <4>2. /\ orders[pending].st = "filled" => \A s \in Symbols : pos[s] = 0
            /\ orders[pending].st # "missing"
        BY <3>1
      <4> QED
        BY <2>7, <3>1, <4>1, <4>2 DEF CheckPendingClose, Forget, Flat
    <3>2. CASE ~(pending # NoOrder /\ Holding)
      BY <2>7, <3>2 DEF CheckPendingClose
    <3> QED
      BY <3>1, <3>2
  <2>8. CASE PlaceClose
    <3>1. CASE pos[active] * local.pos > 0
      <4>1. PICK o \in FreeOrders :
              /\ orders' = [orders EXCEPT ![o] = CloseOrder(active, local.pos)]
              /\ pending' = o
        BY <2>8, <2>n, <3>1 DEF PlaceClose, TypeOK
      <4>2. o \in CloseOrders /\ orders'[o] = CloseOrder(active, local.pos)
        BY <4>1 DEF FreeOrders, TypeOK
      <4>3. UNCHANGED <<pos, local, snap>> /\ pc' = "entry"
        BY <2>8, <2>n, <3>1 DEF PlaceClose, TypeOK
      <4> QED
        BY <4>1, <4>2, <4>3 DEF CloseOrder
    <3>2. CASE pos[active] * local.pos <= 0
      <4>1. active = local.sym /\ Holding /\ pending = NoOrder
        BY <2>8 DEF PlaceClose, CloseInv
      <4>2. pos[active] = 0
        <5>1. CASE pos[active] = local.pos
          <6>1. local.pos * local.pos > 0
            BY <2>n, <4>1
          <6> QED
            BY <2>n, <3>2, <5>1, <6>1
        <5> QED
          BY <4>1, <5>1
      <4>3. /\ local' = Flat /\ pc' = "settle"
            /\ UNCHANGED <<pos, pending, snap>>
        BY <2>8, <2>n, <3>2 DEF PlaceClose, Forget, TypeOK
      <4> QED
        BY <2>n, <4>1, <4>2, <4>3 DEF Flat
    <3> QED
      BY <3>1, <3>2, <2>n DEF TypeOK
  <2>9. CASE AppendLedger
    BY <2>9 DEF AppendLedger
  <2>10. CASE Enter
    <3>1. PICK side \in Sides : MarketEntry(side) /\ local' = [pos |-> side, sym |-> active]
      BY <2>10 DEF Enter
    <3>0. \A s \in Symbols : pos[s] = 0
      BY <2>10, <2>n DEF Enter, Flat
    <3>2. pos' = [pos EXCEPT ![active] = side]
      <4>1. active \in Symbols /\ pos[active] = 0 /\ side \in Int
        BY <3>0 DEF TypeOK, Sides
      <4>2. pos[active] + side = side
        BY <4>1
      <4> QED
        BY <3>1, <4>2 DEF MarketEntry
    <3>3. pending' = NoOrder /\ snap' = snap /\ pc' \in {"persist", "opened"}
      BY <2>10 DEF Enter, CloseInv
    <3> QED
      BY <3>0, <3>1, <3>2, <3>3 DEF TypeOK, Sides
  <2>11. CASE NativeStops
    BY <2>11 DEF NativeStops
  <2>12. CASE PlaceSafetyStop
    BY <2>12 DEF PlaceSafetyStop
  <2>13. CASE EndTick
    BY <2>13 DEF EndTick
  <2>14. CASE Exchange
    <3>1. ASSUME NEW o \in CloseOrders, OrderFills(o)
          PROVE  ExposureInv'
      BY <3>1, FillSettles
    <3>2. ASSUME NEW o \in CloseOrders, OrderDies(o)
          PROVE  ExposureInv'
      <4>1. UNCHANGED <<pos, pc, local, pending, snap>>
        BY <3>2 DEF OrderDies
      <4>2. pending # NoOrder => /\ orders'[pending].qty = orders[pending].qty
                                 /\ \/ orders'[pending].st = "cancelled"
                                    \/ orders'[pending].st = orders[pending].st
        BY <3>2 DEF OrderDies, TypeOK, OrderRecords
      <4> QED
        BY <4>1, <4>2
    <3>3. ASSUME NEW c \in Symbols, NativeExit(c)
          PROVE  ExposureInv'
      <4>1. UNCHANGED <<pc, local, pending, snap>>
        BY <3>3 DEF NativeExit
      <4>2. pending # NoOrder => /\ orders'[pending].qty = orders[pending].qty
                                 /\ \/ orders'[pending].st = "cancelled"
                                    \/ orders'[pending].st = orders[pending].st
        BY <3>3 DEF NativeExit, Purge, TypeOK, OrderRecords
      <4>3. \A s \in Symbols : pos'[s] \in {0, pos[s]}
        BY <3>3 DEF NativeExit, TypeOK
      <4> QED
        BY <4>1, <4>2, <4>3 DEF CloseInv
    <3> QED
      BY <2>14, <3>1, <3>2, <3>3 DEF Exchange
  <2>15. CASE Restart
    BY <2>15 DEF Restart, CloseInv
  <2>16. CASE UNCHANGED vars
    BY <2>16 DEF vars
  <2> QED
    BY <2>1, <2>2, <2>3, <2>4, <2>5, <2>6, <2>7, <2>8, <2>9, <2>10, <2>11,
       <2>12, <2>13, <2>14, <2>15, <2>16 DEF Next, Tick
<1> QED
  BY <1>1, <1>2, TypeCorrect, ReduceOnlyInvariant, CloseInvariant, PTL DEF Spec

\* Between two ticks no position is open that the process does not manage, as
\* long as reconciliation is off, the exchange answers and the process lives.
THEOREM ExposureIsManaged ==
    ASSUME ReconcileTicks = 0, ~ApiErrors
    PROVE  Spec => []NoUnmanagedExposure
<1>1. (crashes = 0 => ExposureInv) => NoUnmanagedExposure
  BY DEF ExposureInv, NoUnmanagedExposure
<1> QED
  BY <1>1, ExposureInvariant, PTL

-----------------------------------------------------------------------------
(* The ledger.  Due counts the trade that still has to be entered: the one *)
(* in memory or about to be settled, and after a death the one that the    *)
(* snapshot brings back if the exchange still has its position.            *)

Due ==
    IF pc \in {"down", "boot"}
    THEN IF snap.pos # 0 /\ pos[snap.sym] # 0 THEN 1 ELSE 0
    ELSE IF Holding \/ pc = "settle" THEN 1 ELSE 0

LedgerInv ==
    /\ crashes = 0 => ledger + Due = trades
    /\ crashes <= 1 => ledger + Due <= trades

\* Where the tick stands, as far as the ledger is concerned.
SettleInv ==
    /\ pc \in {"settle", "settled"} => ~Holding
    /\ pc \in {"opened", "persist"} => Holding
    /\ pc # "clear"

LEMMA SettleInvariant ==
    ASSUME ReconcileTicks = 0
    PROVE  Spec => []SettleInv
<1>1. Init => SettleInv
  BY DEF Init, SettleInv
<1>2. SettleInv /\ [Next]_vars => SettleInv'
  <2> SUFFICES ASSUME SettleInv, [Next]_vars
               PROVE  SettleInv'
    OBVIOUS
  <2> USE DEF SettleInv, Holding, exchange, memory, store, history
  <2>1. CASE Hydrate \/ SelectSymbol \/ MarketUnavailable \/ SkipReconcile
    BY <2>1 DEF Hydrate, SelectSymbol, MarketUnavailable, SkipReconcile
  <2>2. CASE Reconcile
    BY <2>2 DEF Reconcile, ReconcileDue
  <2>3. CASE SyncReconciled \/ SyncSettled \/ SyncEntered
    BY <2>3 DEF SyncReconciled, SyncSettled, SyncEntered
  <2>4. CASE CheckPendingClose \/ NoExit \/ PlaceClose \/ AppendLedger
    BY <2>4 DEF CheckPendingClose, NoExit, PlaceClose, AppendLedger, Forget, Flat
  <2>5. CASE NoEntry \/ Enter \/ NativeStops \/ PlaceSafetyStop \/ EndTick
    BY <2>5 DEF NoEntry, Enter, NativeStops, PlaceSafetyStop, EndTick, Sides
  <2>6. CASE Exchange
    BY <2>6 DEF Exchange, OrderFills, OrderDies, NativeExit
  <2>7. CASE Crash \/ Restart
    BY <2>7 DEF Crash, Restart
  <2>8. CASE UNCHANGED vars
    BY <2>8 DEF vars
  <2> QED
    BY <2>1, <2>2, <2>3, <2>4, <2>5, <2>6, <2>7, <2>8 DEF Next, Tick
<1> QED
  BY <1>1, <1>2, PTL DEF Spec

\* The first death leaves the account as it was or drops a trade from it.
LEMMA DeathSettlesNothingTwice ==
    ASSUME TypeOK, SnapshotInv, PlaceInv, crashes = 0 => ExposureInv, SettleInv,
           crashes = 0, Crash
    PROVE  Due' \in {0, Due}
<1>1. /\ pc' = "down"
      /\ pc # "down"
      /\ UNCHANGED <<pos, snap>>
  BY DEF Crash, exchange, store
<1>2. CASE Holding \/ pc = "settle"
  BY <1>1, <1>2 DEF Due
<1>3. CASE pc = "settled"
  <2>1. local = Flat
    BY <1>3 DEF SettleInv, ExposureInv
  <2>2. \A s \in Symbols : pos[s] = 0
    BY <2>1, SessionAssumption DEF ExposureInv, Flat
  <2> QED
    BY <1>1, <2>2 DEF Due, PlaceInv
<1>4. CASE pc \in Synced /\ ~Holding
  BY <1>1, <1>4 DEF Due, SnapshotInv, Holding
<1>5. CASE pc = "boot"
  BY <1>1, <1>5 DEF Due, ExposureInv, Flat
<1> QED
  BY <1>1, <1>2, <1>3, <1>4, <1>5 DEF SettleInv, TypeOK, Stages, Synced

\* Any other step opens a due trade, settles one, or leaves the account as it
\* is; only after a death may a due trade disappear.
LEMMA LifeSettlesEverything ==
    ASSUME ReconcileTicks = 0, TypeOK, ReduceOnlyInv, PlaceInv,
           crashes = 0 => ExposureInv, SettleInv, [Next]_vars, ~Crash
    PROVE  /\ Enter => Due = 0 /\ Due' = 1
           /\ AppendLedger => Due = 1 /\ Due' = 0
           /\ ~Enter /\ ~AppendLedger => /\ Due' \in {0, Due}
                                         /\ crashes = 0 => Due' = Due
<1> USE DEF Due, SettleInv, Holding, exchange, memory, store, history
<1>1. CASE Hydrate
  <2>1. ~Enter /\ ~AppendLedger
    BY <1>1 DEF Hydrate, Enter, AppendLedger
  <2>2. crashes = 0 => snap.pos = 0
    BY <1>1 DEF Hydrate, ExposureInv, Flat
  <2> QED
    BY <1>1, <2>1, <2>2 DEF Hydrate, PlaceInv, Flat
<1>2. CASE SelectSymbol \/ MarketUnavailable \/ SkipReconcile
  BY <1>2 DEF SelectSymbol, MarketUnavailable, SkipReconcile, Enter, AppendLedger
<1>3. CASE Reconcile
  BY <1>3 DEF Reconcile, ReconcileDue
<1>4. CASE SyncReconciled \/ SyncSettled \/ SyncEntered
  BY <1>4 DEF SyncReconciled, SyncSettled, SyncEntered, Enter, AppendLedger
<1>5. CASE CheckPendingClose
  BY <1>5 DEF CheckPendingClose, Forget, Flat, Enter, AppendLedger
<1>6. CASE NoExit \/ NoEntry
  BY <1>6 DEF NoExit, NoEntry, Enter, AppendLedger
<1>7. CASE PlaceClose
  BY <1>7 DEF PlaceClose, Forget, Flat, Enter, AppendLedger
<1>8. CASE AppendLedger
  BY <1>8 DEF AppendLedger, Enter
<1>9. CASE Enter
  BY <1>9 DEF Enter, AppendLedger, Sides
<1>10. CASE NativeStops \/ PlaceSafetyStop \/ EndTick
  BY <1>10 DEF NativeStops, PlaceSafetyStop, EndTick, Enter, AppendLedger
<1>11. CASE Exchange
  <2>1. ~Enter /\ ~AppendLedger
    BY <1>11 DEF Exchange, OrderFills, OrderDies, NativeExit, Enter, AppendLedger
  <2> QED
    BY <1>11, <2>1, ExchangeStep DEF PlaceInv, ExposureInv, Flat
<1>12. CASE Restart
  BY <1>12 DEF Restart, Enter, AppendLedger
<1>13. CASE UNCHANGED vars
  BY <1>13 DEF vars, Enter, AppendLedger
<1> QED
  BY <1>1, <1>2, <1>3, <1>4, <1>5, <1>6, <1>7, <1>8, <1>9, <1>10, <1>11,
     <1>12, <1>13 DEF Next, Tick

LEMMA LedgerInvariant ==
    ASSUME ReconcileTicks = 0, ~ApiErrors
    PROVE  Spec => []LedgerInv
<1> DEFINE Known == crashes = 0 => ExposureInv
<1>1. Init => LedgerInv
  BY DEF Init, LedgerInv, Due, Holding, Flat
<1>2. /\ TypeOK /\ ReduceOnlyInv /\ SnapshotInv /\ PlaceInv /\ Known /\ SettleInv
      /\ LedgerInv /\ [Next]_vars
      => LedgerInv'
  <2> SUFFICES ASSUME TypeOK, ReduceOnlyInv, SnapshotInv, PlaceInv, Known, SettleInv,
                      LedgerInv, [Next]_vars
               PROVE  LedgerInv'
    OBVIOUS
  <2>n. ledger \in Nat /\ trades \in Nat /\ crashes \in Nat /\ Due \in {0, 1}
    BY SessionAssumption DEF TypeOK, Due
  <2>1. CASE Crash
    <3>1. /\ crashes' = crashes + 1
          /\ ledger' = ledger
          /\ trades' = trades
      BY <2>1 DEF Crash, store
    <3>2. crashes = 0 => Due' \in {0, Due}
      BY <2>1, DeathSettlesNothingTwice
    <3> QED
      BY <2>n, <3>1, <3>2 DEF LedgerInv
  <2>2. CASE ~Crash
    <3>1. /\ crashes' = crashes
          /\ trades' = IF Enter THEN trades + 1 ELSE trades
          /\ ledger' = IF AppendLedger THEN ledger + 1 ELSE ledger
      BY <2>2, HistoryStep DEF Enter, AppendLedger
    <3>2. ~(Enter /\ AppendLedger)
      BY DEF Enter, AppendLedger
    <3>3. /\ Enter => Due = 0 /\ Due' = 1
          /\ AppendLedger => Due = 1 /\ Due' = 0
          /\ ~Enter /\ ~AppendLedger => /\ Due' \in {0, Due}
                                        /\ crashes = 0 => Due' = Due
      BY <2>2, LifeSettlesEverything
    <3> QED
      BY <2>n, <3>1, <3>2, <3>3 DEF LedgerInv
  <2> QED
    BY <2>1, <2>2
<1> QED
  BY <1>1, <1>2, TypeCorrect, ReduceOnlyInvariant, SnapshotInvariant, PlaceInvariant,
     ExposureInvariant, SettleInvariant, PTL DEF Spec

\* As long as reconciliation is off and the exchange answers, no trade is lost
\* from the ledger by a living process and none is entered twice up to the
\* first death, for any number of symbols, orders and trades.
THEOREM LedgerIsExact ==
    ASSUME ReconcileTicks = 0, ~ApiErrors
    PROVE  Spec => []LedgerExact
<1>1. TypeOK /\ SnapshotInv /\ LedgerInv => LedgerExact
  BY DEF TypeOK, SnapshotInv, LedgerInv, LedgerExact, Due, Holding, Flat, Synced
<1> QED
  BY <1>1, TypeCorrect, SnapshotInvariant, LedgerInvariant, PTL

=============================================================================
