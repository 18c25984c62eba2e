--------------------------- MODULE TraderSession ---------------------------
(***************************************************************************)
(* The live trading loop of apps/trader/src/trading/run-trader.ts: one     *)
(* process that polls the market, holds at most one position, mirrors it   *)
(* in a Redis snapshot and manages it on the exchange.                     *)
(*                                                                         *)
(* A tick runs through the stages named by `pc`; between two stages, which *)
(* the code separates by an await, the exchange may act and the process    *)
(* may die.  A position is a signed number of lots (long positive).        *)
(* Prices and signals are nondeterministic: the model decides freely       *)
(* whether an exit or an entry is wanted.                                  *)
(***************************************************************************)
EXTENDS Integers, FiniteSets

CONSTANTS
    Symbols,            \* tradable symbols
    NoSymbol,           \* openPositionSymbol = null
    CloseOrders,        \* identities (orderLinkId) of reduce-only close orders
    NoOrder,            \* pendingClose = null
    ReconcileTicks,     \* config.positionReconcileIntervalTicks, 0 = disabled
    SafetyDelayTicks,   \* ceil(exitPolicySafetyDelayMs / pollMs)
    LogicalExits,       \* config.exitPolicyMode = "logical"
    ApiErrors,          \* exchange calls may fail or time out
    MaxTrades,          \* bound: entries explored
    MaxCrashes          \* bound: process deaths explored

ASSUME SessionAssumption ==
    /\ NoSymbol \notin Symbols
    /\ NoOrder \notin CloseOrders
    /\ ReconcileTicks \in Nat
    /\ SafetyDelayTicks \in Nat
    /\ LogicalExits \in BOOLEAN
    /\ ApiErrors \in BOOLEAN
    /\ MaxTrades \in Nat
    /\ MaxCrashes \in Nat

VARIABLES
    \* --- the exchange ---
    pos,          \* signed lots held per symbol
    stop,         \* is a native stop attached to the symbol's position?
    orders,       \* close orders: [st, sym, side, qty, reduceOnly]
    \* --- memory of the process ---
    pc,           \* stage of the tick, "down" when no process runs
    active,       \* activeSymbol of this tick
    local,        \* state.position and openPositionSymbol
    pending,      \* pendingClose.orderLinkId
    halt,         \* haltEntriesUntilCleared
    force,        \* forceLogicalExitForCurrentPosition
    age,          \* ticks - lastReconcileTick, capped at ReconcileTicks
    held,         \* ticks - entryTick, capped past SafetyDelayTicks; -1 for null
    safetyPlaced, \* safetyStopPlaced
    \* --- Redis ---
    snap,         \* the snapshot under OPEN_STATE_KEY
    ledger,       \* closed-position entries appended so far
    \* --- history ---
    trades,       \* entries that reached the exchange
    crashes       \* process deaths so far

exchange == <<pos, stop, orders>>
memory   == <<active, local, pending, halt, force, age, held, safetyPlaced>>
store    == <<snap, ledger>>
history  == <<trades, crashes>>
vars     == <<exchange, pc, memory, store, history>>

-----------------------------------------------------------------------------
Sides == {-1, 1}
Abs(n) == IF n < 0 THEN -n ELSE n
\* The side of an order that reduces a position of n lots.
Opposite(n) == IF n > 0 THEN -1 ELSE 1

Flat == [pos |-> 0, sym |-> NoSymbol]
Stages == {"down", "boot", "scan", "reconcile", "clear", "pending", "exit",
           "settle", "settled", "entry", "opened", "persist", "protect"}

Holding == local.pos # 0
OpenOrders == {o \in CloseOrders : orders[o].st = "open"}
\* An identity may be reused once its order is terminal and no longer tracked.
FreeOrders == {o \in CloseOrders : o # pending /\ orders[o].st # "open"}

\* Mutant: the next position inherits the safety flag.
ForgetKeepsSafetyFlag ==
    /\ local' = Flat
    /\ held' = -1
    /\ force' = FALSE
    /\ UNCHANGED safetyPlaced

\* state and the flags that are reset whenever a position is given up
\* (openPositionSymbol, safetyStopPlaced, entryTick, force).
Forget ==
    /\ local' = Flat
    /\ safetyPlaced' = FALSE
    /\ held' = -1
    /\ force' = FALSE

\* What a dead process loses; SelectSymbol sets `active` before its next use.
Volatile ==
    /\ local' = Flat
    /\ pending' = NoOrder
    /\ halt' = FALSE
    /\ force' = FALSE
    /\ age' = 0
    /\ held' = -1
    /\ safetyPlaced' = FALSE
    /\ UNCHANGED active

-----------------------------------------------------------------------------
(* The exchange.  A symbol whose position disappears loses its native stop *)
(* and its reduce-only orders.                                             *)

Purge(s, book) ==
    [o \in CloseOrders |->
        IF book[o].st = "open" /\ book[o].sym = s /\ book[o].reduceOnly
        THEN [book[o] EXCEPT !.st = "cancelled"] ELSE book[o]]

Reducible(o) == pos[orders[o].sym] * orders[o].side < 0

\* A resting close order executes; one that is reduce-only brings the
\* position to zero at most.
OrderFills(o) ==
    LET ord == orders[o]
        s == ord.sym
        filled == [orders EXCEPT ![o].st = "filled"]
        left == IF ord.reduceOnly /\ ord.qty >= Abs(pos[s]) THEN 0
                ELSE pos[s] + ord.side * ord.qty
    IN /\ ord.st = "open"
       /\ ord.reduceOnly => Reducible(o)
       /\ pos' = [pos EXCEPT ![s] = left]
       /\ stop' = [stop EXCEPT ![s] = @ /\ left # 0]
       /\ orders' = IF left = 0 THEN Purge(s, filled) ELSE filled
       /\ UNCHANGED <<pc, memory, store, history>>

\* The exchange cancels a resting order on its own account.
OrderDies(o) ==
    /\ orders[o].st = "open"
    /\ orders' = [orders EXCEPT ![o].st = "cancelled"]
    /\ UNCHANGED <<pos, stop, pc, memory, store, history>>

\* Native stop-loss / take-profit, liquidation or a manual close.
NativeExit(s) ==
    /\ pos[s] # 0
    /\ pos' = [pos EXCEPT ![s] = 0]
    /\ stop' = [stop EXCEPT ![s] = FALSE]
    /\ orders' = Purge(s, orders)
    /\ UNCHANGED <<pc, memory, store, history>>

-----------------------------------------------------------------------------
(* Process start: the snapshot is loaded and compared with the exchange.   *)

\* Mutant: the snapshot is trusted without asking the exchange.
HydrateTrusting ==
    /\ pc = "boot"
    /\ local' = snap
    /\ pc' = "scan"
    /\ UNCHANGED <<exchange, active, pending, halt, force, age, held,
                   safetyPlaced, store, history>>

Hydrate ==
    /\ pc = "boot"
    /\ \/ /\ snap.pos # 0
          /\ pos[snap.sym] = 0
          /\ snap' = Flat
          /\ UNCHANGED local
       \/ /\ snap.pos # 0 => pos[snap.sym] # 0
          /\ local' = snap
          /\ UNCHANGED snap
    /\ pc' = "scan"
    /\ UNCHANGED <<exchange, active, pending, halt, force, age, held,
                   safetyPlaced, ledger, history>>

\* Top of a tick: the open position's symbol, else the scanner's pick.
SelectSymbol ==
    /\ pc = "scan"
    /\ active' \in IF local.sym # NoSymbol THEN {local.sym} ELSE Symbols
    /\ pc' = "reconcile"
    /\ UNCHANGED <<exchange, local, pending, halt, force, age, held,
                   safetyPlaced, store, history>>

AgeTick ==
    /\ age' = IF age < ReconcileTicks THEN age + 1 ELSE age
    /\ held' = IF held >= 0 /\ held <= SafetyDelayTicks THEN held + 1 ELSE held

\* Instrument or ticker unavailable: the tick is abandoned.
MarketUnavailable ==
    /\ pc = "reconcile"
    /\ ApiErrors
    /\ AgeTick
    /\ pc' = "scan"
    /\ UNCHANGED <<exchange, active, local, pending, halt, force,
                   safetyPlaced, store, history>>

\* getPosition(...).catch(() => null): a failed read looks like no position.
ObservedPositions(s) == {pos[s]} \cup (IF ApiErrors THEN {0} ELSE {})

\* Mutant: only a position the trader does not know of is looked for.
ReconcileDueWhenFlat == ReconcileTicks > 0 /\ age >= ReconcileTicks /\ ~Holding

ReconcileDue == ReconcileTicks > 0 /\ age >= ReconcileTicks

SkipReconcile ==
    /\ pc = "reconcile"
    /\ ~ReconcileDue
    /\ pc' = "pending"
    /\ UNCHANGED <<exchange, memory, store, history>>

\* reconcilePositions: how the position in memory differs from the exchange.
Drift(expected, observed) ==
    CASE expected = observed -> "aligned"
      [] expected # 0 /\ observed = 0 -> "missing-on-exchange"
      [] expected = 0 /\ observed # 0 -> "extra-on-exchange"
      [] OTHER -> "mismatch"

Reconcile ==
    /\ pc = "reconcile"
    /\ ReconcileDue
    /\ age' = 0
    /\ \E observed \in ObservedPositions(active) :
          LET drift == Drift(local.pos, observed)
          IN \/ /\ drift = "aligned"
                /\ halt' = FALSE
                /\ pc' = "pending"
                /\ UNCHANGED <<local, force, held, safetyPlaced>>
             \/ /\ drift = "missing-on-exchange"
                /\ halt' = FALSE
                /\ Forget
                /\ pc' = "clear"
             \/ /\ drift = "extra-on-exchange"
                /\ halt' = TRUE
                /\ pc' = "pending"
                /\ UNCHANGED <<local, force, held, safetyPlaced>>
             \/ /\ drift = "mismatch"
                /\ local' = [local EXCEPT !.pos = observed]
                /\ pc' = "clear"
                /\ UNCHANGED <<halt, force, held, safetyPlaced>>
    /\ UNCHANGED <<exchange, active, pending, store, history>>

\* Mutant: the reconciled position is not written back.
SyncReconciledSkipped ==
    /\ pc = "clear"
    /\ pc' = "pending"
    /\ UNCHANGED <<exchange, memory, store, history>>

\* syncSnapshot at the end of the reconciliation branches.
SyncReconciled ==
    /\ pc = "clear"
    /\ snap' = local
    /\ pc' = "pending"
    /\ UNCHANGED <<exchange, memory, ledger, history>>

-----------------------------------------------------------------------------
(* pendingClose is looked up by link id on the active symbol; an order that*)
(* is not found there, or a failed lookup, counts as filled.               *)

\* Mutants: a resting order looks filled or cancelled; an ended order looks
\* open.
LookupMissing(o) == {"missing"}
LookupCancelled(o) == {"cancelled", orders[o].st}
LookupOpen(o) == {"open"}

LookupResults(o) ==
    {IF orders[o].sym = active THEN orders[o].st ELSE "missing"}
        \cup (IF ApiErrors THEN {"missing"} ELSE {})

CheckPendingClose ==
    /\ pc = "pending"
    /\ IF pending # NoOrder /\ Holding
       THEN \E st \in LookupResults(pending) :
              \/ /\ st \in {"filled", "missing"}
                 /\ Forget
                 /\ pending' = NoOrder
                 /\ pc' = "settle"
              \/ /\ st = "cancelled"
                 /\ pending' = NoOrder
                 /\ pc' = "exit"
                 /\ UNCHANGED <<local, force, held, safetyPlaced>>
              \/ /\ st = "open"
                 /\ pc' = "exit"
                 /\ UNCHANGED <<pending, local, force, held, safetyPlaced>>
       ELSE /\ pc' = "exit"
            /\ UNCHANGED <<pending, local, force, held, safetyPlaced>>
    /\ UNCHANGED <<exchange, active, halt, age, store, history>>

\* Mutants: reduceOnly is forgotten; the quantity keeps the sign of the side.
CloseOrderPlain(s, lots) ==
    [st |-> "open", sym |-> s, side |-> Opposite(lots), qty |-> Abs(lots),
     reduceOnly |-> FALSE]
CloseOrderSigned(s, lots) ==
    [st |-> "open", sym |-> s, side |-> Opposite(lots), qty |-> lots,
     reduceOnly |-> TRUE]

\* The reduce-only GTC limit order executeTrade sends to close.
CloseOrder(s, lots) ==
    [st |-> "open", sym |-> s, side |-> Opposite(lots), qty |-> Abs(lots),
     reduceOnly |-> TRUE]

NoExit ==
    /\ pc = "exit"
    /\ pc' = "entry"
    /\ UNCHANGED <<exchange, memory, store, history>>

PlaceClose ==
    /\ pc = "exit"
    /\ Holding
    /\ pending = NoOrder
    /\ \/ /\ pos[active] * local.pos > 0
          /\ \E o \in FreeOrders :
                /\ orders' = [orders EXCEPT ![o] = CloseOrder(active, local.pos)]
                /\ pending' = o
          /\ pc' = "entry"
          /\ UNCHANGED <<local, force, held, safetyPlaced>>
       \/ \* rejected as reduce-only: the position is taken to be closed
          /\ pos[active] * local.pos <= 0
          /\ Forget
          /\ pc' = "settle"
          /\ UNCHANGED <<orders, pending>>
    /\ UNCHANGED <<pos, stop, active, halt, age, store, history>>

\* Mutant: an append that fails is swallowed.
AppendLedgerBestEffort ==
    /\ pc = "settle"
    /\ ledger' \in {ledger, ledger + 1}
    /\ pc' = "settled"
    /\ UNCHANGED <<exchange, memory, snap, history>>

\* The local state has been closed; its ledger entry, then the snapshot.
AppendLedger ==
    /\ pc = "settle"
    /\ ledger' = ledger + 1
    /\ pc' = "settled"
    /\ UNCHANGED <<exchange, memory, snap, history>>

SyncSettled ==
    /\ pc = "settled"
    /\ snap' = local
    /\ pc' = "entry"
    /\ UNCHANGED <<exchange, memory, ledger, history>>

-----------------------------------------------------------------------------
(* Entry: a Market order, native stops in exchange-native mode, snapshot.  *)

NoEntry ==
    /\ pc = "entry"
    /\ pc' = "protect"
    /\ UNCHANGED <<exchange, memory, store, history>>

MarketEntry(side) ==
    /\ pos' = [pos EXCEPT ![active] = @ + side]
    /\ stop' = [stop EXCEPT ![active] = @ /\ pos'[active] # 0]
    /\ orders' = IF pos'[active] = 0 THEN Purge(active, orders) ELSE orders

Enter ==
    /\ pc = "entry"
    /\ ~Holding
    /\ ~halt
    /\ trades < MaxTrades
    /\ trades' = trades + 1
    /\ \E side \in Sides :
          /\ MarketEntry(side)
          /\ local' = [pos |-> side, sym |-> active]
    /\ held' = 0
    /\ pc' = IF LogicalExits THEN "persist" ELSE "opened"
    /\ UNCHANGED <<active, pending, halt, force, age, safetyPlaced, store,
                   crashes>>

\* Mutant: the result of trySetTradingStop is ignored.
NativeStopsUnchecked ==
    /\ pc = "opened"
    /\ \/ stop' = [stop EXCEPT ![active] = pos[active] # 0]
       \/ ApiErrors /\ UNCHANGED stop
    /\ pc' = "persist"
    /\ UNCHANGED <<pos, orders, memory, store, history>>

\* trySetTradingStop right after the fill; giving up falls back to logical.
NativeStops ==
    /\ pc = "opened"
    /\ \/ /\ stop' = [stop EXCEPT ![active] = pos[active] # 0]
          /\ UNCHANGED force
       \/ /\ ApiErrors
          /\ force' = TRUE
          /\ UNCHANGED stop
    /\ pc' = "persist"
    /\ UNCHANGED <<pos, orders, active, local, pending, halt, age, held,
                   safetyPlaced, store, history>>

SyncEntered ==
    /\ pc = "persist"
    /\ snap' = local
    /\ pc' = "protect"
    /\ UNCHANGED <<exchange, memory, ledger, history>>

-----------------------------------------------------------------------------
(* End of the tick: delayed safety stop, then the trailing stop.           *)

SafetyStopDue ==
    /\ Holding
    /\ held >= SafetyDelayTicks
    /\ ~safetyPlaced
    /\ force \/ LogicalExits

\* safetyStopPlaced is set whether or not the exchange took the stop.
PlaceSafetyStop ==
    /\ pc = "protect"
    /\ SafetyStopDue
    /\ \/ stop' = [stop EXCEPT ![active] = pos[active] # 0]
       \/ ApiErrors /\ UNCHANGED stop
    /\ safetyPlaced' = TRUE
    /\ AgeTick
    /\ pc' = "scan"
    /\ UNCHANGED <<pos, orders, active, local, pending, halt, force, store,
                   history>>

\* The trailing stop moves the native stop; giving up falls back to logical.
EndTick ==
    /\ pc = "protect"
    /\ ~SafetyStopDue
    /\ \/ UNCHANGED <<stop, force>>
       \/ /\ Holding /\ ~LogicalExits /\ ~force
          /\ \/ /\ stop' = [stop EXCEPT ![active] = pos[active] # 0]
                /\ UNCHANGED force
             \/ /\ ApiErrors
                /\ force' = TRUE
                /\ UNCHANGED stop
    /\ AgeTick
    /\ pc' = "scan"
    /\ UNCHANGED <<pos, orders, active, local, pending, halt, safetyPlaced,
                   store, history>>

-----------------------------------------------------------------------------
(* Death of the process, by a signal or by an exchange call that throws    *)
(* out of runTrader, and its restart by the container's restart policy.  A *)
(* createOrder that throws although the exchange took the order is Enter   *)
(* or PlaceClose followed by Crash.                                        *)

Crash ==
    /\ pc # "down"
    /\ crashes < MaxCrashes
    /\ crashes' = crashes + 1
    /\ pc' = "down"
    /\ Volatile
    /\ UNCHANGED <<exchange, store, trades>>

Restart ==
    /\ pc = "down"
    /\ pc' = "boot"
    /\ UNCHANGED <<exchange, memory, store, history>>

-----------------------------------------------------------------------------
Init ==
    /\ pos = [s \in Symbols |-> 0]
    /\ stop = [s \in Symbols |-> FALSE]
    /\ \E s \in Symbols :
          /\ orders = [o \in CloseOrders |->
                 [st |-> "none", sym |-> s, side |-> 1, qty |-> 1,
                  reduceOnly |-> TRUE]]
          /\ active = s
    /\ pc = "boot"
    /\ local = Flat
    /\ pending = NoOrder
    /\ halt = FALSE
    /\ force = FALSE
    /\ age = 0
    /\ held = -1
    /\ safetyPlaced = FALSE
    /\ snap = Flat
    /\ ledger = 0
    /\ trades = 0
    /\ crashes = 0

Tick ==
    \/ Hydrate \/ SelectSymbol \/ MarketUnavailable
    \/ SkipReconcile \/ Reconcile \/ SyncReconciled
    \/ CheckPendingClose \/ NoExit \/ PlaceClose \/ AppendLedger \/ SyncSettled
    \/ NoEntry \/ Enter \/ NativeStops \/ SyncEntered
    \/ PlaceSafetyStop \/ EndTick

Exchange ==
    \/ \E o \in CloseOrders : OrderFills(o) \/ OrderDies(o)
    \/ \E s \in Symbols : NativeExit(s)

Next == Tick \/ Exchange \/ Crash \/ Restart

Spec == Init /\ [][Next]_vars

-----------------------------------------------------------------------------
(* Properties.                                                             *)

OrderRecords ==
    [st : {"none", "open", "filled", "cancelled"}, sym : Symbols, side : Sides,
     qty : Nat \ {0}, reduceOnly : BOOLEAN]
PositionRecords == [pos : Int, sym : Symbols \cup {NoSymbol}]

\* Every variable keeps its type.
TypeOK ==
    /\ pos \in [Symbols -> Int]
    /\ stop \in [Symbols -> BOOLEAN]
    /\ orders \in [CloseOrders -> OrderRecords]
    /\ pc \in Stages
    /\ active \in Symbols
    /\ local \in PositionRecords
    /\ pending \in CloseOrders \cup {NoOrder}
    /\ halt \in BOOLEAN
    /\ force \in BOOLEAN
    /\ age \in 0..ReconcileTicks
    /\ held \in -1..SafetyDelayTicks + 1
    /\ safetyPlaced \in BOOLEAN
    /\ snap \in PositionRecords
    /\ ledger \in Nat
    /\ trades \in 0..MaxTrades
    /\ crashes \in 0..MaxCrashes

\* As long as the process lives, every position open between two ticks is the
\* one the trader manages: the loop itself never leaves a position behind.
NoUnmanagedExposure ==
    pc = "scan" /\ crashes = 0 => \A s \in Symbols : pos[s] # 0 => local.sym = s

\* As long as the process lives, the ledger has between ticks exactly one
\* entry for every finished trade, whichever path noticed its end; and the
\* first death never makes it enter a trade twice.  A later one may: when it
\* strikes between the ledger entry and the snapshot, a position that an
\* earlier death left behind on the symbol is taken for the trade.
LedgerExact ==
    LET unsettled == IF Holding THEN 1 ELSE 0
    IN /\ crashes <= 1 => ledger + unsettled <= trades
       /\ pc = "scan" /\ crashes = 0 => ledger + unsettled = trades

\* As long as the process lives, the trader never has two close orders resting
\* on the exchange.
OneCloseOrder == crashes = 0 => \A o1, o2 \in OpenOrders : o1 = o2

\* Between ticks the snapshot in Redis has the symbol, side and size of the
\* position in memory, so a crash there loses no position.
SnapshotFresh == pc = "scan" => snap = local

\* Nothing but an entry ever enlarges or flips a position: close orders, also
\* stale ones left by a crash, only ever reduce.
ClosesOnlyReduce ==
    [][\A s \in Symbols :
          pos'[s] # pos[s] /\ trades' = trades =>
              Abs(pos'[s]) < Abs(pos[s]) /\ pos'[s] * pos[s] >= 0]_vars

\* In logical mode every position that this process opened carries a native
\* stop once it is older than the safety delay, also the second position and
\* the one after a failed close.  A position taken over from the snapshot
\* after a restart is left out: its entry tick is null (held = -1), and the
\* loop never places a safety stop for it.
SafetyStopInTime ==
    pc = "scan" /\ Holding /\ held > SafetyDelayTicks =>
        stop[local.sym] \/ pos[local.sym] = 0

\* In exchange-native mode a live position has its native stop, or the trader
\* knows, as long as the process lives, that it must exit it itself.
StopOrFallback ==
    pc = "scan" /\ crashes = 0 /\ Holding /\ pos[local.sym] # 0 => stop[local.sym] \/ force

\* A close order that has ended is noticed while its position is held, so that
\* the position is settled or its close is sent again; and a position that the
\* exchange closed by itself is not managed for ever.
EndNoticed ==
    /\ (pending # NoOrder /\ orders[pending].st # "open")
           ~> (pending = NoOrder \/ ~Holding)
    /\ (Holding /\ pos[local.sym] = 0) ~> (~Holding \/ pos[local.sym] # 0)

\* Entries that were halted because the exchange holds a position the trader
\* does not know of stay halted for as long as there is such a position (or
\* until the process dies).
HaltLasts ==
    [][halt /\ ~halt' /\ pc' # "down" => \A s \in Symbols : pos[s] # 0 => local.sym = s]_vars

=============================================================================
