------------------------------ MODULE MCSession ------------------------------
(* Two instances of the trading loop: one without and one with the periodic *)
(* reconciliation, which has variables of its own.  A behaviour is one of   *)
(* the two, and the other stands still.                                     *)
EXTENDS TraderSession

VARIABLES
    reconciles,
    xpos, xstop, xorders,
    xpc, xactive, xlocal, xpending, xhalt, xforce, xage, xheld, xsafetyPlaced,
    xsnap, xledger,
    xtrades, xcrashes

Reconciled == INSTANCE TraderSession WITH
    ReconcileTicks <- 1, MaxCrashes <- 1,
    pos <- xpos, stop <- xstop, orders <- xorders,
    pc <- xpc, active <- xactive, local <- xlocal, pending <- xpending, halt <- xhalt,
    force <- xforce, age <- xage, held <- xheld, safetyPlaced <- xsafetyPlaced,
    snap <- xsnap, ledger <- xledger, trades <- xtrades, crashes <- xcrashes

xvars == <<xpos, xstop, xorders, xpc, xactive, xlocal, xpending, xhalt, xforce, xage, xheld,
           xsafetyPlaced, xsnap, xledger, xtrades, xcrashes>>

MCInit ==
    /\ reconciles \in BOOLEAN
    /\ Init /\ Reconciled!Init
    /\ active = xactive

MCNext ==
    \/ ~reconciles /\ Next /\ UNCHANGED <<xvars, reconciles>>
    \/ reconciles /\ Reconciled!Next /\ UNCHANGED <<vars, reconciles>>

\* The loop has no step it can put off: every await of a tick ends, by an
\* answer or by a timeout of the HTTP client.
FairSpec ==
    /\ MCInit /\ [][MCNext]_<<vars, xvars, reconciles>>
    /\ WF_xvars(reconciles /\ Reconciled!Tick)
    /\ WF_xvars(reconciles /\ Reconciled!Restart)

\* TraderSession.EndNoticed of the loop that reconciles: the end of a close
\* order, and a close by the exchange, are noticed.
EndsAreNoticed == Reconciled!EndNoticed

=============================================================================
