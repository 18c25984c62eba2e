--------------------------- MODULE MakerExecution ---------------------------
(***************************************************************************)
(* placeOrderWithMakerPreference of pipeline/maker-execution.ts: a         *)
(* post-only limit order at the best price, polled until it ends or a      *)
(* timeout expires, then cancelled and, if asked for, replaced by a market *)
(* order over the full quantity.  The exchange fills or cancels the limit  *)
(* order at any time, also between the last poll and the cancellation.     *)
(***************************************************************************)
EXTENDS Integers

CONSTANTS
    Full,          \* units of the order
    LostAnswers,   \* a request may be executed and its answer be lost
    MaxPolls       \* bound: polls that fit into the timeout

ASSUME MakerAssumption ==
    /\ Full \in Nat \ {0}
    /\ LostAnswers \in BOOLEAN
    /\ MaxPolls \in Nat \ {0}

VARIABLES
    request,   \* [mode, reduceOnly, held]
    at,        \* the await the call is at
    result,    \* MakerExecutionResult.status, "none" while the call runs
    order,     \* the limit order: "none", "live", "filled", "cancelled"
    filled,    \* units executed, by either order
    resting,   \* units of the limit order in the book
    polls

vars == <<request, at, result, order, filled, resting, polls>>

-----------------------------------------------------------------------------
MakerRequests == [mode : {"maker", "maker-or-taker"}, reduceOnly : BOOLEAN,
                  held : 0..2 * Full]

Lot == IF request.reduceOnly /\ request.held < Full THEN request.held ELSE Full

\* What a reduce-only order can still execute.
Reducible(q) == IF request.reduceOnly /\ request.held - filled < q
                THEN request.held - filled ELSE q

Return(status) == at' = "done" /\ result' = status

\* fallbackToTaker ? placeTakerFallback(...) : skipped-failed
GiveUp ==
    IF request.mode = "maker-or-taker"
    THEN at' = "taker" /\ UNCHANGED result
    ELSE Return("skipped-failed")

-----------------------------------------------------------------------------
\* Best-price discovery; no ticker or no valid price gives up.
FindPrice ==
    /\ at = "price"
    /\ (at' = "post" /\ UNCHANGED result) \/ GiveUp
    /\ UNCHANGED <<request, order, filled, resting, polls>>

\* Any error of the request counts as "post-only-rejected".
PostLimit ==
    /\ at = "post"
    /\ \/ /\ Lot > 0
          /\ order' = "live"
          /\ resting' = Lot
          /\ \/ at' = "poll" /\ UNCHANGED result
             \/ LostAnswers /\ GiveUp
       \/ GiveUp /\ UNCHANGED <<order, resting>>
    /\ UNCHANGED <<request, filled, polls>>

\* Mutant: the timeout is never looked at after a poll.
PollForEver ==
    /\ at = "poll"
    /\ \/ order = "filled" /\ Return("filled-maker")
       \/ order = "cancelled" /\ GiveUp
       \/ UNCHANGED <<at, result>>
    /\ UNCHANGED <<request, order, filled, resting, polls>>

\* Mutant: an order that is still in the book counts as filled.
PollTrusting ==
    /\ at = "poll"
    /\ polls' = polls + 1
    /\ \/ order \in {"filled", "live"} /\ Return("filled-maker")
       \/ order = "cancelled" /\ GiveUp
       \/ at' = (IF polls' < MaxPolls THEN "poll" ELSE "cancel") /\ UNCHANGED result
    /\ UNCHANGED <<request, order, filled, resting>>

\* A poll that fails, or finds no end of the order (a partly filled spot order
\* that was cancelled has a status the code does not know), waits on.
Poll ==
    /\ at = "poll"
    /\ polls' = polls + 1
    /\ \/ order = "filled" /\ Return("filled-maker")
       \/ order = "cancelled" /\ GiveUp
       \/ at' = (IF polls' < MaxPolls THEN "poll" ELSE "cancel") /\ UNCHANGED result
    /\ UNCHANGED <<request, order, filled, resting>>

\* A failed cancellation is logged and ignored.
Cancel ==
    /\ at = "cancel"
    /\ GiveUp
    /\ \/ order = "live" /\ order' = "cancelled" /\ resting' = 0
       \/ UNCHANGED <<order, resting>>
    /\ UNCHANGED <<request, filled, polls>>

\* Market order over the full quantity, whatever the limit order has filled.
PlaceTakerFallback ==
    /\ at = "taker"
    /\ \/ /\ Reducible(Full) > 0
          /\ filled' = filled + Reducible(Full)
          /\ \/ Return("filled-taker-fallback")
             \/ LostAnswers /\ Return("skipped-failed")
       \/ /\ UNCHANGED filled
          /\ Return("skipped-failed")
    /\ UNCHANGED <<request, order, resting, polls>>

-----------------------------------------------------------------------------
ExchangeFills(q) ==
    /\ order = "live"
    /\ q <= Reducible(resting)
    /\ filled' = filled + q
    /\ resting' = resting - q
    /\ order' = IF resting' = 0 THEN "filled" ELSE "live"
    /\ UNCHANGED <<request, at, result, polls>>

\* The price would cross, or nothing is left to reduce.
ExchangeCancels ==
    /\ order = "live"
    /\ order' = "cancelled"
    /\ resting' = 0
    /\ UNCHANGED <<request, at, result, filled, polls>>

-----------------------------------------------------------------------------
Init ==
    /\ request \in MakerRequests
    /\ at = "price"
    /\ result = "none"
    /\ order = "none"
    /\ filled = 0
    /\ resting = 0
    /\ polls = 0

Call == FindPrice \/ PostLimit \/ Poll \/ Cancel \/ PlaceTakerFallback

Next == Call \/ ExchangeCancels \/ \E q \in 1..Full : ExchangeFills(q)

Spec == Init /\ [][Next]_vars

\* Every await of the call ends.
FairSpec == Spec /\ WF_vars(Call)

-----------------------------------------------------------------------------
(* Properties.                                                             *)

Running == at # "done"

\* Every variable keeps its type, and the accounts of the limit order agree:
\* it rests only while it is live, "filled" means all of it, and as long as
\* the call runs nothing else has been executed.
TypeOK ==
    /\ request \in MakerRequests
    /\ at \in {"price", "post", "poll", "cancel", "taker", "done"}
    /\ result \in {"none", "filled-maker", "filled-taker-fallback", "skipped-failed"}
    /\ at = "done" <=> result # "none"
    /\ order \in {"none", "live", "filled", "cancelled"}
    /\ filled \in Nat
    /\ resting \in 0..Full
    /\ filled + resting <= 2 * Full
    /\ at \in {"price", "post"} => order = "none"
    /\ at = "taker" => request.mode = "maker-or-taker"
    /\ order # "live" => resting = 0
    /\ order # "none" => Lot > 0
    /\ Running => filled + resting <= Lot
    /\ Running /\ order = "none" => filled = 0
    /\ Running /\ order \in {"live", "filled"} => filled + resting = Lot
    /\ request.reduceOnly => filled <= request.held
    /\ polls \in 0..MaxPolls
    /\ at \in {"price", "post", "poll"} => polls < MaxPolls

\* The abstract placement: nothing shows before the call returns.
Placement == INSTANCE OrderPlacement WITH
    answer <- CASE result = "none" -> "none"
                [] result = "skipped-failed" -> "failed"
                [] OTHER -> "ok",
    filled <- IF Running THEN 0 ELSE filled,
    resting <- IF Running THEN 0 ELSE resting

\* The caller gets one answer, and "filled-*" only when at least the quantity
\* asked for was executed; a failure without fallback has placed no more than
\* that quantity, and a reduce-only call never executes more than is held.
PlacementKept == Placement!Spec

\* The call returns whatever the exchange does with the order.
Returns == <>(result # "none")

=============================================================================
