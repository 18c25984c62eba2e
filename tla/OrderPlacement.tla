--------------------------- MODULE OrderPlacement ---------------------------
(***************************************************************************)
(* One placement as its caller sees it: a request is answered once, with   *)
(* an outcome that OrderOutcomes allows, and what rests in the book may be *)
(* filled or cancelled later.  MakerExecution implements it.               *)
(***************************************************************************)
EXTENDS OrderOutcomes

VARIABLES
    request,   \* [mode, reduceOnly, held]: held is the size to be reduced
    answer,    \* "none", "ok", "failed"
    filled,    \* units executed
    resting    \* units left in the book

vars == <<request, answer, filled, resting>>

-----------------------------------------------------------------------------
Init ==
    /\ request \in Requests
    /\ answer = "none"
    /\ filled = 0
    /\ resting = 0

Answer ==
    /\ answer = "none"
    /\ answer' \in {"ok", "failed"}
    /\ [answer |-> answer', filled |-> filled', resting |-> resting'] \in Outcomes(request)
    /\ UNCHANGED request

\* What rests is filled or cancelled behind the caller's back.
LateFill ==
    /\ answer # "none"
    /\ resting' \in 0..resting - 1
    /\ filled' \in filled..filled + resting - resting'
    /\ request.reduceOnly => filled' <= request.held
    /\ UNCHANGED <<request, answer>>

Next == Answer \/ LateFill

Spec == Init /\ [][Next]_vars

=============================================================================
