--------------------------- MODULE MCSessionTicks ---------------------------
(* Small instances of the trader session's start and of its ticks, which   *)
(* share no state: a behaviour is one of the two.                          *)
EXTENDS SessionTicks, SessionStarts, TLC

VARIABLE part

PidSymmetry == Permutations(Pids)

MCInit ==
    /\ part \in {"starts", "ticks"}
    /\ StartsInit
    /\ IF part = "ticks" THEN Init
       ELSE Init /\ strategy = "funding-arb" /\ mode = "taker"

MCNext ==
    \/ /\ part = "starts"
       /\ StartsNext
       /\ UNCHANGED <<vars, part>>
    \/ /\ part = "ticks"
       /\ Next
       /\ UNCHANGED <<startsVars, part>>

MCSpec == MCInit /\ [][MCNext]_<<vars, startsVars, part>>

=============================================================================
