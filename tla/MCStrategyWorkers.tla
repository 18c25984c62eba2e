-------------------------- MODULE MCStrategyWorkers --------------------------
(* Small instances of the one-leg worker stacks.  A second trade is taken    *)
(* where trades leave something to the next one, live ma-crossover with its  *)
(* allocator, and not past a job the gate has missed, which both properties  *)
(* leave out; a hedge on another symbol is opened on paper only.             *)
EXTENDS StrategyWorkers, TLC

\* Places in which iterations run are interchangeable.
Symmetry == Permutations(Lanes)

MCNext ==
    /\ Next
    /\ trades' > 1 => strategy = "ma-crossover" /\ ~paper /\ ~missed
    /\ hedge' > 0 => paper

MCSpec == Init /\ [][MCNext]_vars

==============================================================================
