-------------------------- MODULE MCTradePipeline --------------------------
(* Small instances of the worker pipeline.                                 *)
EXTENDS TradePipeline, TLC

\* Strategies, position ids and lanes are interchangeable.
Symmetry == Permutations(Strategies) \cup Permutations(Positions)
                \cup Permutations(Lanes)

=============================================================================
