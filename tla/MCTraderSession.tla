-------------------------- MODULE MCTraderSession --------------------------
(* Small instances of the trading loop, safety.                            *)
EXTENDS TraderSession, TLC

\* Symbols and order identities are interchangeable.
Symmetry == Permutations(Symbols) \cup Permutations(CloseOrders)

=============================================================================
