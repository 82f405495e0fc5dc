--------------------------- MODULE MCPaperTrading ---------------------------
(* TLC instances of PaperTrading.                                           *)
EXTENDS PaperTrading, TLC

\* Symbols, like orders, are told apart by nothing.
Symmetry == Permutations(Orders) \cup Permutations(Symbols)

=============================================================================
