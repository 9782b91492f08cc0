------------------------- MODULE MCOrderTransactions -------------------------
(* The shop's transactions on a small instance.                            *)
EXTENDS OrderTransactions, TLC

MCStock == [p \in Products |-> 1]
MCStock2 == [p \in Products |-> p]
MCSales == [p \in Products |-> 0]
Symmetry == Permutations(Orders) \cup Permutations(Sessions)
==============================================================================
