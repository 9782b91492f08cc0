------------------------------ MODULE MCPurchase ------------------------------
(* The shop and the screens of a purchase on small instances.              *)
EXTENDS Purchase, TLC

MCStock == [p \in Products |-> 2]
MCSales == [p \in Products |-> p]

\* Of line 1 there is one left, of line 2 more.
StockOf == [l \in Lines |-> l]

Symmetry == Permutations(Requests) \cup Permutations(Texts)
==============================================================================
