----------------------------- MODULE MCOrderJobs -----------------------------
(* The order jobs on a small instance.                                     *)
EXTENDS OrderJobs, TLC

MCStock == [p \in Products |-> 2]
MCSales == [p \in Products |-> 0]
Symmetry == Permutations(Orders) \cup Permutations(Ticks)
==============================================================================
