------------------------------- MODULE MCParts -------------------------------
(* The independent parts on small instances.  A caller is a session, a      *)
(* request or a use of the switch, as the part at hand needs it.           *)
EXTENDS Parts, TLC

\* Products 1 and 3 cost 1 and are the newer ones; 1 begins with the keyword.
PriceOf == [p \in Products |-> p % 2]
CreatedOf == [p \in Products |-> p % 2]
HitsOf == [k \in Keywords |-> {1, 3}]
PrefixedOf == [k \in Keywords |-> {1}]

Symmetry == Permutations(Requests) \cup Permutations(BootOrders)
==============================================================================
