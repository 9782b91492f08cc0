----------------------------- MODULE MCAddresses -----------------------------
(* One user's addresses on a small instance.                               *)
EXTENDS Addresses, TLC

Symmetry == Permutations(Sessions)
==============================================================================
