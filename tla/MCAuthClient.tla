----------------------------- MODULE MCAuthClient -----------------------------
(* The phone's session on a small instance.                                *)
EXTENDS AuthClient, TLC

Symmetry == Permutations(Tokens) \cup Permutations(Calls)
==============================================================================
