--------------------------- MODULE MCRefreshTokens ---------------------------
(* Refresh tokens on a small instance.                                     *)
EXTENDS RefreshTokens, TLC

Symmetry == Permutations(Tokens) \cup Permutations(Requests)
==============================================================================
