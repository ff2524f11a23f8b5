--------------------------- MODULE MCPrefixGuard ---------------------------
(***************************************************************************)
(* Model-checking instance of PrefixGuard: two interchangeable models.     *)
(***************************************************************************)
EXTENDS PrefixGuard, TLC

ModelSymmetry == Permutations(Models)

=============================================================================
