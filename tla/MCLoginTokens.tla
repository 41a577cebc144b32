--------------------------- MODULE MCLoginTokens ---------------------------
(***************************************************************************)
(* LoginTokens for TLC: members, pairs and requests are interchangeable,   *)
(* and no property is a liveness property, so that symmetry is sound.      *)
(***************************************************************************)
EXTENDS LoginTokens, TLC

Symmetry == Permutations(Members) \union Permutations(Pairs) \union Permutations(Requests)
=============================================================================
