---------------------------- MODULE MCAccountData ----------------------------
(***************************************************************************)
(* AccountData for TLC's safety run: requests are alike and so are the     *)
(* documents of a kind.                                                    *)
(***************************************************************************)
EXTENDS AccountData, TLC

Symmetry == Permutations(Row) \cup Permutations(Handler)
=============================================================================
