--------------------------- MODULE MCGroupHarness ---------------------------
(***************************************************************************)
(* Instances of GroupHarness for TLC.                                      *)
(***************************************************************************)
EXTENDS GroupHarness, TLC

(* Neither keys nor accounts are told apart.                               *)
Symmetry == Permutations(Keys) \cup Permutations(Accounts)
=============================================================================
