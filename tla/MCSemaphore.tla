---------------------------- MODULE MCSemaphore ----------------------------
(***************************************************************************)
(* Instances of Semaphore for TLC.                                         *)
(***************************************************************************)
EXTENDS SemaphoreRefinement, TLC

(* Neither keys nor accounts are told apart by the contract.               *)
Symmetry == Permutations(Keys) \cup Permutations(Accounts)

(* One hash of two identities: the root of a tree that has them as leaves. *)
AHashOfTwo ==
  { CHOOSE h \in {Hash(left, right) : left, right \in Identities} : h[1] # h[2] }

(* Without the events of the last step, which nothing depends on.          *)
WithoutEvents == <<forestVars, maxTreeSize, adminVars, configVars, globalMerkleRoot, batch, proofVars>>
=============================================================================
