------------------------ MODULE SemaphoreRefinement ------------------------
(***************************************************************************)
(* The contract implements the registry: a place is a position in the      *)
(* snapshot of a subgroup.                                                 *)
(*                                                                         *)
(*   addMember, a step of addMembers       Enrol                           *)
(*   removeMember, updateMember to 0       Withdraw                        *)
(*   updateMember to a commitment          Substitute                      *)
(*   every other step                      a stutter                       *)
(***************************************************************************)
EXTENDS Semaphore

(* A subgroup holds maxTreeSize leaves, or one when that is 0.             *)
LeafIds == UNION {0 .. size : size \in TreeSizes}

(* The address 0 stands for the place of who has none, so it is no place;  *)
(* and groups can be created at all.                                       *)
ASSUME PlacesAreKnown == NoAddress \notin Subgroups \X LeafIds /\ TreeSizes # {}

PlacesUsed ==
  {place \in Subgroups \X LeafIds : place[2] + 1 \in Positions(place[1])}

(* The mapping reads the flag of the member before it looks the leaf up,   *)
(* as addMember and updateMember do.                                       *)
HomeOf(c) ==
  IF globalMembers[c]
  THEN CHOOSE place \in PlacesUsed : subgroupMembers[place[1]][place[2] + 1] = c
  ELSE NoAddress

Registry == INSTANCE MemberRegistry WITH
  Members <- Commitments,
  Places  <- Subgroups \X LeafIds,
  Nowhere <- NoAddress,
  home    <- [c \in Commitments |-> HomeOf(c)],
  used    <- PlacesUsed

(* Every step of the contract is a step of the registry or leaves it as it *)
(* is, and no place that was left is ever given to another newcomer.       *)
ImplementsRegistry == Registry!Spec
=============================================================================
