---------------------------- MODULE MCClientJoin ----------------------------
(***************************************************************************)
(* Instances of ClientJoin for TLC: one device among the identities.       *)
(***************************************************************************)
EXTENDS ClientJoin, TLC

TheDevice == {IdentityCommitment(CHOOSE key \in Keys : TRUE)}

(* Without the events of the last step, which nothing depends on.          *)
WithoutEvents == <<chainVars, clientVars, request, otherOps>>

(* The groups have one capacity, the first group's, and an admin each.  No *)
(* fairness asks for a group to be created, so this takes nothing away     *)
(* from what the fair steps can do.                                        *)
OneSize == \A g \in GroupIds : g < groupCounter => maxTreeSize[g] = maxTreeSize[0]

AdminsDiffer == \A g, h \in 0 .. groupCounter - 1 : admins[g] = admins[h] => g = h

TwoGroupsSpec == Init /\ [][Next /\ OneSize' /\ AdminsDiffer']_vars /\ Fairness
=============================================================================
