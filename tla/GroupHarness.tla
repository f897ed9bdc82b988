---------------------------- MODULE GroupHarness ----------------------------
(***************************************************************************)
(* The Group class of packages/group beside the contract.  The contract    *)
(* takes Merkle paths (updateMember, removeMember) and proofs that callers *)
(* make from a Group, so the two must stay in step.                        *)
(*                                                                         *)
(* The methods are the code's.  The harness around them is not: no code of *)
(* the repository applies the contract's events to a Group.  It keeps one  *)
(* Group for every subgroup and calls, for each member event the contract  *)
(* logs, the method that event names, in the same step.  A Group is the    *)
(* list of its leaves; the JavaScript tree under it (@zk-kit/lean-imt)     *)
(* inserts and overwrites whatever it is given.                            *)
(***************************************************************************)
EXTENDS Semaphore, Integers

Seqs == INSTANCE SequencesExt

VARIABLES
  groups,    (* the Group of every subgroup                                *)
  threw      (* whether a method of a Group has thrown                     *)

harnessVars == <<vars, groups, threw>>

-----------------------------------------------------------------------------
(***************************************************************************)
(* The class Group.                                                        *)
(***************************************************************************)
(* The constructor and addMembers refuse a list that has a 0 in it.        *)
Constructible(list) == ~ Seqs!Contains(list, Zero)

indexOf(group, member) == IF Seqs!Contains(group, member)
                          THEN Seqs!SelectInSeq(group, LAMBDA x : x = member) - 1 ELSE -1

GroupRoot(group) == RootOf(group)

CanAdd(member) == member # Zero

GroupAdd(group, member) == Append(group, member)

(* Updating and removing refuse an index whose member has been removed; an *)
(* update to 0 is not refused.                                             *)
(* Mutant: the last leaf is out of bounds.                                 *)
UpdateRefusesLast(group, i) == i \in 0 .. Len(group) - 2 /\ group[i + 1] # Zero

CanUpdate(group, i) == i \in 0 .. Len(group) - 1 /\ group[i + 1] # Zero

(* Mutant: the new member is inserted, and the old one stays.              *)
InsertInstead(group, i, member) == Append(group, member)

GroupUpdate(group, i, member) == [group EXCEPT ![i + 1] = member]

(* Mutant: the leaf is cut out instead of set to 0.                        *)
CutLeaf(group, i) == Seqs!RemoveAt(group, i + 1)

GroupRemove(group, i) == GroupUpdate(group, i, Zero)

-----------------------------------------------------------------------------
(***************************************************************************)
(* The harness.                                                            *)
(***************************************************************************)
EventSubgroup(e) == <<e.groupId, e.treeIndex>>

Accepts(group, e) ==
  CASE e.event = "MemberAdded" -> CanAdd(e.identityCommitment)
    [] OTHER                   -> CanUpdate(group, e.index)

Applied(group, e) ==
  CASE e.event = "MemberAdded"   -> GroupAdd(group, e.identityCommitment)
    [] e.event = "MemberUpdated" -> GroupUpdate(group, e.index, e.newIdentityCommitment)
    [] e.event = "MemberRemoved" -> GroupRemove(group, e.index)

HarnessInit ==
  /\ Init
  /\ groups = [s \in Subgroups |-> << >>]
  /\ threw = FALSE

(* A step logs one member event at most, and nothing else with it.         *)
Speaks == emitted' # << >> /\ emitted'[1].event \in MemberEvents

HarnessNext ==
  /\ ~ threw
  /\ Next
  /\ \/ ~ Speaks /\ UNCHANGED <<groups, threw>>
     \/ /\ Speaks
        /\ LET e == emitted'[1]
               s == EventSubgroup(e)
           IN  IF Accepts(groups[s], e)
               THEN groups' = [groups EXCEPT ![s] = Applied(@, e)] /\ UNCHANGED threw
               ELSE threw' = TRUE /\ UNCHANGED groups

HarnessSpec == HarnessInit /\ [][HarnessNext]_harnessVars

-----------------------------------------------------------------------------
(***************************************************************************)
(* Properties.                                                             *)
(***************************************************************************)

(* The root a Group computes (group/src/index.ts:42) is the root of the    *)
(* contract's tree for the subgroup, in the middle of a batch too, and the *)
(* one that the event reported: a path or a proof made from it is for a    *)
(* root the contract has.                                                  *)
GroupRootIsOnChain ==
  ~ threw =>
    /\ \A s \in Subgroups : GroupRoot(groups[s]) = Root(merkleTrees[s])
    /\ \A i \in DOMAIN emitted : emitted[i].event \in MemberEvents =>
         GroupRoot(groups[EventSubgroup(emitted[i])]) = emitted[i].merkleTreeRoot

(* No method throws on the events in their order: the contract never       *)
(* reports an index that Group refuses, after updates to 0 as little as    *)
(* after removals.                                                         *)
GroupNeverThrows == ~ threw

(* No commitment has two places in a Group, so the first that indexOf      *)
(* finds is the only one, and it is the place the contract's tree has for  *)
(* the member.  (indexOf gives generateProof the member's path, and the    *)
(* contract keeps its places in a map.)                                    *)
PlacesAreUnique ==
  \A s \in Subgroups, c \in Commitments :
    /\ \A i, j \in DOMAIN groups[s] : groups[s][i] = c /\ groups[s][j] = c => i = j
    /\ ~ threw => indexOf(groups[s], c) = IndexOf(merkleTrees[s], c)

(* SemaphoreGroups.sol:8 keeps the snapshot "pour permettre aux clients de *)
(* reconstruire l'arbre off-chain": new Group(getSubgroupMembers(g, t))    *)
(* should not throw.                                                       *)
SnapshotRebuilds == \A s \in Subgroups : Constructible(subgroupMembers[s])
=============================================================================
