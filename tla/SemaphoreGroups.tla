-------------------------- MODULE SemaphoreGroups --------------------------
(***************************************************************************)
(* The abstract contract SemaphoreGroups.sol: every group is a forest of   *)
(* lean incremental Merkle trees, one per subgroup, with the list of each  *)
(* subgroup's members kept beside its tree (the "snapshot").               *)
(*                                                                         *)
(* The internal functions of the contract are actions that constrain the   *)
(* variables of this module only; Semaphore.tla builds the transactions    *)
(* from them.  A transaction that reverts changes nothing and has no       *)
(* action: its condition is the negation of a guard.                       *)
(***************************************************************************)
EXTENDS LeanIMT

CONSTANTS
  Accounts,    (* the addresses that send transactions                     *)
  NoAddress,   (* address(0)                                               *)
  TreeSizes,   (* the values passed as maxTreeSize                         *)
  MaxGroups,   (* bound on the model: groups ever created                  *)
  MaxTrees     (* bound on the model: subgroups of a group                 *)

ASSUME NoAddressSendsNothing == NoAddress \notin Accounts
ASSUME TreeSizesAreNumbers == TreeSizes \subseteq Nat
ASSUME BoundsArePositive == MaxGroups \in Nat \ {0} /\ MaxTrees \in Nat \ {0}

GroupIds == 0 .. MaxGroups - 1
TreeIds  == 0 .. MaxTrees - 1
Addresses == Accounts \cup {NoAddress}

VARIABLES
  merkleTrees,      (* the tree of each subgroup                           *)
  groupTreeCount,   (* how many subgroups a group has; 0: no such group    *)
  maxTreeSize,      (* how many leaves a subgroup takes                    *)
  admins,           (* the group's admin, NoAddress before it is created   *)
  pendingAdmins,    (* the account nominated as next admin, or NoAddress   *)
  globalMembers,    (* whether a leaf is a member of any subgroup at all   *)
  subgroupMembers,  (* the snapshot: the subgroup's leaves in order        *)
  emitted           (* the events logged by the last step                  *)

forestVars == <<merkleTrees, groupTreeCount, globalMembers, subgroupMembers>>
adminVars  == <<admins, pendingAdmins>>
groupsVars == <<forestVars, maxTreeSize, adminVars, emitted>>

Subgroups == GroupIds \X TreeIds

(***************************************************************************)
(* The events of ISemaphoreGroups.sol.  MembersAdded is declared there but *)
(* no function emits it.                                                   *)
(***************************************************************************)
GroupCreated(g) == [event |-> "GroupCreated", groupId |-> g]

GroupAdminUpdated(g, old, new) ==
  [event |-> "GroupAdminUpdated", groupId |-> g, oldAdmin |-> old, newAdmin |-> new]

GroupAdminPending(g, old, new) ==
  [event |-> "GroupAdminPending", groupId |-> g, oldAdmin |-> old, newAdmin |-> new]

MemberAdded(g, t, i, leaf, root) ==
  [event |-> "MemberAdded", groupId |-> g, treeIndex |-> t, index |-> i,
   identityCommitment |-> leaf, merkleTreeRoot |-> root]

MemberUpdated(g, t, i, old, new, root) ==
  [event |-> "MemberUpdated", groupId |-> g, treeIndex |-> t, index |-> i,
   oldIdentityCommitment |-> old, newIdentityCommitment |-> new, merkleTreeRoot |-> root]

MemberRemoved(g, t, i, leaf, root) ==
  [event |-> "MemberRemoved", groupId |-> g, treeIndex |-> t, index |-> i,
   identityCommitment |-> leaf, merkleTreeRoot |-> root]

GroupsInit ==
  /\ merkleTrees     = [s \in Subgroups |-> EmptyTree]
  /\ groupTreeCount  = [g \in GroupIds |-> 0]
  /\ maxTreeSize     = [g \in GroupIds |-> 0]
  /\ admins          = [g \in GroupIds |-> NoAddress]
  /\ pendingAdmins   = [g \in GroupIds |-> NoAddress]
  /\ globalMembers   = [leaf \in Leaves |-> FALSE]
  /\ subgroupMembers = [s \in Subgroups |-> << >>]
  /\ emitted         = << >>

(* Mutant: a group without an admin is open to everybody.                  *)
OpenWithoutAdmin(sender, g) == admins[g] \in {sender, NoAddress}

OnlyGroupAdmin(sender, g) == admins[g] = sender

OnlyExistingGroup(g) == admins[g] # NoAddress

(***************************************************************************)
(* Life cycle of a group.                                                  *)
(***************************************************************************)
(* Mutant: the new group is not given its first subgroup.                  *)
CreateWithoutTree(g, admin, size) ==
  /\ admins'      = [admins EXCEPT ![g] = admin]
  /\ maxTreeSize' = [maxTreeSize EXCEPT ![g] = size]
  /\ emitted'     = <<GroupCreated(g), GroupAdminUpdated(g, NoAddress, admin)>>
  /\ UNCHANGED <<forestVars, pendingAdmins>>

_createGroup(g, admin, size) ==
  /\ admins'         = [admins EXCEPT ![g] = admin]
  /\ maxTreeSize'    = [maxTreeSize EXCEPT ![g] = size]
  /\ groupTreeCount' = [groupTreeCount EXCEPT ![g] = 1]
  /\ emitted'        = <<GroupCreated(g), GroupAdminUpdated(g, NoAddress, admin)>>
  /\ UNCHANGED <<merkleTrees, pendingAdmins, globalMembers, subgroupMembers>>

_updateGroupAdmin(sender, g, newAdmin) ==
  /\ OnlyGroupAdmin(sender, g)
  /\ pendingAdmins' = [pendingAdmins EXCEPT ![g] = newAdmin]
  /\ emitted'       = <<GroupAdminPending(g, sender, newAdmin)>>
  /\ UNCHANGED <<forestVars, maxTreeSize, admins>>

_acceptGroupAdmin(sender, g) ==
  /\ pendingAdmins[g] = sender
  /\ admins'        = [admins EXCEPT ![g] = sender]
  /\ pendingAdmins' = [pendingAdmins EXCEPT ![g] = NoAddress]
  /\ emitted'       = <<GroupAdminUpdated(g, admins[g], sender)>>
  /\ UNCHANGED <<forestVars, maxTreeSize>>

(***************************************************************************)
(* Members.  A new leaf goes to the last subgroup, or opens the next one   *)
(* when the last is full; a subgroup that is not the last is never filled  *)
(* again, so a vacated leaf stays 0 for good.                              *)
(***************************************************************************)
LastTree(g) == groupTreeCount[g] - 1

(* Mutant: a subgroup takes one leaf too many.                             *)
FullTooLate(g) == Size(merkleTrees[<<g, LastTree(g)>>]) > maxTreeSize[g]

LastTreeIsFull(g) == Size(merkleTrees[<<g, LastTree(g)>>]) >= maxTreeSize[g]

TargetTree(g) == IF LastTreeIsFull(g) THEN groupTreeCount[g] ELSE LastTree(g)

(* Mutant: the index is not reset when the next subgroup is opened.        *)
IndexNotReset(g) == Size(merkleTrees[<<g, LastTree(g)>>])

TargetIndex(g) == IF LastTreeIsFull(g) THEN 0 ELSE Size(merkleTrees[<<g, LastTree(g)>>])

_addMember(sender, g, leaf) ==
  /\ OnlyGroupAdmin(sender, g)
  /\ TargetTree(g) \in TreeIds
  /\ LET t    == TargetTree(g)
         i    == TargetIndex(g)
         tree == Insert(merkleTrees[<<g, t>>], leaf)
     IN  /\ Insertable(merkleTrees[<<g, t>>], leaf)
         /\ merkleTrees'     = [merkleTrees EXCEPT ![<<g, t>>] = tree]
         /\ groupTreeCount'  = [groupTreeCount EXCEPT ![g] = t + 1]
         /\ globalMembers'   = [globalMembers EXCEPT ![leaf] = TRUE]
         /\ subgroupMembers' = [subgroupMembers EXCEPT ![<<g, t>>] = Append(@, leaf)]
         /\ emitted'         = <<MemberAdded(g, t, i, leaf, Root(tree))>>
  /\ UNCHANGED <<maxTreeSize, adminVars>>

(* The caller also passes the Merkle path of the leaf.  The library reverts *)
(* unless it leads to the tree's root, so a call made with a path that went *)
(* stale is one more call without effect, and has no action.               *)
(* Mutants: the old member stays flagged; the snapshot is not updated.     *)
UpdateKeepsFlag(sender, g, t, old, new) ==
  /\ OnlyGroupAdmin(sender, g)
  /\ Updatable(merkleTrees[<<g, t>>], old, new)
  /\ LET i    == IndexOf(merkleTrees[<<g, t>>], old)
         tree == Update(merkleTrees[<<g, t>>], old, new)
     IN  /\ merkleTrees'     = [merkleTrees EXCEPT ![<<g, t>>] = tree]
         /\ globalMembers'   = [globalMembers EXCEPT ![new] = TRUE]
         /\ subgroupMembers' = [subgroupMembers EXCEPT ![<<g, t>>][i + 1] = new]
         /\ emitted'         = <<MemberUpdated(g, t, i, old, new, Root(tree))>>
  /\ UNCHANGED <<groupTreeCount, maxTreeSize, adminVars>>

UpdateForgetsSnapshot(sender, g, t, old, new) ==
  /\ OnlyGroupAdmin(sender, g)
  /\ Updatable(merkleTrees[<<g, t>>], old, new)
  /\ LET i    == IndexOf(merkleTrees[<<g, t>>], old)
         tree == Update(merkleTrees[<<g, t>>], old, new)
     IN  /\ merkleTrees'   = [merkleTrees EXCEPT ![<<g, t>>] = tree]
         /\ globalMembers' = [globalMembers EXCEPT ![old] = FALSE, ![new] = TRUE]
         /\ emitted'       = <<MemberUpdated(g, t, i, old, new, Root(tree))>>
  /\ UNCHANGED <<subgroupMembers, groupTreeCount, maxTreeSize, adminVars>>

_updateMember(sender, g, t, old, new) ==
  /\ OnlyGroupAdmin(sender, g)
  /\ Updatable(merkleTrees[<<g, t>>], old, new)
  /\ LET i    == IndexOf(merkleTrees[<<g, t>>], old)
         tree == Update(merkleTrees[<<g, t>>], old, new)
     IN  /\ merkleTrees'     = [merkleTrees EXCEPT ![<<g, t>>] = tree]
         /\ globalMembers'   = [globalMembers EXCEPT ![old] = FALSE, ![new] = TRUE]
         /\ subgroupMembers' = [subgroupMembers EXCEPT ![<<g, t>>][i + 1] = new]
         /\ emitted'         = <<MemberUpdated(g, t, i, old, new, Root(tree))>>
  /\ UNCHANGED <<groupTreeCount, maxTreeSize, adminVars>>

(* Mutant: the leaf is cut out of the snapshot and the rest move up.       *)
RemoveShiftsSnapshot(sender, g, t, leaf) ==
  /\ OnlyGroupAdmin(sender, g)
  /\ Has(merkleTrees[<<g, t>>], leaf)
  /\ LET i      == IndexOf(merkleTrees[<<g, t>>], leaf)
         tree   == Remove(merkleTrees[<<g, t>>], leaf)
         isKept(l) == l # leaf
     IN  /\ merkleTrees'     = [merkleTrees EXCEPT ![<<g, t>>] = tree]
         /\ globalMembers'   = [globalMembers EXCEPT ![leaf] = FALSE]
         /\ subgroupMembers' = [subgroupMembers EXCEPT ![<<g, t>>] = SelectSeq(@, isKept)]
         /\ emitted'         = <<MemberRemoved(g, t, i, leaf, Root(tree))>>
  /\ UNCHANGED <<groupTreeCount, maxTreeSize, adminVars>>

_removeMember(sender, g, t, leaf) ==
  /\ OnlyGroupAdmin(sender, g)
  /\ Has(merkleTrees[<<g, t>>], leaf)
  /\ LET i    == IndexOf(merkleTrees[<<g, t>>], leaf)
         tree == Remove(merkleTrees[<<g, t>>], leaf)
     IN  /\ merkleTrees'     = [merkleTrees EXCEPT ![<<g, t>>] = tree]
         /\ globalMembers'   = [globalMembers EXCEPT ![leaf] = FALSE]
         /\ subgroupMembers' =
              IF i < Len(subgroupMembers[<<g, t>>])
              THEN [subgroupMembers EXCEPT ![<<g, t>>][i + 1] = Zero]
              ELSE subgroupMembers
         /\ emitted'         = <<MemberRemoved(g, t, i, leaf, Root(tree))>>
  /\ UNCHANGED <<groupTreeCount, maxTreeSize, adminVars>>

-----------------------------------------------------------------------------
(* Types of the trees, the snapshots and the flags of the members.         *)
ForestTypeOK ==
  /\ merkleTrees \in [Subgroups -> Tree]
  /\ subgroupMembers \in [Subgroups -> Seq(Leaves)]
  /\ globalMembers \in [Leaves -> BOOLEAN]
=============================================================================
