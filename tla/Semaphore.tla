----------------------------- MODULE Semaphore -----------------------------
(***************************************************************************)
(* The contract Semaphore.sol, whose transactions the chain executes one   *)
(* at a time, and the proofs that members make off-chain and submit to it. *)
(*                                                                         *)
(* Each public function is an action; sender is msg.sender.  An early      *)
(* return is an action that logs nothing and changes nothing, a revert is  *)
(* no action.  addMembers loops over its calldata: `batch' is the frame of *)
(* that call, and no other transaction runs while it is open.              *)
(***************************************************************************)
EXTENDS SemaphoreGroups, FiniteSets

CONSTANTS
  Scopes,        (* the scopes proofs are made for                         *)
  Messages,      (* the messages they carry                                *)
  Durations,     (* values of merkleTreeDuration                           *)
  OneHour,       (* the duration a new group starts with                   *)
  Depths,        (* tree depths a prover asks for                          *)
  MaxBatch,      (* bound on the model: length of the list to addMembers   *)
  MaxProofs      (* bound on the model: proofs ever generated              *)

ASSUME DurationsAreNumbers == Durations \subseteq Nat /\ OneHour \in Durations
ASSUME DepthsAreNumbers == Depths \subseteq Nat

VARIABLES
  groupCounter,        (* the next group id                                *)
  merkleTreeDuration,  (* groups[g].merkleTreeDuration                     *)
  currentTreeIndex,    (* groups[g].currentTreeIndex                       *)
  globalMerkleRoot,    (* groups[g].globalMerkleRoot                       *)
  nullifiers,          (* groups[g].nullifiers: the ones already used      *)
  batch,               (* the open call of addMembers, or NoBatch          *)
  proofs,              (* the proofs generated off-chain so far            *)
  accepted             (* history: what validateProof has accepted         *)

configVars == <<groupCounter, merkleTreeDuration, currentTreeIndex>>
proofVars  == <<nullifiers, proofs, accepted>>
vars == <<groupsVars, configVars, globalMerkleRoot, batch, proofVars>>

(* The root 0 a group is created with, the hash of no subtree.             *)
NoRoot == << >>

NoBatch == [sender |-> NoAddress, groupId |-> 0, todo |-> << >>]

Idle == batch.sender = NoAddress

Init ==
  /\ GroupsInit
  /\ groupCounter       = 0
  /\ merkleTreeDuration = [g \in GroupIds |-> 0]
  /\ currentTreeIndex   = [g \in GroupIds |-> 0]
  /\ globalMerkleRoot   = [g \in GroupIds |-> NoRoot]
  /\ nullifiers         = [g \in GroupIds |-> {}]
  /\ batch              = NoBatch
  /\ proofs             = {}
  /\ accepted           = << >>

(***************************************************************************)
(* Groups.                                                                 *)
(***************************************************************************)
(* The overloads let the admin default to msg.sender and the size to 1024. *)
createGroup ==
  \E admin \in Addresses, size \in TreeSizes :
    /\ Idle
    /\ groupCounter \in GroupIds
    /\ _createGroup(groupCounter, admin, size)
    /\ groupCounter'       = groupCounter + 1
    /\ merkleTreeDuration' = [merkleTreeDuration EXCEPT ![groupCounter] = OneHour]
    /\ currentTreeIndex'   = [currentTreeIndex EXCEPT ![groupCounter] = 0]
    /\ globalMerkleRoot'   = [globalMerkleRoot EXCEPT ![groupCounter] = NoRoot]
    /\ UNCHANGED <<batch, proofVars>>

updateGroupAdmin(sender) ==
  \E g \in GroupIds, newAdmin \in Addresses :
    /\ Idle
    /\ _updateGroupAdmin(sender, g, newAdmin)
    /\ UNCHANGED <<configVars, globalMerkleRoot, batch, proofVars>>

acceptGroupAdmin(sender) ==
  \E g \in GroupIds :
    /\ Idle
    /\ _acceptGroupAdmin(sender, g)
    /\ UNCHANGED <<configVars, globalMerkleRoot, batch, proofVars>>

GroupMerkleTreeDurationUpdated(g, old, new) ==
  [event |-> "GroupMerkleTreeDurationUpdated", groupId |-> g,
   oldMerkleTreeDuration |-> old, newMerkleTreeDuration |-> new]

updateGroupMerkleTreeDuration(sender) ==
  \E g \in GroupIds, duration \in Durations :
    /\ Idle
    /\ OnlyGroupAdmin(sender, g)
    /\ merkleTreeDuration' = [merkleTreeDuration EXCEPT ![g] = duration]
    /\ emitted' = <<GroupMerkleTreeDurationUpdated(g, merkleTreeDuration[g], duration)>>
    /\ UNCHANGED <<forestVars, maxTreeSize, adminVars, groupCounter, currentTreeIndex,
                   globalMerkleRoot, batch, proofVars>>

(***************************************************************************)
(* Members.  _updateGlobalRoot hashes the roots of the trees 0 up to       *)
(* currentTreeIndex; Poseidon being injective, the hash is that list of    *)
(* roots.                                                                  *)
(***************************************************************************)
CombinedRoot(trees, g) == [t \in 0 .. currentTreeIndex[g] |-> Root(trees[<<g, t>>])]

_updateGlobalRoot(g) ==
  globalMerkleRoot' = [globalMerkleRoot EXCEPT ![g] = CombinedRoot(merkleTrees', g)]

ReturnEarly ==
  /\ Idle
  /\ emitted' = << >>
  /\ UNCHANGED <<forestVars, maxTreeSize, adminVars, configVars, globalMerkleRoot,
                 batch, proofVars>>

(* Mutant: only the tree itself refuses a member it already has.           *)
AddWithoutGlobalCheck(sender) ==
  \E g \in GroupIds, leaf \in Leaves :
    /\ Idle
    /\ _addMember(sender, g, leaf)
    /\ _updateGlobalRoot(g)
    /\ UNCHANGED <<configVars, batch, proofVars>>

addMember(sender) ==
  \E g \in GroupIds, leaf \in Leaves :
    \/ globalMembers[leaf] /\ ReturnEarly
    \/ /\ Idle
       /\ ~ globalMembers[leaf]
       /\ _addMember(sender, g, leaf)
       /\ _updateGlobalRoot(g)
       /\ UNCHANGED <<configVars, batch, proofVars>>

(* A call that would revert half way leaves no trace, so it is not begun:  *)
(* only the admin gets newcomers in, and 0 is not one.  RoomFor keeps the  *)
(* forest within the bound MaxTrees.                                       *)
Newcomers(list) == {leaf \in Leaves : ~ globalMembers[leaf] /\ \E i \in 1 .. Len(list) : list[i] = leaf}

RoomFor(g, number) ==
  LET unopened == (MaxTrees - groupTreeCount[g]) * (IF maxTreeSize[g] = 0 THEN 1 ELSE maxTreeSize[g])
      inLast   == IF LastTreeIsFull(g) THEN 0 ELSE maxTreeSize[g] - TargetIndex(g)
  IN  number <= unopened + inLast

addMembersBegin(sender) ==
  \E g \in GroupIds, n \in 0 .. MaxBatch : \E list \in [1 .. n -> Leaves] :
    /\ Idle
    /\ Zero \notin Newcomers(list)
    /\ Newcomers(list) # {} => /\ OnlyGroupAdmin(sender, g)
                              /\ RoomFor(g, Cardinality(Newcomers(list)))
    /\ batch'   = [sender |-> sender, groupId |-> g, todo |-> list]
    /\ emitted' = << >>
    /\ UNCHANGED <<forestVars, maxTreeSize, adminVars, configVars, globalMerkleRoot,
                   proofVars>>

addMembersSkip ==
  /\ ~ Idle
  /\ batch.todo # << >>
  /\ globalMembers[Head(batch.todo)]
  /\ batch' = [batch EXCEPT !.todo = Tail(@)]
  /\ emitted' = << >>
  /\ UNCHANGED <<forestVars, maxTreeSize, adminVars, configVars, globalMerkleRoot,
                 proofVars>>

addMembersStep ==
  /\ ~ Idle
  /\ batch.todo # << >>
  /\ ~ globalMembers[Head(batch.todo)]
  /\ _addMember(batch.sender, batch.groupId, Head(batch.todo))
  /\ batch' = [batch EXCEPT !.todo = Tail(@)]
  /\ UNCHANGED <<configVars, globalMerkleRoot, proofVars>>

addMembersEnd ==
  /\ ~ Idle
  /\ batch.todo = << >>
  /\ batch' = NoBatch
  /\ emitted' = << >>
  /\ UNCHANGED <<forestVars, maxTreeSize, adminVars, configVars, proofVars>>
  /\ _updateGlobalRoot(batch.groupId)

(* Mutant: the new leaf may be a member of another subgroup.               *)
UpdateWithoutGlobalCheck(sender) ==
  \E g \in GroupIds, t \in TreeIds, old \in Commitments, new \in Leaves :
    /\ Idle
    /\ _updateMember(sender, g, t, old, new)
    /\ _updateGlobalRoot(g)
    /\ UNCHANGED <<configVars, batch, proofVars>>

updateMember(sender) ==
  \E g \in GroupIds, t \in TreeIds, old \in Commitments, new \in Leaves :
    \/ globalMembers[new] /\ ReturnEarly
    \/ /\ Idle
       /\ ~ globalMembers[new]
       /\ _updateMember(sender, g, t, old, new)
       /\ _updateGlobalRoot(g)
       /\ UNCHANGED <<configVars, batch, proofVars>>

(* Mutant: the global root is not computed again.                          *)
RemoveKeepsGlobalRoot(sender) ==
  \E g \in GroupIds, t \in TreeIds, leaf \in Commitments :
    /\ Idle
    /\ _removeMember(sender, g, t, leaf)
    /\ UNCHANGED <<configVars, globalMerkleRoot, batch, proofVars>>

removeMember(sender) ==
  \E g \in GroupIds, t \in TreeIds, leaf \in Commitments :
    /\ Idle
    /\ _removeMember(sender, g, t, leaf)
    /\ _updateGlobalRoot(g)
    /\ UNCHANGED <<configVars, batch, proofVars>>

(***************************************************************************)
(* Proofs.  A member makes a proof off-chain from the members list it can  *)
(* see and sends it in a transaction later, when the subgroup may have     *)
(* changed.  A proof is taken with its witness, which nobody sees: the     *)
(* signer, an identity named by its commitment, and the list of members    *)
(* its Merkle path is from.  A Group that followed the removals holds 0 at *)
(* the vacated leaves, so its root is the tree's.  A depth short of the    *)
(* signer's path yields no proof that verifies; the model lets it pass.    *)
(***************************************************************************)
MIN_DEPTH == 1
MAX_DEPTH == 32

(* The hash of the scope and the signer's secret.                          *)
Nullifier(scope, c) == <<scope, c>>

MerkleTreeRoot(p) == RootOf(p.members)

generateProof ==
  \E c \in Identities, s \in Subgroups, message \in Messages, scope \in Scopes, depth \in Depths :
    LET members == subgroupMembers[s]
    IN  /\ Idle
        /\ Cardinality(proofs) < MaxProofs
        /\ \E i \in 1 .. Len(members) : members[i] = c
        /\ depth \in MIN_DEPTH .. MAX_DEPTH
        /\ proofs' = proofs \cup
             {[ signer          |-> c,
                members         |-> members,
                merkleTreeDepth |-> depth,
                nullifier       |-> Nullifier(scope, c),
                message         |-> message,
                scope           |-> scope ]}
        /\ emitted' = << >>
        /\ UNCHANGED <<forestVars, maxTreeSize, adminVars, configVars, globalMerkleRoot,
                       batch, nullifiers, accepted>>

(* What the circuit proves, and the verifier contract checks: the signer's *)
(* commitment is a leaf of a tree with that root, and the nullifier is the *)
(* signer's for the scope.  Neither the group nor the subgroup is part of  *)
(* the statement.                                                          *)
SemaphoreCircuit(p) ==
  /\ \E i \in DOMAIN p.members : p.members[i] = p.signer
  /\ p.nullifier = Nullifier(p.scope, p.signer)

(* groups[g].merkleRootCreationDates: nothing writes it.                   *)
MerkleRootCreationDate(g, root) == 0

(* Mutant: the root is not compared with the subgroup's.                   *)
VerifyAnyRoot(g, t, p) ==
  /\ OnlyExistingGroup(g)
  /\ p.merkleTreeDepth \in MIN_DEPTH .. MAX_DEPTH
  /\ Size(merkleTrees[<<g, t>>]) # 0
  /\ SemaphoreCircuit(p)

(* A root other than the current one would also have to be younger than    *)
(* merkleTreeDuration; with no creation date that test is never reached.   *)
verifyProof(g, t, p) ==
  /\ OnlyExistingGroup(g)
  /\ p.merkleTreeDepth \in MIN_DEPTH .. MAX_DEPTH
  /\ Size(merkleTrees[<<g, t>>]) # 0
  /\ MerkleTreeRoot(p) # Root(merkleTrees[<<g, t>>]) =>
       MerkleRootCreationDate(g, MerkleTreeRoot(p)) # 0
  /\ SemaphoreCircuit(p)

ProofValidated(g, t, p) ==
  [event |-> "ProofValidated", groupId |-> g, treeIndex |-> t,
   merkleTreeDepth |-> p.merkleTreeDepth, merkleTreeRoot |-> MerkleTreeRoot(p),
   nullifier |-> p.nullifier, message |-> p.message, scope |-> p.scope]

(* Mutant: the nullifier is not recorded.                                  *)
ValidateForgetsNullifier ==
  \E g \in GroupIds, t \in TreeIds, p \in proofs :
    /\ Idle
    /\ p.nullifier \notin nullifiers[g]
    /\ verifyProof(g, t, p)
    /\ accepted' = Append(accepted, [groupId |-> g, treeIndex |-> t, proof |-> p])
    /\ emitted'  = <<ProofValidated(g, t, p)>>
    /\ UNCHANGED <<forestVars, maxTreeSize, adminVars, configVars, globalMerkleRoot,
                   batch, nullifiers, proofs>>

validateProof ==
  \E g \in GroupIds, t \in TreeIds, p \in proofs :
    /\ Idle
    /\ p.nullifier \notin nullifiers[g]
    /\ verifyProof(g, t, p)
    /\ nullifiers' = [nullifiers EXCEPT ![g] = @ \cup {p.nullifier}]
    /\ accepted'   = Append(accepted, [groupId |-> g, treeIndex |-> t, proof |-> p])
    /\ emitted'    = <<ProofValidated(g, t, p)>>
    /\ UNCHANGED <<forestVars, maxTreeSize, adminVars, configVars, globalMerkleRoot,
                   batch, proofs>>

Next ==
  \/ createGroup
  \/ addMembersSkip \/ addMembersStep \/ addMembersEnd
  \/ generateProof \/ validateProof
  \/ \E sender \in Accounts :
       \/ updateGroupAdmin(sender) \/ acceptGroupAdmin(sender)
       \/ updateGroupMerkleTreeDuration(sender)
       \/ addMember(sender) \/ addMembersBegin(sender)
       \/ updateMember(sender) \/ removeMember(sender)

Spec == Init /\ [][Next]_vars

-----------------------------------------------------------------------------
(***************************************************************************)
(* Properties.                                                             *)
(***************************************************************************)
Proof == [ signer : Identities, members : Seq(Leaves),
           merkleTreeDepth : MIN_DEPTH .. MAX_DEPTH,
           nullifier : Scopes \X Identities, message : Messages, scope : Scopes ]

Acceptance == [groupId : GroupIds, treeIndex : TreeIds, proof : Proof]

(* A group has a subgroup from the transaction that creates it.            *)
GroupTypeOK ==
  /\ groupTreeCount \in [GroupIds -> 0 .. MaxTrees]
  /\ maxTreeSize \in [GroupIds -> TreeSizes \cup {0}]
  /\ admins \in [GroupIds -> Addresses]
  /\ pendingAdmins \in [GroupIds -> Addresses]
  /\ groupCounter \in 0 .. MaxGroups
  /\ \A g \in GroupIds : groupTreeCount[g] = 0 <=> g >= groupCounter

RootTypeOK ==
  /\ merkleTreeDuration \in [GroupIds -> Durations \cup {0}]
  /\ currentTreeIndex \in [GroupIds -> TreeIds]
  /\ DOMAIN globalMerkleRoot = GroupIds
  /\ \A g \in GroupIds :
       globalMerkleRoot[g] = NoRoot \/ DOMAIN globalMerkleRoot[g] = 0 .. currentTreeIndex[g]

SignalTypeOK ==
  /\ nullifiers \in [GroupIds -> SUBSET (Scopes \X Identities)]
  /\ proofs \subseteq Proof
  /\ accepted \in Seq(Acceptance)

(* Every variable has its type, in every step of every transaction.        *)
TypeOK ==
  /\ ForestTypeOK
  /\ GroupTypeOK
  /\ RootTypeOK
  /\ SignalTypeOK
  /\ batch \in [sender : Addresses, groupId : GroupIds, todo : Seq(Leaves)]
  /\ \A i \in DOMAIN emitted : emitted[i].groupId \in GroupIds

Positions(s) == 1 .. Len(subgroupMembers[s])

(* globalMembers is a cache of what the whole forest holds: a commitment   *)
(* is flagged exactly while some subgroup of some group has it as a leaf,  *)
(* whatever additions, updates and removals have been made in between.     *)
GlobalMembersExact ==
  \A c \in Commitments :
    globalMembers[c] <=> \E s \in Subgroups : \E i \in Positions(s) : subgroupMembers[s][i] = c

(* "évite doublons inter-sous-groupes": no commitment is a leaf twice, in  *)
(* one subgroup or in two, of one group or of two.                         *)
NoDuplicateMember ==
  \A s1, s2 \in Subgroups : \A i \in Positions(s1), j \in Positions(s2) :
    subgroupMembers[s1][i] = subgroupMembers[s2][j] /\ subgroupMembers[s1][i] # Zero
      => s1 = s2 /\ i = j

(* The snapshot that clients rebuild a subgroup from lists the very leaves *)
(* of its tree, and the tree's own index of a leaf is its place in it.     *)
SnapshotMatchesTree ==
  \A s \in Subgroups :
    /\ subgroupMembers[s] = merkleTrees[s].nodes
    /\ \A c \in Commitments, i \in Positions(s) :
         subgroupMembers[s][i] = c <=> merkleTrees[s].leaves[c] = i

(* A subgroup is opened only when the one before is full, holds at most    *)
(* maxTreeSize leaves (one when that is 0) and has none before it is open. *)
ForestShape ==
  \A g \in GroupIds, t \in TreeIds :
    LET size == Len(subgroupMembers[<<g, t>>])
    IN  /\ t < groupTreeCount[g] - 1 => size >= maxTreeSize[g]
        /\ t >= groupTreeCount[g] => size = 0
        /\ size <= maxTreeSize[g] \/ size = 1

(* Between two transactions the global root is the hash over the current   *)
(* roots of the subtrees it covers, or 0 when they have never had a leaf.  *)
GlobalRootCurrent ==
  Idle => \A g \in GroupIds :
    \/ globalMerkleRoot[g] = CombinedRoot(merkleTrees, g)
    \/ globalMerkleRoot[g] = NoRoot /\ subgroupMembers[<<g, 0>>] = << >>

(* A group that nobody administers (never created, or created for          *)
(* address(0)) has no member and no nominated admin: every way in asks for *)
(* the admin.                                                              *)
OrphanGroupsStayEmpty ==
  \A g \in GroupIds : admins[g] = NoAddress =>
    /\ pendingAdmins[g] = NoAddress
    /\ \A t \in TreeIds : subgroupMembers[<<g, t>>] = << >>

(* In a group, a signer has at most one accepted signal per scope, even    *)
(* after being removed, re-added or moved to another subgroup.             *)
OneSignalPerScope ==
  \A i, j \in DOMAIN accepted :
    /\ accepted[i].groupId = accepted[j].groupId
    /\ accepted[i].proof.signer = accepted[j].proof.signer
    /\ accepted[i].proof.scope = accepted[j].proof.scope
    => i = j

(* The roots tell two subgroups apart only as long as the admins enrol     *)
(* identities: a leaf that is the hash of two nodes can make the root of   *)
(* one list of leaves that of another.                                     *)
OnlyIdentities(s) == \A i \in Positions(s) : subgroupMembers[s][i] \in Identities \cup {Zero}

(* A proof names neither group nor subgroup, yet no proof ever verifies    *)
(* for two subgroups of identities at once: their roots differ, because no *)
(* commitment is in two of them.                                           *)
ProofFitsOneSubgroup ==
  \A p \in proofs : \A s1, s2 \in Subgroups :
    /\ OnlyIdentities(s1) /\ OnlyIdentities(s2)
    /\ verifyProof(s1[1], s1[2], p) /\ verifyProof(s2[1], s2[2], p)
    => s1 = s2

MemberEvents == {"MemberAdded", "MemberUpdated", "MemberRemoved"}

LeafTold(e) ==
  CASE e.event = "MemberAdded"   -> e.identityCommitment
    [] e.event = "MemberUpdated" -> e.newIdentityCommitment
    [] e.event = "MemberRemoved" -> Zero

MembersTold(e) ==
  LET s     == <<e.groupId, e.treeIndex>>
      known == subgroupMembers[s]
      told  == [i \in DOMAIN known \cup {e.index + 1} |->
                  IF i = e.index + 1 THEN LeafTold(e) ELSE known[i]]
  IN  [subgroupMembers EXCEPT ![s] = told]

(* The events of each step tell all that it does to the members: applying  *)
(* them to a copy of the old lists, at the subgroup and index they name,   *)
(* gives the new lists, and their root is the new root.                    *)
EventsTellMembers ==
  [][ LET told == {e \in {emitted'[i] : i \in DOMAIN emitted'} : e.event \in MemberEvents}
      IN  IF told = {} THEN UNCHANGED subgroupMembers
          ELSE \E e \in told :
                 /\ subgroupMembers' = MembersTold(e)
                 /\ e.merkleTreeRoot = Root(merkleTrees[<<e.groupId, e.treeIndex>>])'
    ]_<<subgroupMembers, emitted>>

(* What validateProof accepts for a subgroup of identities comes from      *)
(* someone who is, at that moment, a member of it, whatever list of        *)
(* members, of this subgroup or another, the proof was made from.          *)
AcceptedSignerIsMember ==
  [][ \A k \in Len(accepted) + 1 .. Len(accepted') :
        LET a == accepted'[k]
            s == <<a.groupId, a.treeIndex>>
        IN  OnlyIdentities(s) =>
              /\ globalMembers[a.proof.signer]
              /\ \E i \in Positions(s) : subgroupMembers[s][i] = a.proof.signer
    ]_accepted

-----------------------------------------------------------------------------
(***************************************************************************)
(* What the interface says and the code does not do.                       *)
(***************************************************************************)

(* ISemaphore.sol: globalMerkleRoot is the "racine globale (Poseidon hash  *)
(* des sous-arbres)".  It should cover every subgroup that has been opened.*)
GlobalRootCoversForest ==
  Idle => \A g \in GroupIds : g < groupCounter =>
    \/ globalMerkleRoot[g] = NoRoot
    \/ globalMerkleRoot[g] =
         [t \in 0 .. groupTreeCount[g] - 1 |-> Root(merkleTrees[<<g, t>>])]

(* ISemaphore.sol: isGlobalMember tells "si un identityCommitment existe   *)
(* globalement".  What it says yes to should be in some subgroup's tree.   *)
FlaggedIsInSomeTree ==
  \A leaf \in Leaves : globalMembers[leaf] =>
    \E s \in Subgroups : Has(merkleTrees[s], leaf)
=============================================================================
