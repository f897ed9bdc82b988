-------------------------- MODULE SemaphoreProofs --------------------------
(***************************************************************************)
(* Theorems about Semaphore, for any number of groups, subgroups, accounts *)
(* and commitments.                                                        *)
(***************************************************************************)
EXTENDS Semaphore, SemaphoreGroupsProofs, SequenceTheorems

-----------------------------------------------------------------------------
(***************************************************************************)
(* The inductive invariant.  To the types it adds the forest's invariant,  *)
(* and that only a group that was created has an admin, present or to be:  *)
(* without that the first subgroup of a group could be opened twice.       *)
(***************************************************************************)
AdminsHaveGroups ==
  \A g \in GroupIds :
    admins[g] # NoAddress \/ pendingAdmins[g] # NoAddress => groupTreeCount[g] # 0

IInv == TypeOK /\ ForestInv /\ AdminsHaveGroups

BatchTypeOK == batch \in [sender : Addresses, groupId : GroupIds, todo : Seq(Leaves)]

EmittedTypeOK == \A i \in DOMAIN emitted : emitted[i].groupId \in GroupIds

(* The global root that _updateGlobalRoot writes is a list of roots.       *)
LEMMA UpdateGlobalRootType ==
  ASSUME RootTypeOK, NEW g \in GroupIds, _updateGlobalRoot(g), UNCHANGED configVars
  PROVE  RootTypeOK'
<1>1. DOMAIN CombinedRoot(merkleTrees', g) = 0 .. currentTreeIndex[g]
  BY DEF CombinedRoot
<1> QED
  BY <1>1 DEF RootTypeOK, _updateGlobalRoot, configVars

(* The initial state.                                                      *)
LEMMA InitEstablishes == Init => IInv
<1> SUFFICES ASSUME Init
             PROVE  IInv
  OBVIOUS
<1> USE DEF Init, GroupsInit
<1>1. ForestInv
  BY EmptyForest
<1>2. GroupTypeOK
  BY BoundsArePositive DEF GroupTypeOK, GroupIds, Addresses
<1>3. RootTypeOK
  BY BoundsArePositive DEF RootTypeOK, GroupIds, TreeIds
<1>4. SignalTypeOK
  BY DEF SignalTypeOK
<1>5. BatchTypeOK /\ EmittedTypeOK
  BY BoundsArePositive DEF BatchTypeOK, EmittedTypeOK, NoBatch, Addresses, GroupIds
<1>6. AdminsHaveGroups
  BY DEF AdminsHaveGroups
<1> QED
  BY <1>1, <1>2, <1>3, <1>4, <1>5, <1>6
  DEF IInv, ForestInv, TypeOK, BatchTypeOK, EmittedTypeOK

-----------------------------------------------------------------------------
(***************************************************************************)
(* The steps.  A transaction on members has its forest part proved above;  *)
(* what is left is the count of subgroups and the global root.             *)
(***************************************************************************)
LEMMA AddMemberKeepsGroups ==
  ASSUME GroupTypeOK, AdminsHaveGroups, NEW sender, sender # NoAddress,
         NEW g \in GroupIds, NEW leaf, _addMember(sender, g, leaf), UNCHANGED groupCounter
  PROVE  GroupTypeOK' /\ AdminsHaveGroups' /\ EmittedTypeOK'
<1>1. PICK t \in TreeIds :
        /\ groupTreeCount' = [groupTreeCount EXCEPT ![g] = t + 1]
        /\ \E i, root : emitted' = <<MemberAdded(g, t, i, leaf, root)>>
  BY DEF _addMember
<1>2. groupTreeCount[g] # 0
  BY DEF _addMember, OnlyGroupAdmin, AdminsHaveGroups
<1>3. t + 1 \in 1 .. MaxTrees
  BY BoundsArePositive DEF TreeIds
<1>4. GroupTypeOK'
  BY <1>1, <1>2, <1>3 DEF GroupTypeOK, _addMember, adminVars, GroupIds
<1>5. AdminsHaveGroups'
  BY <1>1, <1>3 DEF GroupTypeOK, AdminsHaveGroups, _addMember, adminVars
<1> QED
  BY <1>1, <1>4, <1>5 DEF EmittedTypeOK, MemberAdded

(* A step that changes neither groups nor roots nor signals.               *)
LEMMA GroupsUnchanged ==
  /\ GroupTypeOK /\ UNCHANGED <<groupTreeCount, maxTreeSize, adminVars, groupCounter>>
       => GroupTypeOK'
  /\ AdminsHaveGroups /\ UNCHANGED <<groupTreeCount, adminVars>> => AdminsHaveGroups'
  /\ RootTypeOK /\ UNCHANGED <<merkleTreeDuration, currentTreeIndex, globalMerkleRoot>>
       => RootTypeOK'
  /\ SignalTypeOK /\ UNCHANGED proofVars => SignalTypeOK'
BY DEF GroupTypeOK, AdminsHaveGroups, RootTypeOK, SignalTypeOK, adminVars, proofVars

(* Transactions on groups.                                                 *)
LEMMA CreateGroupKeeps == IInv /\ createGroup => IInv'
<1> SUFFICES ASSUME IInv, NEW admin \in Addresses, NEW size \in TreeSizes, Idle,
                    groupCounter \in GroupIds,
                    _createGroup(groupCounter, admin, size),
                    groupCounter' = groupCounter + 1,
                    merkleTreeDuration' = [merkleTreeDuration EXCEPT ![groupCounter] = OneHour],
                    currentTreeIndex' = [currentTreeIndex EXCEPT ![groupCounter] = 0],
                    globalMerkleRoot' = [globalMerkleRoot EXCEPT ![groupCounter] = NoRoot],
                    UNCHANGED <<batch, proofVars>>
             PROVE  IInv'
  BY DEF createGroup
<1>1. ForestInv'
  BY ForestUnchanged DEF IInv, _createGroup
<1>2. GroupTypeOK'
  BY BoundsArePositive DEF IInv, TypeOK, GroupTypeOK, _createGroup, GroupIds, Addresses
<1>3. AdminsHaveGroups'
  BY DEF IInv, TypeOK, GroupTypeOK, AdminsHaveGroups, _createGroup
<1>4. RootTypeOK'
  BY BoundsArePositive, DurationsAreNumbers DEF IInv, TypeOK, RootTypeOK, TreeIds
<1>5. SignalTypeOK' /\ BatchTypeOK'
  BY GroupsUnchanged DEF IInv, TypeOK, BatchTypeOK
<1>6. EmittedTypeOK'
  BY DEF _createGroup, EmittedTypeOK, GroupCreated, GroupAdminUpdated
<1> QED
  BY <1>1, <1>2, <1>3, <1>4, <1>5, <1>6 DEF IInv, ForestInv, TypeOK, BatchTypeOK, EmittedTypeOK

LEMMA AdminStepsKeep ==
  ASSUME IInv, NEW sender \in Accounts,
         updateGroupAdmin(sender) \/ acceptGroupAdmin(sender) \/ updateGroupMerkleTreeDuration(sender)
  PROVE  IInv'
<1> USE NoAddressSendsNothing
<1>1. CASE updateGroupAdmin(sender)
  <2>1. PICK g \in GroupIds, newAdmin \in Addresses :
          /\ _updateGroupAdmin(sender, g, newAdmin)
          /\ UNCHANGED <<configVars, globalMerkleRoot, batch, proofVars>>
    BY <1>1 DEF updateGroupAdmin
  <2>2. ForestInv' /\ RootTypeOK' /\ SignalTypeOK' /\ BatchTypeOK'
    BY <2>1, ForestUnchanged, GroupsUnchanged
    DEF forestVars, IInv, TypeOK, _updateGroupAdmin, BatchTypeOK, configVars
  <2>3. GroupTypeOK' /\ AdminsHaveGroups' /\ EmittedTypeOK'
    BY <2>1 DEF IInv, TypeOK, GroupTypeOK, AdminsHaveGroups, EmittedTypeOK, _updateGroupAdmin,
                GroupAdminPending, OnlyGroupAdmin, configVars, forestVars
  <2> QED
    BY <2>2, <2>3 DEF IInv, ForestInv, TypeOK, BatchTypeOK, EmittedTypeOK
<1>2. CASE acceptGroupAdmin(sender)
  <2>1. PICK g \in GroupIds :
          /\ _acceptGroupAdmin(sender, g)
          /\ UNCHANGED <<configVars, globalMerkleRoot, batch, proofVars>>
    BY <1>2 DEF acceptGroupAdmin
  <2>2. ForestInv' /\ RootTypeOK' /\ SignalTypeOK' /\ BatchTypeOK'
    BY <2>1, ForestUnchanged, GroupsUnchanged
    DEF forestVars, IInv, TypeOK, _acceptGroupAdmin, BatchTypeOK, configVars
  <2>3. GroupTypeOK' /\ AdminsHaveGroups' /\ EmittedTypeOK'
    BY <2>1 DEF IInv, TypeOK, GroupTypeOK, AdminsHaveGroups, EmittedTypeOK, _acceptGroupAdmin,
                GroupAdminUpdated, Addresses, configVars, forestVars
  <2> QED
    BY <2>2, <2>3 DEF IInv, ForestInv, TypeOK, BatchTypeOK, EmittedTypeOK
<1>3. CASE updateGroupMerkleTreeDuration(sender)
  <2>1. PICK g \in GroupIds, duration \in Durations :
          /\ merkleTreeDuration' = [merkleTreeDuration EXCEPT ![g] = duration]
          /\ emitted' = <<GroupMerkleTreeDurationUpdated(g, merkleTreeDuration[g], duration)>>
          /\ UNCHANGED <<forestVars, maxTreeSize, adminVars, groupCounter, currentTreeIndex,
                         globalMerkleRoot, batch, proofVars>>
    BY <1>3 DEF updateGroupMerkleTreeDuration
  <2>2. ForestInv' /\ GroupTypeOK' /\ AdminsHaveGroups' /\ SignalTypeOK' /\ BatchTypeOK'
    BY <2>1, ForestUnchanged, GroupsUnchanged DEF IInv, TypeOK, forestVars, BatchTypeOK
  <2>3. RootTypeOK' /\ EmittedTypeOK'
    BY <2>1 DEF IInv, TypeOK, RootTypeOK, EmittedTypeOK, GroupMerkleTreeDurationUpdated
  <2> QED
    BY <2>2, <2>3 DEF IInv, ForestInv, TypeOK, BatchTypeOK, EmittedTypeOK
<1> QED
  BY <1>1, <1>2, <1>3

(* A step that logs nothing and leaves groups, roots and signals alone.    *)
LEMMA QuietStepKeeps ==
  ASSUME IInv, emitted' = << >>,
         UNCHANGED <<forestVars, maxTreeSize, adminVars, configVars, globalMerkleRoot>>,
         SignalTypeOK', BatchTypeOK'
  PROVE  IInv'
<1>1. ForestInv' /\ GroupTypeOK' /\ AdminsHaveGroups' /\ RootTypeOK'
  BY ForestUnchanged, GroupsUnchanged DEF IInv, TypeOK, forestVars, configVars
<1>2. EmittedTypeOK'
  BY DEF EmittedTypeOK
<1> QED
  BY <1>1, <1>2 DEF IInv, ForestInv, TypeOK, BatchTypeOK, EmittedTypeOK

LEMMA ReturnEarlyKeeps == IInv /\ ReturnEarly => IInv'
BY QuietStepKeeps, GroupsUnchanged DEF ReturnEarly, IInv, TypeOK, BatchTypeOK

(* A transaction that changes one subgroup and then the global root.       *)
LEMMA MemberStepKeeps ==
  ASSUME IInv, ForestInv', GroupTypeOK', AdminsHaveGroups', EmittedTypeOK',
         NEW g \in GroupIds, _updateGlobalRoot(g), UNCHANGED <<configVars, proofVars>>,
         BatchTypeOK'
  PROVE  IInv'
<1>1. RootTypeOK'
  BY UpdateGlobalRootType DEF IInv, TypeOK, ForestInv, configVars
<1>2. SignalTypeOK'
  BY GroupsUnchanged DEF IInv, TypeOK
<1> QED
  BY <1>1, <1>2 DEF IInv, ForestInv, TypeOK, BatchTypeOK, EmittedTypeOK

LEMMA AddMemberKeeps ==
  ASSUME IInv, NEW sender \in Accounts, addMember(sender)
  PROVE  IInv'
<1>1. PICK g \in GroupIds, leaf \in Leaves :
        \/ globalMembers[leaf] /\ ReturnEarly
        \/ /\ ~ globalMembers[leaf]
           /\ _addMember(sender, g, leaf)
           /\ _updateGlobalRoot(g)
           /\ UNCHANGED <<configVars, batch, proofVars>>
  BY DEF addMember
<1>2. CASE ReturnEarly
  BY <1>2, ReturnEarlyKeeps
<1>3. CASE ~ ReturnEarly
  <2>1. ForestInv'
    BY <1>1, <1>3, AddMemberKeepsForest DEF IInv
  <2>2. GroupTypeOK' /\ AdminsHaveGroups' /\ EmittedTypeOK'
    BY <1>1, <1>3, AddMemberKeepsGroups, NoAddressSendsNothing DEF IInv, TypeOK, configVars
  <2>3. BatchTypeOK'
    BY <1>1, <1>3 DEF IInv, TypeOK, BatchTypeOK
  <2> QED
    BY <1>1, <1>3, <2>1, <2>2, <2>3, MemberStepKeeps
<1> QED
  BY <1>2, <1>3

LEMMA UpdateMemberKeeps ==
  ASSUME IInv, NEW sender \in Accounts, updateMember(sender)
  PROVE  IInv'
<1>1. PICK g \in GroupIds, t \in TreeIds, old \in Commitments, new \in Leaves :
        \/ globalMembers[new] /\ ReturnEarly
        \/ /\ ~ globalMembers[new]
           /\ _updateMember(sender, g, t, old, new)
           /\ _updateGlobalRoot(g)
           /\ UNCHANGED <<configVars, batch, proofVars>>
  BY DEF updateMember
<1>2. CASE ReturnEarly
  BY <1>2, ReturnEarlyKeeps
<1>3. CASE ~ ReturnEarly
  <2>1. ForestInv'
    BY <1>1, <1>3, UpdateMemberKeepsForest DEF IInv
  <2>2. GroupTypeOK' /\ AdminsHaveGroups'
    BY <1>1, <1>3, GroupsUnchanged DEF IInv, TypeOK, configVars, _updateMember, adminVars
  <2>3. BatchTypeOK' /\ EmittedTypeOK'
    BY <1>1, <1>3 DEF IInv, TypeOK, BatchTypeOK, EmittedTypeOK, _updateMember, MemberUpdated
  <2> QED
    BY <1>1, <1>3, <2>1, <2>2, <2>3, MemberStepKeeps
<1> QED
  BY <1>2, <1>3

LEMMA RemoveMemberKeeps ==
  ASSUME IInv, NEW sender \in Accounts, removeMember(sender)
  PROVE  IInv'
<1>1. PICK g \in GroupIds, t \in TreeIds, leaf \in Commitments :
        /\ _removeMember(sender, g, t, leaf)
        /\ _updateGlobalRoot(g)
        /\ UNCHANGED <<configVars, batch, proofVars>>
  BY DEF removeMember
<1>2. ForestInv'
  BY <1>1, RemoveMemberKeepsForest DEF IInv
<1>3. GroupTypeOK' /\ AdminsHaveGroups'
  BY <1>1, GroupsUnchanged DEF IInv, TypeOK, configVars, _removeMember, adminVars
<1>4. BatchTypeOK' /\ EmittedTypeOK'
  BY <1>1 DEF IInv, TypeOK, BatchTypeOK, EmittedTypeOK, _removeMember, MemberRemoved
<1> QED
  BY <1>1, <1>2, <1>3, <1>4, MemberStepKeeps

(* The call frame of addMembers.                                           *)
LEMMA AddMembersKeeps ==
  ASSUME IInv,
         \/ \E sender \in Accounts : addMembersBegin(sender)
         \/ addMembersSkip \/ addMembersStep \/ addMembersEnd
  PROVE  IInv'
<1>1. CASE \E sender \in Accounts : addMembersBegin(sender)
  <2>1. PICK sender \in Accounts, g \in GroupIds, n \in 0 .. MaxBatch :
          \E list \in [1 .. n -> Leaves] :
            /\ batch' = [sender |-> sender, groupId |-> g, todo |-> list]
            /\ emitted' = << >>
            /\ UNCHANGED <<forestVars, maxTreeSize, adminVars, configVars, globalMerkleRoot,
                           proofVars>>
    BY <1>1 DEF addMembersBegin
  <2>2. \A list \in [1 .. n -> Leaves] : list \in Seq(Leaves)
    OBVIOUS
  <2>3. SignalTypeOK' /\ BatchTypeOK'
    BY <2>1, <2>2, GroupsUnchanged DEF IInv, TypeOK, BatchTypeOK, Addresses
  <2> QED
    BY <2>1, <2>3, QuietStepKeeps
<1>2. CASE addMembersSkip
  <2>1. SignalTypeOK' /\ BatchTypeOK'
    BY <1>2, GroupsUnchanged, SMTT(40) DEF addMembersSkip, IInv, TypeOK, BatchTypeOK
  <2> QED
    BY <1>2, <2>1, QuietStepKeeps DEF addMembersSkip
<1>3. CASE addMembersStep
  <2> DEFINE leaf == Head(batch.todo)
  <2>1. /\ batch.sender # NoAddress /\ batch.groupId \in GroupIds
        /\ leaf \in Leaves /\ Tail(batch.todo) \in Seq(Leaves)
    BY <1>3 DEF addMembersStep, Idle, IInv, TypeOK
  <2>2. ForestInv'
    BY <1>3, <2>1, AddMemberKeepsForest DEF addMembersStep, IInv
  <2>3. GroupTypeOK' /\ AdminsHaveGroups' /\ EmittedTypeOK'
    BY <1>3, <2>1, AddMemberKeepsGroups DEF addMembersStep, IInv, TypeOK, configVars
  <2>4. RootTypeOK' /\ SignalTypeOK'
    BY <1>3, GroupsUnchanged DEF addMembersStep, IInv, TypeOK, configVars
  <2>5. BatchTypeOK'
    BY <1>3, <2>1 DEF addMembersStep, IInv, TypeOK, BatchTypeOK
  <2> QED
    BY <2>2, <2>3, <2>4, <2>5 DEF IInv, ForestInv, TypeOK, BatchTypeOK, EmittedTypeOK
<1>4. CASE addMembersEnd
  <2>1. ForestInv' /\ GroupTypeOK' /\ AdminsHaveGroups'
    BY <1>4, ForestUnchanged, GroupsUnchanged
    DEF addMembersEnd, IInv, TypeOK, forestVars, configVars
  <2>2. BatchTypeOK' /\ EmittedTypeOK' /\ batch.groupId \in GroupIds
    BY <1>4, BoundsArePositive
    DEF addMembersEnd, IInv, TypeOK, BatchTypeOK, EmittedTypeOK, NoBatch, Addresses, GroupIds
  <2> QED
    BY <1>4, <2>1, <2>2, MemberStepKeeps DEF addMembersEnd
<1> QED
  BY <1>1, <1>2, <1>3, <1>4

(* Proofs and their validation.                                            *)
LEMMA GenerateProofKeeps == IInv /\ generateProof => IInv'
<1> SUFFICES ASSUME IInv, generateProof
             PROVE  IInv'
  OBVIOUS
<1>1. PICK c \in Identities, s \in Subgroups, message \in Messages, scope \in Scopes,
           depth \in MIN_DEPTH .. MAX_DEPTH :
        proofs' = proofs \cup
          {[ signer |-> c, members |-> subgroupMembers[s], merkleTreeDepth |-> depth,
             nullifier |-> Nullifier(scope, c), message |-> message, scope |-> scope ]}
  BY DEF generateProof
<1>2. subgroupMembers[s] \in Seq(Leaves)
  BY DEF IInv, ForestInv, ForestTypeOK
<1>3. proofs' \subseteq Proof
  BY <1>1, <1>2 DEF IInv, TypeOK, SignalTypeOK, Proof, Nullifier
<1>4. SignalTypeOK' /\ BatchTypeOK'
  BY <1>3 DEF generateProof, IInv, TypeOK, SignalTypeOK, BatchTypeOK
<1> QED
  BY <1>4, QuietStepKeeps DEF generateProof

LEMMA ValidateProofKeeps == IInv /\ validateProof => IInv'
<1> SUFFICES ASSUME IInv, validateProof
             PROVE  IInv'
  OBVIOUS
<1>1. PICK g \in GroupIds, t \in TreeIds, p \in proofs :
        /\ nullifiers' = [nullifiers EXCEPT ![g] = nullifiers[g] \cup {p.nullifier}]
        /\ accepted' = Append(accepted, [groupId |-> g, treeIndex |-> t, proof |-> p])
        /\ emitted' = <<ProofValidated(g, t, p)>>
        /\ UNCHANGED <<forestVars, maxTreeSize, adminVars, configVars, globalMerkleRoot,
                       batch, proofs>>
  BY DEF validateProof
<1>2. p \in Proof /\ p.nullifier \in Scopes \X Identities
  BY DEF IInv, TypeOK, SignalTypeOK, Proof
<1>3. [groupId |-> g, treeIndex |-> t, proof |-> p] \in Acceptance
  BY <1>2 DEF Acceptance
<1>4. accepted' \in Seq(Acceptance)
  BY <1>1, <1>3 DEF IInv, TypeOK, SignalTypeOK
<1>5. SignalTypeOK'
  BY <1>1, <1>2, <1>4 DEF IInv, TypeOK, SignalTypeOK
<1>6. ForestInv' /\ GroupTypeOK' /\ AdminsHaveGroups' /\ RootTypeOK'
  BY <1>1, ForestUnchanged, GroupsUnchanged DEF IInv, TypeOK, forestVars, configVars
<1>7. BatchTypeOK' /\ EmittedTypeOK'
  BY <1>1 DEF IInv, TypeOK, BatchTypeOK, EmittedTypeOK, ProofValidated
<1> QED
  BY <1>5, <1>6, <1>7 DEF IInv, ForestInv, TypeOK, BatchTypeOK, EmittedTypeOK

LEMMA NextKeeps == IInv /\ [Next]_vars => IInv'
<1> SUFFICES ASSUME IInv, [Next]_vars
             PROVE  IInv'
  OBVIOUS
<1>1. CASE createGroup
  BY <1>1, CreateGroupKeeps
<1>2. CASE generateProof
  BY <1>2, GenerateProofKeeps
<1>3. CASE validateProof
  BY <1>3, ValidateProofKeeps
<1>4. CASE addMembersSkip \/ addMembersStep \/ addMembersEnd
  BY <1>4, AddMembersKeeps
<1>5. ASSUME NEW sender \in Accounts,
             \/ updateGroupAdmin(sender) \/ acceptGroupAdmin(sender)
             \/ updateGroupMerkleTreeDuration(sender)
      PROVE  IInv'
  BY <1>5, AdminStepsKeep
<1>6. ASSUME NEW sender \in Accounts,
             \/ addMember(sender) \/ addMembersBegin(sender)
             \/ updateMember(sender) \/ removeMember(sender)
      PROVE  IInv'
  BY <1>6, AddMemberKeeps, AddMembersKeeps, UpdateMemberKeeps, RemoveMemberKeeps
<1>7. CASE UNCHANGED vars
  <2>1. ForestInv' /\ GroupTypeOK' /\ AdminsHaveGroups' /\ RootTypeOK' /\ SignalTypeOK'
    BY <1>7, ForestUnchanged, GroupsUnchanged
    DEF IInv, TypeOK, vars, groupsVars, forestVars, configVars
  <2>2. BatchTypeOK' /\ EmittedTypeOK'
    BY <1>7 DEF IInv, TypeOK, BatchTypeOK, EmittedTypeOK, vars, groupsVars
  <2> QED
    BY <2>1, <2>2 DEF IInv, ForestInv, TypeOK, BatchTypeOK, EmittedTypeOK
<1> QED
  BY <1>1, <1>2, <1>3, <1>4, <1>5, <1>6, <1>7 DEF Next

-----------------------------------------------------------------------------
(***************************************************************************)
(* The theorems.                                                           *)
(***************************************************************************)

(* IInv holds in every reachable state.                                    *)
THEOREM Invariance == Spec => []IInv
<1>1. Init => IInv
  BY InitEstablishes
<1>2. IInv /\ [Next]_vars => IInv'
  BY NextKeeps
<1> QED
  BY <1>1, <1>2, PTL DEF Spec

(* Every variable keeps its type, whatever transactions are executed.      *)
THEOREM TypeCorrect == Spec => []TypeOK
<1>1. IInv => TypeOK
  BY DEF IInv
<1> QED
  BY <1>1, Invariance, PTL

(* isGlobalMember answers for the whole forest: a commitment is flagged    *)
(* exactly while it is a leaf of some subgroup of some group.              *)
THEOREM FlagsExact == Spec => []GlobalMembersExact
<1>1. IInv => GlobalMembersExact
  <2> SUFFICES ASSUME IInv, NEW c \in Commitments
               PROVE  globalMembers[c] <=>
                        \E s \in Subgroups : \E i \in Positions(s) : subgroupMembers[s][i] = c
    BY DEF GlobalMembersExact
  <2>1. globalMembers[c] <=> \E s \in Subgroups : \E i \in Nat : Holds(subgroupMembers, s, i, c)
    BY DEF IInv, ForestInv, ExactIn
  <2>2. ASSUME NEW s \in Subgroups
        PROVE  (\E i \in Nat : Holds(subgroupMembers, s, i, c)) <=>
                 \E i \in Positions(s) : subgroupMembers[s][i] = c
    <3>1. Positions(s) \subseteq Nat
      BY DEF Positions
    <3> QED
      BY <3>1 DEF Holds, Positions
  <2> QED
    BY <2>1, <2>2
<1> QED
  BY <1>1, Invariance, PTL

(* No commitment is a leaf twice, in one subgroup or in two, of one group  *)
(* or of two.                                                              *)
THEOREM NoDuplicates == Spec => []NoDuplicateMember
<1>1. IInv => NoDuplicateMember
  <2> SUFFICES ASSUME IInv, NEW s1 \in Subgroups, NEW s2 \in Subgroups,
                      NEW i \in Positions(s1), NEW j \in Positions(s2),
                      subgroupMembers[s1][i] = subgroupMembers[s2][j],
                      subgroupMembers[s1][i] # Zero
               PROVE  s1 = s2 /\ i = j
    BY DEF NoDuplicateMember
  <2>1. /\ subgroupMembers[s1] \in Seq(Leaves) /\ subgroupMembers[s2] \in Seq(Leaves)
        /\ i \in 1 .. Len(subgroupMembers[s1]) /\ j \in 1 .. Len(subgroupMembers[s2])
    BY DEF IInv, TypeOK, ForestTypeOK, Positions
  <2>2. i \in Nat /\ j \in Nat /\ subgroupMembers[s1][i] \in Commitments
    BY <2>1 DEF Leaves
  <2> QED
    BY <2>1, <2>2 DEF IInv, ForestInv, NoDuplicateIn, Holds
<1> QED
  BY <1>1, Invariance, PTL

(* The snapshot that getSubgroupMembers returns lists the leaves of the    *)
(* subgroup's tree in order, and indexOf finds each member's place in it.  *)
THEOREM SnapshotFaithful == Spec => []SnapshotMatchesTree
<1>1. IInv => SnapshotMatchesTree
  BY DEF IInv, ForestInv, TreesConsistent, Consistent, SnapshotMatchesTree, Positions
<1> QED
  BY <1>1, Invariance, PTL

(* A proof that verifies for a subgroup is made from a list of members     *)
(* with the subgroup's present root; if that has only identities as        *)
(* leaves, the signer is one of them.                                      *)
LEMMA VerifiedSignerIsLeaf ==
  ASSUME IInv, NEW p \in proofs, NEW g \in GroupIds, NEW t \in TreeIds,
         verifyProof(g, t, p), OnlyIdentities(<<g, t>>)
  PROVE  /\ p.signer \in Commitments
         /\ \E i \in Positions(<<g, t>>) : subgroupMembers[<<g, t>>][i] = p.signer
<1> DEFINE s == <<g, t>>
<1>1. s \in Subgroups
  BY DEF Subgroups
<1>2. p.signer \in Identities /\ p.members \in Seq(Leaves)
  BY DEF IInv, TypeOK, SignalTypeOK, Proof
<1>3. PICK i \in DOMAIN p.members : p.members[i] = p.signer
  BY DEF verifyProof, SemaphoreCircuit
<1>4. RootOf(p.members) = RootOf(subgroupMembers[s])
  BY <1>1 DEF verifyProof, MerkleRootCreationDate, MerkleTreeRoot, Root, IInv, ForestInv,
              TreesConsistent
<1>5. /\ subgroupMembers[s] \in Seq(Leaves)
      /\ DOMAIN subgroupMembers[s] = Positions(s)
      /\ \A j \in DOMAIN subgroupMembers[s] : subgroupMembers[s][j] \in Identities \cup {Zero}
  <2>1. subgroupMembers[s] \in Seq(Leaves)
    BY <1>1 DEF IInv, ForestInv, ForestTypeOK
  <2> QED
    BY <2>1 DEF OnlyIdentities, Positions
<1>6. \E j \in DOMAIN subgroupMembers[s] : subgroupMembers[s][j] = p.members[i]
  BY <1>2, <1>3, <1>4, <1>5, IdentitiesUnderRoot
<1> QED
  BY <1>2, <1>3, <1>5, <1>6 DEF Commitments

(* No proof can verify for two subgroups of identities at once.            *)
THEOREM ProofsFitOnce == Spec => []ProofFitsOneSubgroup
<1>1. IInv => ProofFitsOneSubgroup
  <2> SUFFICES ASSUME IInv, NEW p \in proofs, NEW s1 \in Subgroups, NEW s2 \in Subgroups,
                      OnlyIdentities(s1), OnlyIdentities(s2),
                      verifyProof(s1[1], s1[2], p), verifyProof(s2[1], s2[2], p)
               PROVE  s1 = s2
    BY DEF ProofFitsOneSubgroup
  <2>1. ASSUME NEW s \in Subgroups, OnlyIdentities(s), verifyProof(s[1], s[2], p)
        PROVE  p.signer \in Commitments /\ \E i \in Nat : Holds(subgroupMembers, s, i, p.signer)
    <3>1. s = <<s[1], s[2]>> /\ s[1] \in GroupIds /\ s[2] \in TreeIds
      BY DEF Subgroups
    <3>2. OnlyIdentities(<<s[1], s[2]>>)
      BY <2>1, <3>1, Zenon
    <3>3. /\ p.signer \in Commitments
          /\ \E i \in Positions(<<s[1], s[2]>>) : subgroupMembers[<<s[1], s[2]>>][i] = p.signer
      BY <2>1, <3>1, <3>2, VerifiedSignerIsLeaf
    <3>4. PICK i \in Positions(s) : subgroupMembers[s][i] = p.signer
      BY <3>1, <3>3, Zenon
    <3> QED
      BY <3>3, <3>4 DEF Holds, Positions
  <2> QED
    BY <2>1 DEF IInv, ForestInv, NoDuplicateIn
<1> QED
  BY <1>1, Invariance, PTL

-----------------------------------------------------------------------------
(***************************************************************************)
(* The signals that validateProof accepts.                                 *)
(***************************************************************************)
(* Why a signal cannot be repeated: whatever was accepted has its          *)
(* nullifier on record, and the circuit made that nullifier a function of  *)
(* signer and scope.                                                       *)
AcceptedIsRecorded ==
  \A k \in DOMAIN accepted :
    /\ accepted[k].proof.nullifier
         = Nullifier(accepted[k].proof.scope, accepted[k].proof.signer)
    /\ accepted[k].proof.nullifier \in nullifiers[accepted[k].groupId]

SignalInv == AcceptedIsRecorded /\ OneSignalPerScope

(* Only validateProof accepts anything or writes a nullifier.              *)
LEMMA SignalsUnchanged ==
  ASSUME [Next]_vars, ~ validateProof
  PROVE  UNCHANGED <<nullifiers, accepted>>
<1> USE DEF proofVars
<1>1. CASE createGroup
  BY <1>1 DEF createGroup
<1>2. CASE addMembersSkip \/ addMembersStep \/ addMembersEnd
  BY <1>2 DEF addMembersSkip, addMembersStep, addMembersEnd
<1>3. CASE generateProof
  BY <1>3 DEF generateProof
<1>4. ASSUME NEW sender \in Accounts,
             \/ updateGroupAdmin(sender) \/ acceptGroupAdmin(sender)
             \/ updateGroupMerkleTreeDuration(sender)
      PROVE  UNCHANGED <<nullifiers, accepted>>
  BY <1>4 DEF updateGroupAdmin, acceptGroupAdmin, updateGroupMerkleTreeDuration
<1>5. ASSUME NEW sender \in Accounts,
             \/ addMember(sender) \/ addMembersBegin(sender)
             \/ updateMember(sender) \/ removeMember(sender)
      PROVE  UNCHANGED <<nullifiers, accepted>>
  <2>1. CASE addMember(sender)
    BY <2>1 DEF addMember, ReturnEarly
  <2>2. CASE addMembersBegin(sender)
    BY <2>2 DEF addMembersBegin
  <2>3. CASE updateMember(sender)
    BY <2>3 DEF updateMember, ReturnEarly
  <2>4. CASE removeMember(sender)
    BY <2>4 DEF removeMember
  <2> QED
    BY <1>5, <2>1, <2>2, <2>3, <2>4
<1>6. CASE UNCHANGED vars
  BY <1>6 DEF vars
<1> QED
  BY <1>1, <1>2, <1>3, <1>4, <1>5, <1>6 DEF Next

(* A validated signal is new: its nullifier was not on record before.      *)
LEMMA ValidateKeepsSignals ==
  ASSUME IInv, SignalInv, validateProof
  PROVE  SignalInv'
<1>1. PICK g \in GroupIds, t \in TreeIds, p \in proofs :
        /\ p.nullifier \notin nullifiers[g]
        /\ verifyProof(g, t, p)
        /\ nullifiers' = [nullifiers EXCEPT ![g] = nullifiers[g] \cup {p.nullifier}]
        /\ accepted' = Append(accepted, [groupId |-> g, treeIndex |-> t, proof |-> p])
  BY DEF validateProof
<1> DEFINE n == Len(accepted)
           new == [groupId |-> g, treeIndex |-> t, proof |-> p]
<1>2. p.nullifier = Nullifier(p.scope, p.signer)
  BY <1>1 DEF verifyProof, SemaphoreCircuit
<1>3. /\ accepted \in Seq(Acceptance) /\ n \in Nat /\ DOMAIN accepted = 1 .. n
      /\ p \in Proof
      /\ nullifiers \in [GroupIds -> SUBSET (Scopes \X Identities)]
  BY DEF IInv, TypeOK, SignalTypeOK
<1>4. new \in Acceptance
  BY <1>3 DEF Acceptance
<1>5. /\ DOMAIN accepted' = 1 .. n + 1
      /\ accepted'[n + 1] = new
      /\ \A k \in 1 .. n : accepted'[k] = accepted[k] /\ accepted[k] \in Acceptance
  BY <1>1, <1>3, <1>4
<1>6. \A h \in GroupIds : nullifiers[h] \subseteq nullifiers'[h]
  BY <1>1, <1>3
<1>7. p.nullifier \in nullifiers'[g]
  BY <1>1, <1>3
<1>8. AcceptedIsRecorded'
  <2> SUFFICES ASSUME NEW k \in 1 .. n + 1
               PROVE  /\ accepted'[k].proof.nullifier
                           = Nullifier(accepted'[k].proof.scope, accepted'[k].proof.signer)
                      /\ accepted'[k].proof.nullifier \in nullifiers'[accepted'[k].groupId]
    BY <1>5 DEF AcceptedIsRecorded
  <2>1. CASE k = n + 1
    BY <1>2, <1>5, <1>7, <2>1
  <2>2. CASE k \in 1 .. n
    <3>1. accepted'[k] = accepted[k] /\ accepted[k].groupId \in GroupIds
      BY <1>5, <2>2 DEF Acceptance
    <3> QED
      BY <1>3, <1>6, <2>2, <3>1 DEF SignalInv, AcceptedIsRecorded
  <2> QED
    BY <1>3, <2>1, <2>2
<1>9. ASSUME NEW k \in 1 .. n,
             accepted[k].groupId = g, accepted[k].proof.signer = p.signer,
             accepted[k].proof.scope = p.scope
      PROVE  FALSE
  BY <1>1, <1>2, <1>3, <1>9 DEF SignalInv, AcceptedIsRecorded
<1>10. OneSignalPerScope'
  <2> SUFFICES ASSUME NEW i \in 1 .. n + 1, NEW j \in 1 .. n + 1,
                      accepted'[i].groupId = accepted'[j].groupId,
                      accepted'[i].proof.signer = accepted'[j].proof.signer,
                      accepted'[i].proof.scope = accepted'[j].proof.scope
               PROVE  i = j
    BY <1>5 DEF OneSignalPerScope
  <2>1. CASE i \in 1 .. n /\ j \in 1 .. n
    BY <1>3, <1>5, <2>1 DEF SignalInv, OneSignalPerScope
  <2>2. CASE i = n + 1 /\ j \in 1 .. n
    BY <1>5, <1>9, <2>2
  <2>3. CASE i \in 1 .. n /\ j = n + 1
    BY <1>5, <1>9, <2>3
  <2> QED
    BY <1>3, <2>1, <2>2, <2>3
<1> QED
  BY <1>8, <1>10 DEF SignalInv

(* In a group a signer has one accepted signal per scope, for ever.        *)
THEOREM SignalsOncePerScope == Spec => []OneSignalPerScope
<1>1. Init => SignalInv
  BY DEF Init, SignalInv, AcceptedIsRecorded, OneSignalPerScope
<1>2. IInv /\ SignalInv /\ [Next]_vars => SignalInv'
  <2> SUFFICES ASSUME IInv, SignalInv, [Next]_vars
               PROVE  SignalInv'
    OBVIOUS
  <2>1. CASE validateProof
    BY <2>1, ValidateKeepsSignals
  <2>2. CASE ~ validateProof
    BY <2>2, SignalsUnchanged DEF SignalInv, AcceptedIsRecorded, OneSignalPerScope
  <2> QED
    BY <2>1, <2>2
<1>3. SignalInv => OneSignalPerScope
  BY DEF SignalInv
<1> QED
  BY <1>1, <1>2, <1>3, Invariance, PTL DEF Spec

(* What validateProof accepts for a subgroup of identities comes from      *)
(* someone who is then a member of it.                                     *)
THEOREM SignersAreMembers == Spec => AcceptedSignerIsMember
<1> DEFINE A == \A k \in Len(accepted) + 1 .. Len(accepted') :
                  LET a == accepted'[k]
                      s == <<a.groupId, a.treeIndex>>
                  IN  OnlyIdentities(s) =>
                        /\ globalMembers[a.proof.signer]
                        /\ \E i \in Positions(s) : subgroupMembers[s][i] = a.proof.signer
<1>1. IInv /\ [Next]_vars => [A]_accepted
  <2> SUFFICES ASSUME IInv, [Next]_vars, accepted' # accepted
               PROVE  A
    OBVIOUS
  <2>1. validateProof
    BY SignalsUnchanged
  <2>2. PICK g \in GroupIds, t \in TreeIds, p \in proofs :
          /\ verifyProof(g, t, p)
          /\ accepted' = Append(accepted, [groupId |-> g, treeIndex |-> t, proof |-> p])
    BY <2>1 DEF validateProof
  <2>3. accepted \in Seq(Acceptance) /\ p \in Proof
    BY DEF IInv, TypeOK, SignalTypeOK
  <2>4. [groupId |-> g, treeIndex |-> t, proof |-> p] \in Acceptance
    BY <2>3 DEF Acceptance
  <2>5. /\ Len(accepted) \in Nat /\ Len(accepted') = Len(accepted) + 1
        /\ accepted'[Len(accepted) + 1] = [groupId |-> g, treeIndex |-> t, proof |-> p]
    BY <2>2, <2>3, <2>4
  <2>6. ASSUME OnlyIdentities(<<g, t>>)
        PROVE  /\ globalMembers[p.signer]
               /\ \E i \in Positions(<<g, t>>) : subgroupMembers[<<g, t>>][i] = p.signer
    <3>1. /\ p.signer \in Commitments
          /\ \E i \in Positions(<<g, t>>) : subgroupMembers[<<g, t>>][i] = p.signer
      BY <2>2, <2>6, VerifiedSignerIsLeaf
    <3>2. PICK i \in Positions(<<g, t>>) : subgroupMembers[<<g, t>>][i] = p.signer
      BY <3>1
    <3>3. <<g, t>> \in Subgroups /\ i \in Nat /\ Holds(subgroupMembers, <<g, t>>, i, p.signer)
      BY <3>2 DEF Subgroups, Positions, Holds
    <3> QED
      BY <3>1, <3>3 DEF IInv, ForestInv, ExactIn
  <2> QED
    BY <2>5, <2>6
<1> QED
  BY <1>1, Invariance, PTL DEF Spec, AcceptedSignerIsMember

-----------------------------------------------------------------------------
(***************************************************************************)
(* The kinds of steps.  The shape of the forest, the groups that nobody    *)
(* administers, the global roots and the events are argued over these.     *)
(***************************************************************************)
(* What addMember, updateMember and removeMember do when they get past     *)
(* their early return.                                                     *)
MemberOp(sender, g) ==
  \/ \E leaf \in Leaves : ~ globalMembers[leaf] /\ _addMember(sender, g, leaf)
  \/ \E t \in TreeIds, old \in Commitments, new \in Leaves :
       ~ globalMembers[new] /\ _updateMember(sender, g, t, old, new)
  \/ \E t \in TreeIds, leaf \in Commitments : _removeMember(sender, g, t, leaf)

(* A step that changes neither members nor groups; a call of addMembers    *)
(* may begin, or go on with its group.                                     *)
QuietStep ==
  /\ UNCHANGED <<forestVars, maxTreeSize, adminVars, currentTreeIndex, globalMerkleRoot>>
  /\ Idle \/ (batch'.sender = batch.sender /\ batch'.groupId = batch.groupId)

AdminStep(sender) ==
  /\ UNCHANGED <<forestVars, maxTreeSize, currentTreeIndex, globalMerkleRoot, batch>>
  /\ \E g \in GroupIds :
       \/ \E newAdmin : _updateGroupAdmin(sender, g, newAdmin)
       \/ _acceptGroupAdmin(sender, g)

MemberStep(sender, g) ==
  /\ MemberOp(sender, g) /\ _updateGlobalRoot(g)
  /\ UNCHANGED <<currentTreeIndex, batch>>

BatchStep ==
  /\ ~ Idle /\ MemberOp(batch.sender, batch.groupId)
  /\ UNCHANGED <<currentTreeIndex, globalMerkleRoot>>
  /\ batch'.sender = batch.sender /\ batch'.groupId = batch.groupId

BatchEnd ==
  /\ ~ Idle /\ _updateGlobalRoot(batch.groupId)
  /\ UNCHANGED <<forestVars, maxTreeSize, adminVars, currentTreeIndex>>

Kinds ==
  \/ QuietStep \/ createGroup \/ BatchStep \/ BatchEnd
  \/ \E sender \in Accounts : AdminStep(sender)
  \/ \E sender \in Accounts, g \in GroupIds : MemberStep(sender, g)

(* Every step is of one of these kinds.                                    *)
LEMMA StepKinds ==
  ASSUME IInv, [Next]_vars
  PROVE  Kinds
<1>1. CASE createGroup
  BY <1>1 DEF Kinds
<1>2. CASE UNCHANGED vars
  BY <1>2 DEF vars, groupsVars, configVars, QuietStep, Kinds
<1>3. CASE generateProof \/ validateProof
  BY <1>3 DEF generateProof, validateProof, configVars, QuietStep, Kinds
<1>4. CASE addMembersSkip
  BY <1>4 DEF addMembersSkip, configVars, IInv, TypeOK, QuietStep, Kinds
<1>5. CASE addMembersStep
  <2>1. Head(batch.todo) \in Leaves
    BY <1>5 DEF addMembersStep, IInv, TypeOK
  <2>2. MemberOp(batch.sender, batch.groupId)
    BY <1>5, <2>1 DEF addMembersStep, MemberOp
  <2>3. batch'.sender = batch.sender /\ batch'.groupId = batch.groupId
    BY <1>5 DEF addMembersStep, IInv, TypeOK
  <2> QED
    BY <1>5, <2>2, <2>3 DEF addMembersStep, configVars, BatchStep, Kinds
<1>6. CASE addMembersEnd
  BY <1>6 DEF addMembersEnd, configVars, BatchEnd, Kinds
<1>7. ASSUME NEW sender \in Accounts, updateGroupAdmin(sender) \/ acceptGroupAdmin(sender)
      PROVE  Kinds
  <2>1. AdminStep(sender)
    <3>1. CASE updateGroupAdmin(sender)
      BY <3>1 DEF updateGroupAdmin, _updateGroupAdmin, AdminStep, configVars
    <3>2. CASE acceptGroupAdmin(sender)
      BY <3>2 DEF acceptGroupAdmin, _acceptGroupAdmin, AdminStep, configVars
    <3> QED
      BY <1>7, <3>1, <3>2
  <2> QED
    BY <2>1 DEF Kinds
<1>8. ASSUME NEW sender \in Accounts,
             updateGroupMerkleTreeDuration(sender) \/ addMembersBegin(sender)
      PROVE  Kinds
  <2>1. QuietStep
    BY <1>8 DEF updateGroupMerkleTreeDuration, addMembersBegin, configVars, QuietStep, Idle
  <2> QED
    BY <2>1 DEF Kinds
<1>9. ASSUME NEW sender \in Accounts,
             addMember(sender) \/ updateMember(sender) \/ removeMember(sender)
      PROVE  Kinds
  <2>1. CASE ReturnEarly
    BY <2>1 DEF ReturnEarly, configVars, QuietStep, Idle, Kinds
  <2>2. CASE ~ ReturnEarly
    <3>1. \E g \in GroupIds : MemberOp(sender, g) /\ _updateGlobalRoot(g)
                              /\ UNCHANGED <<configVars, batch, proofVars>>
      <4>1. CASE addMember(sender)
        BY <4>1, <2>2 DEF addMember, MemberOp
      <4>2. CASE updateMember(sender)
        BY <4>2, <2>2 DEF updateMember, MemberOp
      <4>3. CASE removeMember(sender)
        BY <4>3 DEF removeMember, MemberOp
      <4> QED
        BY <1>9, <4>1, <4>2, <4>3
    <3> QED
      BY <3>1 DEF configVars, MemberStep, Kinds
  <2> QED
    BY <2>1, <2>2
<1> QED
  BY <1>1, <1>2, <1>3, <1>4, <1>5, <1>6, <1>7, <1>8, <1>9 DEF Next

(* What changes the members of a group is sent by its admin, and touches   *)
(* no other group.                                                         *)
LEMMA OpTouchesOneGroup ==
  ASSUME ForestInv, NEW sender, NEW g \in GroupIds, MemberOp(sender, g)
  PROVE  /\ admins[g] = sender
         /\ UNCHANGED <<maxTreeSize, adminVars>>
         /\ \A h \in GroupIds \ {g}, t \in TreeIds :
              /\ subgroupMembers'[<<h, t>>] = subgroupMembers[<<h, t>>]
              /\ merkleTrees'[<<h, t>>] = merkleTrees[<<h, t>>]
<1>1. ASSUME NEW leaf, _addMember(sender, g, leaf)
      PROVE  \A h \in GroupIds \ {g}, t \in TreeIds :
               /\ subgroupMembers'[<<h, t>>] = subgroupMembers[<<h, t>>]
               /\ merkleTrees'[<<h, t>>] = merkleTrees[<<h, t>>]
  BY <1>1 DEF _addMember, ForestInv, ForestTypeOK, Subgroups
<1>2. ASSUME NEW u \in TreeIds, NEW old, NEW new, _updateMember(sender, g, u, old, new)
      PROVE  \A h \in GroupIds \ {g}, t \in TreeIds :
               /\ subgroupMembers'[<<h, t>>] = subgroupMembers[<<h, t>>]
               /\ merkleTrees'[<<h, t>>] = merkleTrees[<<h, t>>]
  BY <1>2 DEF _updateMember, ForestInv, ForestTypeOK, Subgroups
<1>3. ASSUME NEW u \in TreeIds, NEW leaf, _removeMember(sender, g, u, leaf)
      PROVE  \A h \in GroupIds \ {g}, t \in TreeIds :
               /\ subgroupMembers'[<<h, t>>] = subgroupMembers[<<h, t>>]
               /\ merkleTrees'[<<h, t>>] = merkleTrees[<<h, t>>]
  BY <1>3 DEF _removeMember, ForestInv, ForestTypeOK, Subgroups
<1>4. admins[g] = sender /\ UNCHANGED <<maxTreeSize, adminVars>>
  BY DEF MemberOp, _addMember, _updateMember, _removeMember, OnlyGroupAdmin
<1> QED
  BY <1>1, <1>2, <1>3, <1>4 DEF MemberOp

-----------------------------------------------------------------------------
(***************************************************************************)
(* Groups without an admin.                                                *)
(***************************************************************************)
(* Only the admin nominates and lets members in, and a group that is       *)
(* created has had nobody before.                                          *)
LEMMA OrphansKept ==
  ASSUME IInv, OrphanGroupsStayEmpty, [Next]_vars
  PROVE  OrphanGroupsStayEmpty'
<1> USE DEF OrphanGroupsStayEmpty
<1>1. CASE QuietStep \/ BatchEnd
  BY <1>1 DEF QuietStep, BatchEnd, forestVars, adminVars
<1>2. CASE createGroup
  <2>1. PICK admin \in Addresses, size \in TreeSizes :
          groupCounter \in GroupIds /\ _createGroup(groupCounter, admin, size)
    BY <1>2 DEF createGroup
  <2>2. admins[groupCounter] = NoAddress /\ admins \in [GroupIds -> Addresses]
    BY <2>1 DEF IInv, TypeOK, GroupTypeOK, AdminsHaveGroups
  <2> QED
    BY <2>1, <2>2 DEF _createGroup
<1>3. ASSUME NEW sender \in Accounts, AdminStep(sender) PROVE OrphanGroupsStayEmpty'
  BY <1>3, NoAddressSendsNothing
  DEF AdminStep, _updateGroupAdmin, _acceptGroupAdmin, OnlyGroupAdmin, forestVars,
      IInv, TypeOK, GroupTypeOK
<1>4. ASSUME NEW sender, sender # NoAddress, NEW g \in GroupIds, MemberOp(sender, g)
      PROVE  OrphanGroupsStayEmpty'
  BY <1>4, OpTouchesOneGroup DEF IInv, adminVars
<1>5. CASE BatchStep
  BY <1>4, <1>5 DEF BatchStep, Idle, IInv, TypeOK
<1> QED
  BY <1>1, <1>2, <1>3, <1>4, <1>5, StepKinds, NoAddressSendsNothing DEF Kinds, MemberStep

(* A group that nobody administers has no member and no nominated admin,   *)
(* through hand-overs, batches and groups created for address(0).          *)
THEOREM OrphansStayEmpty == Spec => []OrphanGroupsStayEmpty
<1>1. Init => OrphanGroupsStayEmpty
  BY DEF Init, GroupsInit, OrphanGroupsStayEmpty, Subgroups
<1>2. IInv /\ OrphanGroupsStayEmpty /\ [Next]_vars => OrphanGroupsStayEmpty'
  BY OrphansKept
<1> QED
  BY <1>1, <1>2, Invariance, PTL DEF Spec

-----------------------------------------------------------------------------
(***************************************************************************)
(* The global root.                                                        *)
(***************************************************************************)
RootOfGroupCurrent(g) ==
  \/ globalMerkleRoot[g] = CombinedRoot(merkleTrees, g)
  \/ globalMerkleRoot[g] = NoRoot /\ subgroupMembers[<<g, 0>>] = << >>

(* While a call of addMembers is open, the root of its group may lag.      *)
OthersCurrent == \A g \in GroupIds : Idle \/ g # batch.groupId => RootOfGroupCurrent(g)

(* A group that a step does not touch keeps its root current.              *)
LEMMA RootUntouched ==
  ASSUME IInv, NEW g \in GroupIds, RootOfGroupCurrent(g),
         globalMerkleRoot'[g] = globalMerkleRoot[g], currentTreeIndex'[g] = currentTreeIndex[g],
         \A t \in TreeIds : /\ subgroupMembers'[<<g, t>>] = subgroupMembers[<<g, t>>]
                            /\ merkleTrees'[<<g, t>>] = merkleTrees[<<g, t>>]
  PROVE  RootOfGroupCurrent(g)'
<1>1. 0 .. currentTreeIndex[g] \subseteq TreeIds /\ 0 \in TreeIds
  BY BoundsArePositive DEF IInv, TypeOK, RootTypeOK, TreeIds
<1>2. CombinedRoot(merkleTrees, g)' = CombinedRoot(merkleTrees, g)
  BY <1>1 DEF CombinedRoot
<1> QED
  BY <1>1, <1>2 DEF RootOfGroupCurrent

(* _updateGlobalRoot makes it current.                                     *)
LEMMA RootUpdated ==
  ASSUME IInv, NEW g \in GroupIds, _updateGlobalRoot(g), UNCHANGED currentTreeIndex
  PROVE  /\ RootOfGroupCurrent(g)'
         /\ \A h \in GroupIds \ {g} : globalMerkleRoot'[h] = globalMerkleRoot[h]
  BY DEF _updateGlobalRoot, RootOfGroupCurrent, CombinedRoot, IInv, TypeOK, RootTypeOK

(* Each step makes current the roots it may disturb, or leaves its call open. *)
LEMMA RootsKept ==
  ASSUME IInv, OrphanGroupsStayEmpty, OthersCurrent, [Next]_vars
  PROVE  OthersCurrent'
<1> SUFFICES ASSUME NEW h \in GroupIds, Idle' \/ h # batch'.groupId
             PROVE  RootOfGroupCurrent(h)'
  BY DEF OthersCurrent
<1>1. CASE QuietStep
  <2>1. Idle \/ h # batch.groupId
    BY <1>1 DEF QuietStep, Idle
  <2> QED
    BY <1>1, <2>1, RootUntouched DEF QuietStep, OthersCurrent, forestVars
<1>2. CASE createGroup
  <2>1. PICK admin \in Addresses, size \in TreeSizes :
          /\ Idle /\ groupCounter \in GroupIds /\ _createGroup(groupCounter, admin, size)
          /\ currentTreeIndex' = [currentTreeIndex EXCEPT ![groupCounter] = 0]
          /\ globalMerkleRoot' = [globalMerkleRoot EXCEPT ![groupCounter] = NoRoot]
    BY <1>2 DEF createGroup
  <2>2. CASE h = groupCounter
    <3>1. admins[h] = NoAddress
      BY <2>1, <2>2 DEF IInv, TypeOK, GroupTypeOK, AdminsHaveGroups
    <3>2. subgroupMembers'[<<h, 0>>] = << >>
      BY <3>1, <2>1, BoundsArePositive DEF OrphanGroupsStayEmpty, _createGroup, TreeIds
    <3>3. globalMerkleRoot'[h] = NoRoot
      BY <2>1, <2>2 DEF IInv, TypeOK, RootTypeOK
    <3> QED
      BY <3>2, <3>3 DEF RootOfGroupCurrent
  <2>3. CASE h # groupCounter
    <3>1. /\ globalMerkleRoot'[h] = globalMerkleRoot[h]
          /\ currentTreeIndex'[h] = currentTreeIndex[h]
          /\ UNCHANGED <<merkleTrees, subgroupMembers>>
      BY <2>1, <2>3 DEF IInv, TypeOK, RootTypeOK, _createGroup
    <3> QED
      BY <2>1, <3>1, RootUntouched DEF OthersCurrent
  <2> QED
    BY <2>2, <2>3
<1>3. ASSUME NEW sender \in Accounts, AdminStep(sender) PROVE RootOfGroupCurrent(h)'
  <2>1. Idle \/ h # batch.groupId
    BY <1>3 DEF AdminStep, Idle
  <2> QED
    BY <1>3, <2>1, RootUntouched DEF AdminStep, OthersCurrent, forestVars
<1>4. ASSUME NEW sender \in Accounts, NEW g \in GroupIds, MemberStep(sender, g)
      PROVE  RootOfGroupCurrent(h)'
  <2>1. Idle \/ h # batch.groupId
    BY <1>4 DEF MemberStep, Idle
  <2>2. CASE h = g
    BY <1>4, <2>2, RootUpdated DEF MemberStep
  <2>3. CASE h # g
    BY <1>4, <2>1, <2>3, RootUpdated, RootUntouched, OpTouchesOneGroup
    DEF MemberStep, OthersCurrent, IInv
  <2> QED
    BY <2>2, <2>3
<1>5. CASE BatchStep
  <2>1. batch.groupId \in GroupIds /\ h # batch.groupId
    BY <1>5 DEF BatchStep, Idle, IInv, TypeOK
  <2> QED
    BY <1>5, <2>1, RootUntouched, OpTouchesOneGroup DEF BatchStep, OthersCurrent, IInv
<1>6. CASE BatchEnd
  <2>1. batch.groupId \in GroupIds
    BY DEF IInv, TypeOK
  <2>2. CASE h = batch.groupId
    BY <1>6, <2>1, <2>2, RootUpdated DEF BatchEnd
  <2>3. CASE h # batch.groupId
    BY <1>6, <2>1, <2>3, RootUpdated, RootUntouched DEF BatchEnd, OthersCurrent, forestVars
  <2> QED
    BY <2>2, <2>3
<1> QED
  BY <1>1, <1>2, <1>3, <1>4, <1>5, <1>6, StepKinds DEF Kinds

(* Between two transactions every global root is that of the current trees *)
(* it covers, or 0 while they have never had a leaf.                       *)
THEOREM GlobalRootsCurrent == Spec => []GlobalRootCurrent
<1>1. Init => OthersCurrent
  BY BoundsArePositive DEF Init, GroupsInit, OthersCurrent, RootOfGroupCurrent, Subgroups, TreeIds
<1>2. IInv /\ OrphanGroupsStayEmpty /\ OthersCurrent /\ [Next]_vars => OthersCurrent'
  BY RootsKept
<1>3. OthersCurrent => GlobalRootCurrent
  BY DEF OthersCurrent, GlobalRootCurrent, RootOfGroupCurrent
<1> QED
  BY <1>1, <1>2, <1>3, Invariance, OrphansStayEmpty, PTL DEF Spec


-----------------------------------------------------------------------------
(***************************************************************************)
(* The shape of the forest.  Only the sizes of the subgroups matter to it. *)
(***************************************************************************)
SizeOf(M, g, t) == Len(M[<<g, t>>])

Shaped(M, g, t, count, most) ==
  /\ t < count - 1 => SizeOf(M, g, t) >= most
  /\ t >= count => SizeOf(M, g, t) = 0
  /\ SizeOf(M, g, t) <= most \/ SizeOf(M, g, t) = 1

(* What an addition and a change in place do to the lists.                 *)
AppendedTo(M, N, g, t, leaf) == N = [M EXCEPT ![<<g, t>>] = Append(M[<<g, t>>], leaf)]

WrittenAt(M, N, g, t, i, leaf) ==
  N = [M EXCEPT ![<<g, t>>] = [M[<<g, t>>] EXCEPT ![i] = leaf]]

AddedAt(g, t, leaf) ==
  /\ \/ t = groupTreeCount[g] - 1 /\ SizeOf(subgroupMembers, g, t) < maxTreeSize[g]
     \/ t = groupTreeCount[g] /\ SizeOf(subgroupMembers, g, t - 1) >= maxTreeSize[g]
  /\ groupTreeCount' = [groupTreeCount EXCEPT ![g] = t + 1]
  /\ AppendedTo(subgroupMembers, subgroupMembers', g, t, leaf)

(* The counters of a group are numbers.                                    *)
LEMMA GroupNumbers ==
  ASSUME GroupTypeOK, NEW g \in GroupIds
  PROVE  /\ groupTreeCount[g] \in 0 .. MaxTrees /\ groupTreeCount[g] \in Nat
         /\ maxTreeSize[g] \in Nat
<1>1. groupTreeCount[g] \in 0 .. MaxTrees /\ maxTreeSize[g] \in TreeSizes \cup {0}
  BY DEF GroupTypeOK
<1>2. maxTreeSize[g] \in Nat
  <2>1. \A n \in TreeSizes : n \in Nat
    BY TreeSizesAreNumbers, Zenon
  <2> QED
    BY <1>1, <2>1
<1>3. \A n \in 0 .. MaxTrees : n \in Nat
  BY BoundsArePositive
<1> QED
  BY <1>1, <1>2, <1>3

(* ForestShape in terms of sizes.                                          *)
LEMMA ShapeIsBySize ==
  ForestShape <=> \A g \in GroupIds, t \in TreeIds :
                    Shaped(subgroupMembers, g, t, groupTreeCount[g], maxTreeSize[g])
BY DEF ForestShape, Shaped, SizeOf

(* Appending makes one subgroup larger by one.                             *)
LEMMA AppendSizes ==
  ASSUME NEW M \in Lists, NEW N, NEW g \in GroupIds, NEW t \in TreeIds,
         NEW leaf \in Leaves, AppendedTo(M, N, g, t, leaf),
         NEW h \in GroupIds, NEW u \in TreeIds
  PROVE  /\ SizeOf(M, h, u) \in Nat
         /\ SizeOf(N, h, u) =
              IF h = g /\ u = t THEN SizeOf(M, g, t) + 1 ELSE SizeOf(M, h, u)
<1>1. /\ <<g, t>> \in Subgroups /\ <<h, u>> \in Subgroups
      /\ M[<<g, t>>] \in Seq(Leaves) /\ M[<<h, u>>] \in Seq(Leaves)
  BY DEF Lists, Subgroups
<1>2. Len(Append(M[<<g, t>>], leaf)) = Len(M[<<g, t>>]) + 1
  BY <1>1
<1>3. CASE h = g /\ u = t
  BY <1>1, <1>2, <1>3 DEF Lists, SizeOf, AppendedTo
<1>4. CASE ~ (h = g /\ u = t)
  BY <1>1, <1>4 DEF Lists, SizeOf, AppendedTo
<1> QED
  BY <1>3, <1>4

(* Writing over a leaf changes no size.                                    *)
LEMMA OverwriteSizes ==
  ASSUME NEW M \in Lists, NEW N, NEW g \in GroupIds, NEW t \in TreeIds,
         NEW i \in Nat, NEW leaf \in Leaves, WrittenAt(M, N, g, t, i, leaf),
         NEW h \in GroupIds, NEW u \in TreeIds
  PROVE  SizeOf(N, h, u) = SizeOf(M, h, u)
<1>1. /\ <<g, t>> \in Subgroups /\ <<h, u>> \in Subgroups
      /\ M[<<g, t>>] \in Seq(Leaves)
  BY DEF Lists, Subgroups
<1>2. Len([M[<<g, t>>] EXCEPT ![i] = leaf]) = Len(M[<<g, t>>])
  BY <1>1
<1>3. CASE h = g /\ u = t
  BY <1>1, <1>2, <1>3 DEF Lists, SizeOf, WrittenAt
<1>4. CASE ~ (h = g /\ u = t)
  BY <1>1, <1>4 DEF Lists, SizeOf, WrittenAt
<1> QED
  BY <1>3, <1>4

(* A leaf goes to the last subgroup, which has room, or to the next one.   *)
LEMMA AddMemberPlace ==
  ASSUME IInv, NEW sender, sender # NoAddress, NEW g \in GroupIds,
         NEW leaf, _addMember(sender, g, leaf)
  PROVE  \E t \in TreeIds : AddedAt(g, t, leaf)
<1> DEFINE t == TargetTree(g)
<1>1. /\ groupTreeCount[g] \in 1 .. MaxTrees /\ maxTreeSize[g] \in Nat
  <2>1. groupTreeCount[g] # 0
    BY DEF _addMember, OnlyGroupAdmin, IInv, AdminsHaveGroups
  <2> QED
    BY <2>1, GroupNumbers, BoundsArePositive DEF IInv, TypeOK
<1>2. LastTree(g) \in TreeIds /\ LastTree(g) = groupTreeCount[g] - 1
  BY <1>1, BoundsArePositive DEF LastTree, TreeIds
<1>3. <<g, LastTree(g)>> \in Subgroups
  BY <1>2 DEF Subgroups
<1>4. /\ Size(merkleTrees[<<g, LastTree(g)>>]) = SizeOf(subgroupMembers, g, LastTree(g))
      /\ SizeOf(subgroupMembers, g, LastTree(g)) \in Nat
  BY <1>3 DEF IInv, ForestInv, TreesConsistent, TypeOK, ForestTypeOK, Size, SizeOf
<1>5. /\ t \in TreeIds
      /\ groupTreeCount' = [groupTreeCount EXCEPT ![g] = t + 1]
      /\ AppendedTo(subgroupMembers, subgroupMembers', g, t, leaf)
  BY DEF _addMember, AppendedTo
<1>6. \/ t = groupTreeCount[g] - 1 /\ SizeOf(subgroupMembers, g, t) < maxTreeSize[g]
      \/ t = groupTreeCount[g] /\ SizeOf(subgroupMembers, g, t - 1) >= maxTreeSize[g]
  <2>1. CASE LastTreeIsFull(g)
    <3>1. t = groupTreeCount[g] /\ t - 1 = LastTree(g)
      BY <1>1, <1>2, <2>1 DEF TargetTree
    <3> HIDE DEF t
    <3> QED
      BY <3>1, <1>4, <2>1 DEF LastTreeIsFull
  <2>2. CASE ~ LastTreeIsFull(g)
    <3>1. t = LastTree(g)
      BY <2>2 DEF TargetTree
    <3> HIDE DEF t
    <3> QED
      BY <3>1, <1>1, <1>2, <1>4, <2>2 DEF LastTreeIsFull
  <2> QED
    BY <2>1, <2>2
<1> HIDE DEF t
<1> QED
  BY <1>5, <1>6 DEF AddedAt

(* A leaf goes where there is room, or opens the next subgroup.            *)
LEMMA AddKeepsShape ==
  ASSUME IInv, ForestShape, NEW sender, sender # NoAddress, NEW g \in GroupIds,
         NEW leaf \in Leaves, _addMember(sender, g, leaf)
  PROVE  ForestShape'
<1>1. PICK t \in TreeIds : AddedAt(g, t, leaf)
  BY AddMemberPlace
<1>2. /\ groupTreeCount \in [GroupIds -> 0 .. MaxTrees]
      /\ UNCHANGED maxTreeSize /\ subgroupMembers \in Lists
  BY DEF IInv, TypeOK, GroupTypeOK, ForestTypeOK, Lists, _addMember
<1> SUFFICES ASSUME NEW h \in GroupIds, NEW u \in TreeIds
             PROVE  Shaped(subgroupMembers', h, u, groupTreeCount'[h], maxTreeSize'[h])
  BY DEF ForestShape, Shaped, SizeOf
<1>3. /\ SizeOf(subgroupMembers, h, u) \in Nat
      /\ SizeOf(subgroupMembers', h, u) =
           IF h = g /\ u = t THEN SizeOf(subgroupMembers, g, t) + 1
           ELSE SizeOf(subgroupMembers, h, u)
  BY <1>1, <1>2, AppendSizes DEF AddedAt
<1>4. Shaped(subgroupMembers, h, u, groupTreeCount[h], maxTreeSize[h])
  BY ShapeIsBySize
<1>5. Shaped(subgroupMembers, g, t, groupTreeCount[g], maxTreeSize[g])
  BY ShapeIsBySize
<1>6. /\ u \in Nat /\ t \in Nat /\ groupTreeCount[h] \in Nat /\ maxTreeSize[h] \in Nat
      /\ maxTreeSize'[h] = maxTreeSize[h]
  BY <1>2, GroupNumbers, BoundsArePositive DEF TreeIds, IInv, TypeOK
<1>7. CASE h # g
  BY <1>1, <1>2, <1>3, <1>4, <1>6, <1>7 DEF Shaped, AddedAt
<1>8. CASE h = g
  <2>1. groupTreeCount'[h] = t + 1
    BY <1>1, <1>2, <1>8 DEF AddedAt
  <2>2. CASE u = t
    <3>1. SizeOf(subgroupMembers', h, u) = SizeOf(subgroupMembers, g, t) + 1
      BY <1>3, <1>8, <2>2
    <3> QED
      BY <1>1, <1>3, <1>5, <1>6, <1>8, <2>1, <2>2, <3>1 DEF Shaped, AddedAt
  <2>3. CASE u # t
    <3>1. SizeOf(subgroupMembers', h, u) = SizeOf(subgroupMembers, h, u)
      BY <1>3, <2>3
    <3>2. CASE t = groupTreeCount[g] - 1
      BY <1>4, <1>6, <1>8, <2>1, <2>3, <3>1, <3>2 DEF Shaped
    <3>3. CASE t = groupTreeCount[g]
      <4>1. SizeOf(subgroupMembers, g, t - 1) >= maxTreeSize[g]
        BY <1>1, <1>6, <1>8, <3>3 DEF AddedAt
      <4>2. CASE u = t - 1
        BY <1>4, <1>6, <1>8, <2>1, <3>1, <3>3, <4>1, <4>2 DEF Shaped
      <4>3. CASE u # t - 1
        BY <1>4, <1>6, <1>8, <2>1, <2>3, <3>1, <3>3, <4>3 DEF Shaped
      <4> QED
        BY <4>2, <4>3
    <3> QED
      BY <1>1, <3>2, <3>3 DEF AddedAt
  <2> QED
    BY <2>2, <2>3
<1> QED
  BY <1>7, <1>8

(* updateMember and removeMember write over the leaf that the tree's index *)
(* names.                                                                  *)
LEMMA OverwritePlace ==
  ASSUME IInv, NEW sender, NEW g \in GroupIds, NEW t \in TreeIds, NEW old, NEW new \in Leaves,
         \/ _updateMember(sender, g, t, old, new)
         \/ new = Zero /\ _removeMember(sender, g, t, old)
  PROVE  /\ \E i \in Nat : WrittenAt(subgroupMembers, subgroupMembers', g, t, i, new)
         /\ UNCHANGED <<groupTreeCount, maxTreeSize, adminVars>>
<1> DEFINE tree == merkleTrees[<<g, t>>]
           i == IndexOf(tree, old)
<1>1. /\ Consistent(tree) /\ subgroupMembers[<<g, t>>] = tree.nodes
      /\ subgroupMembers[<<g, t>>] \in Seq(Leaves)
  BY DEF IInv, ForestInv, TreesConsistent, ForestTypeOK, Subgroups
<1>2. Has(tree, old)
  BY DEF _updateMember, _removeMember, Updatable
<1>3. i \in Nat /\ i + 1 \in 1 .. Len(subgroupMembers[<<g, t>>])
  BY <1>1, <1>2, IndexOfIsPlace
<1>4. i < Len(subgroupMembers[<<g, t>>])
  BY <1>1, <1>3
<1>5. WrittenAt(subgroupMembers, subgroupMembers', g, t, i + 1, new)
  BY <1>4 DEF _updateMember, _removeMember, WrittenAt
<1>6. i + 1 \in Nat
  BY <1>3
<1> QED
  BY <1>5, <1>6 DEF _updateMember, _removeMember

(* Updates and removals change no size.                                    *)
LEMMA OverwriteKeepsShape ==
  ASSUME IInv, ForestShape, NEW sender, NEW g \in GroupIds, NEW t \in TreeIds, NEW old,
         NEW new \in Leaves,
         \/ _updateMember(sender, g, t, old, new)
         \/ new = Zero /\ _removeMember(sender, g, t, old)
  PROVE  ForestShape'
<1>1. PICK i \in Nat : WrittenAt(subgroupMembers, subgroupMembers', g, t, i, new)
  BY OverwritePlace
<1>2. subgroupMembers \in Lists /\ UNCHANGED <<groupTreeCount, maxTreeSize>>
  BY OverwritePlace DEF IInv, TypeOK, ForestTypeOK, Lists
<1>3. ASSUME NEW h \in GroupIds, NEW u \in TreeIds
      PROVE  Len(subgroupMembers'[<<h, u>>]) = Len(subgroupMembers[<<h, u>>])
  BY <1>1, <1>2, OverwriteSizes DEF SizeOf
<1> QED
  BY <1>2, <1>3 DEF ForestShape

(* So whatever changes members keeps the shape.                            *)
LEMMA OpKeepsShape ==
  ASSUME IInv, ForestShape, NEW sender, sender # NoAddress, NEW g \in GroupIds,
         MemberOp(sender, g)
  PROVE  ForestShape'
<1>1. ASSUME NEW leaf \in Leaves, _addMember(sender, g, leaf) PROVE ForestShape'
  BY <1>1, AddKeepsShape
<1>2. ASSUME NEW t \in TreeIds, NEW old \in Commitments, NEW new \in Leaves,
             _updateMember(sender, g, t, old, new)
      PROVE  ForestShape'
  BY <1>2, OverwriteKeepsShape
<1>3. ASSUME NEW t \in TreeIds, NEW leaf \in Commitments, _removeMember(sender, g, t, leaf)
      PROVE  ForestShape'
  BY <1>3, OverwriteKeepsShape DEF Leaves
<1> QED
  BY <1>1, <1>2, <1>3 DEF MemberOp

(* Every step keeps it: a group that is created has no leaf yet.           *)
LEMMA ShapeKept ==
  ASSUME IInv, ForestShape, [Next]_vars
  PROVE  ForestShape'
<1>1. CASE QuietStep \/ BatchEnd
  BY <1>1 DEF QuietStep, BatchEnd, forestVars, ForestShape
<1>2. CASE createGroup
  <2>1. PICK admin \in Addresses, size \in TreeSizes :
          groupCounter \in GroupIds /\ _createGroup(groupCounter, admin, size)
    BY <1>2 DEF createGroup
  <2>2. /\ groupTreeCount \in [GroupIds -> 0 .. MaxTrees]
        /\ maxTreeSize \in [GroupIds -> TreeSizes \cup {0}]
        /\ groupTreeCount[groupCounter] = 0 /\ size \in Nat
    BY <2>1, TreeSizesAreNumbers DEF IInv, TypeOK, GroupTypeOK, GroupIds
  <2>3. ASSUME NEW h \in GroupIds, NEW t \in TreeIds
        PROVE  Shaped(subgroupMembers', h, t, groupTreeCount'[h], maxTreeSize'[h])
    <3>1. Shaped(subgroupMembers, h, t, groupTreeCount[h], maxTreeSize[h]) /\ t \in Nat
      BY ShapeIsBySize DEF TreeIds
    <3>2. CASE h = groupCounter
      <4>1. SizeOf(subgroupMembers', h, t) = 0
        BY <2>1, <2>2, <3>1, <3>2 DEF Shaped, _createGroup
      <4>2. groupTreeCount'[h] = 1 /\ maxTreeSize'[h] = size
        BY <2>1, <2>2, <3>2 DEF _createGroup
      <4> QED
        BY <2>2, <3>1, <4>1, <4>2 DEF Shaped
    <3>3. CASE h # groupCounter
      BY <2>1, <2>2, <3>1, <3>3 DEF _createGroup
    <3> QED
      BY <3>2, <3>3
  <2> QED
    BY <2>3 DEF ForestShape, Shaped, SizeOf
<1>3. ASSUME NEW sender \in Accounts, AdminStep(sender) PROVE ForestShape'
  BY <1>3 DEF AdminStep, forestVars, ForestShape
<1>4. CASE BatchStep
  BY <1>4, OpKeepsShape DEF BatchStep, Idle, IInv, TypeOK
<1>5. ASSUME NEW sender \in Accounts, NEW g \in GroupIds, MemberStep(sender, g)
      PROVE  ForestShape'
  BY <1>5, OpKeepsShape, NoAddressSendsNothing DEF MemberStep
<1> QED
  BY <1>1, <1>2, <1>3, <1>4, <1>5, StepKinds DEF Kinds

(* The subgroups of a group are filled one after the other, whatever is    *)
(* added, updated and removed in between.                                  *)
THEOREM ForestIsShaped == Spec => []ForestShape
<1>1. Init => ForestShape
  BY TreeSizesAreNumbers DEF Init, GroupsInit, ForestShape, Subgroups
<1>2. IInv /\ ForestShape /\ [Next]_vars => ForestShape'
  BY ShapeKept
<1> QED
  BY <1>1, <1>2, Invariance, PTL DEF Spec
-----------------------------------------------------------------------------
(***************************************************************************)
(* The events.                                                             *)
(***************************************************************************)
ToldBy(e) ==
  /\ subgroupMembers' = MembersTold(e)
  /\ e.merkleTreeRoot = Root(merkleTrees[<<e.groupId, e.treeIndex>>])'

TellsMembers ==
  LET told == {e \in {emitted'[i] : i \in DOMAIN emitted'} : e.event \in MemberEvents}
  IN  IF told = {} THEN UNCHANGED subgroupMembers ELSE \E e \in told : ToldBy(e)

(* It is enough that the one event of a step tells the truth.              *)
LEMMA OneEventTells ==
  ASSUME NEW e, emitted' = <<e>>, e.event \in MemberEvents, ToldBy(e)
  PROVE  TellsMembers
<1>1. e = emitted'[1] /\ 1 \in DOMAIN emitted'
  OBVIOUS
<1> QED
  BY <1>1 DEF TellsMembers

(* A step with no event about members changes no member.                   *)
LEMMA SilentTells ==
  ASSUME UNCHANGED subgroupMembers,
         \A i \in DOMAIN emitted' : emitted'[i].event \notin MemberEvents
  PROVE  TellsMembers
BY DEF TellsMembers

(* The list that an event tells, place by place, is the one written.       *)
Told(L, k, leaf) == [j \in DOMAIN L \cup {k} |-> IF j = k THEN leaf ELSE L[j]]

(* Appending writes the place after the last.                              *)
LEMMA AppendIsTold ==
  ASSUME NEW L \in Seq(Leaves), NEW leaf \in Leaves
  PROVE  Append(L, leaf) = Told(L, Len(L) + 1, leaf)
<1> DEFINE A == Append(L, leaf)
           n == Len(L)
<1>1. /\ n \in Nat /\ DOMAIN L = 1 .. n
      /\ A \in Seq(Leaves) /\ Len(A) = n + 1
      /\ \A j \in 1 .. n : A[j] = L[j]
      /\ A[n + 1] = leaf
  BY AppendProperties, LenProperties
<1>2. A \in [1 .. n + 1 -> Leaves]
  BY <1>1, LenProperties
<1> HIDE DEF A, n
<1>3. 1 .. n + 1 = DOMAIN L \cup {n + 1}
  BY <1>1
<1>4. A = [j \in 1 .. n + 1 |-> IF j = n + 1 THEN leaf ELSE L[j]]
  <2>1. \A j \in 1 .. n + 1 : A[j] = IF j = n + 1 THEN leaf ELSE L[j]
    BY <1>1
  <2> QED
    BY <1>2, <2>1
<1> QED
  BY <1>3, <1>4 DEF A, n, Told

(* Writing in place writes that place.                                     *)
LEMMA WriteIsTold ==
  ASSUME NEW L \in Seq(Leaves), NEW leaf \in Leaves, NEW k \in 1 .. Len(L)
  PROVE  [L EXCEPT ![k] = leaf] = Told(L, k, leaf)
<1>1. DOMAIN L = 1 .. Len(L) /\ L \in [1 .. Len(L) -> Leaves]
  BY LenProperties
<1>2. DOMAIN L = DOMAIN L \cup {k}
  BY <1>1
<1> QED
  BY <1>1, <1>2 DEF Told

(* With an event that names its subgroup, place, leaf and root.            *)
Names(e, s, i, leaf, root) ==
  /\ <<e.groupId, e.treeIndex>> = s
  /\ e.index = i /\ LeafTold(e) = leaf /\ e.merkleTreeRoot = root
  /\ e.event \in MemberEvents

Writes(s, i, leaf, tree) ==
  /\ merkleTrees' = [merkleTrees EXCEPT ![s] = tree]
  /\ subgroupMembers' = [subgroupMembers EXCEPT ![s] = Told(subgroupMembers[s], i + 1, leaf)]

(* The event and the lists agree.                                          *)
LEMMA EventIsTrue ==
  ASSUME ForestTypeOK, NEW s \in Subgroups, NEW i, NEW leaf, NEW tree, NEW e,
         emitted' = <<e>>, Names(e, s, i, leaf, Root(tree)), Writes(s, i, leaf, tree)
  PROVE  TellsMembers
<1>1. merkleTrees'[s] = tree
  BY DEF ForestTypeOK, Writes
<1>2. MembersTold(e) = subgroupMembers'
  BY DEF MembersTold, Names, Writes, Told
<1>3. ToldBy(e)
  BY <1>1, <1>2 DEF ToldBy, Names
<1> QED
  BY <1>3, OneEventTells DEF Names

(* MemberAdded names the end of the list, 0 in a new subgroup.             *)
LEMMA AddIsTold ==
  ASSUME IInv, ForestShape, NEW sender, sender # NoAddress, NEW g \in GroupIds,
         NEW leaf \in Leaves, _addMember(sender, g, leaf)
  PROVE  TellsMembers
<1> DEFINE t    == TargetTree(g)
           i    == TargetIndex(g)
           s    == <<g, t>>
           tree == Insert(merkleTrees[s], leaf)
           e    == MemberAdded(g, t, i, leaf, Root(tree))
<1>1. /\ t \in TreeIds /\ s \in Subgroups /\ subgroupMembers[s] \in Seq(Leaves)
  BY DEF _addMember, Subgroups, IInv, TypeOK, ForestTypeOK
<1>2. i = Len(subgroupMembers[s])
  <2>1. CASE LastTreeIsFull(g)
    <3>1. t = groupTreeCount[g] /\ i = 0
      BY <2>1 DEF TargetTree, TargetIndex
    <3>2. Shaped(subgroupMembers, g, t, groupTreeCount[g], maxTreeSize[g])
      BY <1>1, ShapeIsBySize
    <3>3. t >= groupTreeCount[g]
      BY <3>1, GroupNumbers DEF IInv, TypeOK
    <3> QED
      BY <3>1, <3>2, <3>3 DEF Shaped, SizeOf
  <2>2. CASE ~ LastTreeIsFull(g)
    <3>1. t = LastTree(g) /\ i = Size(merkleTrees[s])
      BY <2>2 DEF TargetTree, TargetIndex
    <3> QED
      BY <1>1, <3>1 DEF IInv, ForestInv, TreesConsistent, Size
  <2> QED
    BY <2>1, <2>2
<1>3. Append(subgroupMembers[s], leaf) = Told(subgroupMembers[s], i + 1, leaf)
  BY <1>1, <1>2, AppendIsTold
<1>4. emitted' = <<e>> /\ Writes(s, i, leaf, tree)
  BY <1>3 DEF _addMember, Writes
<1>5. Names(e, s, i, leaf, Root(tree))
  BY DEF MemberAdded, LeafTold, MemberEvents, Names
<1> HIDE DEF e, tree, i, s, t
<1> QED
  BY <1>1, <1>4, <1>5, EventIsTrue DEF IInv, TypeOK

(* MemberUpdated names the place of the old leaf.                          *)
LEMMA UpdateIsTold ==
  ASSUME IInv, NEW sender, NEW g \in GroupIds, NEW t \in TreeIds, NEW old,
         NEW new \in Leaves, _updateMember(sender, g, t, old, new)
  PROVE  TellsMembers
<1> DEFINE s    == <<g, t>>
           i    == IndexOf(merkleTrees[s], old)
           tree == Update(merkleTrees[s], old, new)
           e    == MemberUpdated(g, t, i, old, new, Root(tree))
<1>1. /\ s \in Subgroups /\ subgroupMembers[s] \in Seq(Leaves)
      /\ Consistent(merkleTrees[s]) /\ subgroupMembers[s] = merkleTrees[s].nodes
  BY DEF Subgroups, IInv, ForestInv, TreesConsistent, ForestTypeOK
<1>2. i + 1 \in 1 .. Len(subgroupMembers[s])
  BY <1>1, IndexOfIsPlace DEF _updateMember, Updatable
<1>3. [subgroupMembers[s] EXCEPT ![i + 1] = new] = Told(subgroupMembers[s], i + 1, new)
  BY <1>1, <1>2, WriteIsTold
<1>4. emitted' = <<e>> /\ Writes(s, i, new, tree)
  BY <1>3 DEF _updateMember, Writes
<1>5. Names(e, s, i, new, Root(tree))
  BY DEF MemberUpdated, LeafTold, MemberEvents, Names
<1> HIDE DEF e, tree, i, s
<1> QED
  BY <1>1, <1>4, <1>5, EventIsTrue DEF IInv, TypeOK

(* MemberRemoved names the place that becomes 0.                           *)
LEMMA RemoveIsTold ==
  ASSUME IInv, NEW sender, NEW g \in GroupIds, NEW t \in TreeIds, NEW leaf,
         _removeMember(sender, g, t, leaf)
  PROVE  TellsMembers
<1> DEFINE s    == <<g, t>>
           i    == IndexOf(merkleTrees[s], leaf)
           tree == Remove(merkleTrees[s], leaf)
           e    == MemberRemoved(g, t, i, leaf, Root(tree))
<1>1. /\ s \in Subgroups /\ subgroupMembers[s] \in Seq(Leaves)
      /\ Consistent(merkleTrees[s]) /\ subgroupMembers[s] = merkleTrees[s].nodes
  BY DEF Subgroups, IInv, ForestInv, TreesConsistent, ForestTypeOK
<1>2. i \in Nat /\ i + 1 \in 1 .. Len(subgroupMembers[s])
  BY <1>1, IndexOfIsPlace DEF _removeMember
<1>3. i < Len(subgroupMembers[s])
  BY <1>1, <1>2
<1>4. [subgroupMembers[s] EXCEPT ![i + 1] = Zero] = Told(subgroupMembers[s], i + 1, Zero)
  BY <1>1, <1>2, WriteIsTold DEF Leaves
<1>5. emitted' = <<e>> /\ Writes(s, i, Zero, tree)
  BY <1>3, <1>4 DEF _removeMember, Writes
<1>6. Names(e, s, i, Zero, Root(tree))
  BY DEF MemberRemoved, LeafTold, MemberEvents, Names
<1> HIDE DEF e, tree, i, s
<1> QED
  BY <1>1, <1>5, <1>6, EventIsTrue DEF IInv, TypeOK

(* Every other step is silent about members, and leaves them as they are.  *)
Silent ==
  /\ UNCHANGED subgroupMembers
  /\ \A i \in DOMAIN emitted' : emitted'[i].event \notin MemberEvents
  /\ emitted' = << >> \/ 1 \in DOMAIN emitted'

LEMMA StepSpeaks ==
  ASSUME IInv, Next
  PROVE  Silent \/ \E sender : sender # NoAddress /\ \E g \in GroupIds : MemberOp(sender, g)
<1>2. ASSUME UNCHANGED subgroupMembers, emitted' = << >> PROVE Silent
  BY <1>2 DEF Silent
<1>3. CASE createGroup
  <2>1. PICK g, admin :
          /\ UNCHANGED subgroupMembers
          /\ emitted' = <<GroupCreated(g), GroupAdminUpdated(g, NoAddress, admin)>>
    BY <1>3 DEF createGroup, _createGroup
  <2>2. \A i \in DOMAIN emitted' : emitted'[i].event \notin MemberEvents
    BY <2>1 DEF GroupCreated, GroupAdminUpdated, MemberEvents
  <2> QED
    BY <2>1, <2>2 DEF Silent
<1>4. CASE addMembersSkip \/ addMembersEnd \/ generateProof
  BY <1>2, <1>4 DEF addMembersSkip, addMembersEnd, generateProof, forestVars
<1>5. CASE addMembersStep
  <2>1. /\ Head(batch.todo) \in Leaves /\ batch.groupId \in GroupIds
        /\ batch.sender # NoAddress
        /\ ~ globalMembers[Head(batch.todo)]
        /\ _addMember(batch.sender, batch.groupId, Head(batch.todo))
    BY <1>5 DEF addMembersStep, IInv, TypeOK, Idle
  <2> QED
    BY <2>1 DEF MemberOp
<1>6. ASSUME UNCHANGED subgroupMembers, NEW e, emitted' = <<e>>, e.event \notin MemberEvents
      PROVE  Silent
  <2>1. DOMAIN emitted' = {1} /\ emitted'[1] = e
    BY <1>6
  <2> QED
    BY <1>6, <2>1 DEF Silent
<1>7. CASE validateProof
  <2>1. PICK g, t, p : UNCHANGED subgroupMembers /\ emitted' = <<ProofValidated(g, t, p)>>
    BY <1>7 DEF validateProof, forestVars
  <2>2. ProofValidated(g, t, p).event \notin MemberEvents
    BY DEF ProofValidated, MemberEvents
  <2> QED
    BY <1>6, <2>1, <2>2
<1>8. ASSUME NEW sender \in Accounts, updateGroupAdmin(sender) PROVE Silent
  <2>1. PICK g, new : UNCHANGED subgroupMembers /\ emitted' = <<GroupAdminPending(g, sender, new)>>
    BY <1>8 DEF updateGroupAdmin, _updateGroupAdmin, forestVars
  <2>2. GroupAdminPending(g, sender, new).event \notin MemberEvents
    BY DEF GroupAdminPending, MemberEvents
  <2> QED
    BY <1>6, <2>1, <2>2
<1>9. ASSUME NEW sender \in Accounts, acceptGroupAdmin(sender) PROVE Silent
  <2>1. PICK g : UNCHANGED subgroupMembers
                 /\ emitted' = <<GroupAdminUpdated(g, admins[g], sender)>>
    BY <1>9 DEF acceptGroupAdmin, _acceptGroupAdmin, forestVars
  <2>2. GroupAdminUpdated(g, admins[g], sender).event \notin MemberEvents
    BY DEF GroupAdminUpdated, MemberEvents
  <2> QED
    BY <1>6, <2>1, <2>2
<1>10. ASSUME NEW sender \in Accounts, updateGroupMerkleTreeDuration(sender)
       PROVE  Silent
  <2>1. PICK g, a, b : UNCHANGED subgroupMembers
                       /\ emitted' = <<GroupMerkleTreeDurationUpdated(g, a, b)>>
    BY <1>10 DEF updateGroupMerkleTreeDuration, forestVars
  <2>2. GroupMerkleTreeDurationUpdated(g, a, b).event \notin MemberEvents
    BY DEF GroupMerkleTreeDurationUpdated, MemberEvents
  <2> QED
    BY <1>6, <2>1, <2>2
<1>11. ASSUME NEW sender \in Accounts, addMembersBegin(sender) PROVE Silent
  BY <1>2, <1>11 DEF addMembersBegin, forestVars
<1>12. ASSUME NEW sender \in Accounts,
              addMember(sender) \/ updateMember(sender) \/ removeMember(sender)
       PROVE  Silent \/ \E g \in GroupIds : sender # NoAddress /\ MemberOp(sender, g)
  <2>1. CASE ReturnEarly
    BY <1>2, <2>1 DEF ReturnEarly, forestVars
  <2>2. CASE ~ ReturnEarly
    <3>1. \E g \in GroupIds : MemberOp(sender, g)
      <4>1. CASE addMember(sender)
        BY <4>1, <2>2 DEF addMember, MemberOp
      <4>2. CASE updateMember(sender)
        BY <4>2, <2>2 DEF updateMember, MemberOp
      <4>3. CASE removeMember(sender)
        BY <4>3 DEF removeMember, MemberOp
      <4> QED
        BY <1>12, <4>1, <4>2, <4>3
    <3> QED
      BY <3>1, NoAddressSendsNothing
  <2> QED
    BY <2>1, <2>2
<1> QED
  BY <1>3, <1>4, <1>5, <1>7, <1>8, <1>9, <1>10, <1>11, <1>12 DEF Next

(* So with every step.                                                     *)
LEMMA StepIsTold ==
  ASSUME IInv, ForestShape, [Next]_vars
  PROVE  [TellsMembers]_<<subgroupMembers, emitted>>
<1>1. CASE UNCHANGED vars
  BY <1>1 DEF vars, groupsVars, forestVars
<1>2. CASE Silent
  BY <1>2, SilentTells DEF Silent
<1>3. ASSUME NEW sender, sender # NoAddress, NEW g \in GroupIds, MemberOp(sender, g)
      PROVE  TellsMembers
  BY <1>3, AddIsTold, UpdateIsTold, RemoveIsTold DEF MemberOp
<1>4. CASE Next
  BY <1>2, <1>3, <1>4, StepSpeaks
<1> QED
  BY <1>1, <1>4

(* A follower that applies the events of each step to its copy of the      *)
(* lists has the lists themselves, and the roots of their trees.           *)
THEOREM EventsTellAll == Spec => EventsTellMembers
<1> DEFINE A == LET told == {e \in {emitted'[i] : i \in DOMAIN emitted'} : e.event \in MemberEvents}
                IN  IF told = {} THEN UNCHANGED subgroupMembers
                    ELSE \E e \in told :
                           /\ subgroupMembers' = MembersTold(e)
                           /\ e.merkleTreeRoot = Root(merkleTrees[<<e.groupId, e.treeIndex>>])'
<1>1. IInv /\ ForestShape /\ [Next]_vars => [A]_<<subgroupMembers, emitted>>
  <2>1. TellsMembers => A
    BY DEF TellsMembers, ToldBy
  <2> QED
    BY <2>1, StepIsTold
<1> QED
  BY <1>1, Invariance, ForestIsShaped, PTL DEF Spec, EventsTellMembers
=============================================================================
