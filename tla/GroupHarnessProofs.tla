------------------------- MODULE GroupHarnessProofs -------------------------
(***************************************************************************)
(* Theorems about GroupHarness, for any number of groups, subgroups and    *)
(* members: Groups that are given the contract's events are the contract's *)
(* lists of members.                                                       *)
(***************************************************************************)
EXTENDS GroupHarness, SemaphoreProofs

-----------------------------------------------------------------------------
(***************************************************************************)
(* The inductive invariant.  That the roots and the places agree is not    *)
(* inductive alone: what an event does to a Group depends on every leaf of *)
(* it.  So the Groups are the snapshot, which the contract's own invariant *)
(* ties to the trees; and the last events tell the roots of the Groups.    *)
(***************************************************************************)
Tells(M, M2, e) ==
  /\ EventSubgroup(e) \in Subgroups
  /\ Accepts(M[EventSubgroup(e)], e)
  /\ M2 = [M EXCEPT ![EventSubgroup(e)] = Applied(M[EventSubgroup(e)], e)]
  /\ e.merkleTreeRoot = RootOf(M2[EventSubgroup(e)])

LastEventIsTrue ==
  \A i \in DOMAIN emitted : emitted[i].event \in MemberEvents =>
    emitted[i].merkleTreeRoot = RootOf(groups[EventSubgroup(emitted[i])])

HarnessInv ==
  /\ groups = subgroupMembers
  /\ threw = FALSE
  /\ LastEventIsTrue

(* A step of the harness is one of the contract's.                         *)
LEMMA HarnessRunsContract == HarnessSpec => Spec
<1>1. HarnessInit => Init
  BY DEF HarnessInit
<1>2. [HarnessNext]_harnessVars => [Next]_vars
  BY DEF HarnessNext, harnessVars
<1> QED
  BY <1>1, <1>2, PTL DEF HarnessSpec, Spec

-----------------------------------------------------------------------------
(***************************************************************************)
(* What the contract logs leads from its old lists to its new ones.        *)
(***************************************************************************)
LEMMA AddTells ==
  ASSUME IInv, NEW sender, NEW g \in GroupIds, NEW leaf \in Leaves, _addMember(sender, g, leaf)
  PROVE  \E e : /\ emitted' = <<e>> /\ e.event \in MemberEvents
                /\ Tells(subgroupMembers, subgroupMembers', e)
<1> DEFINE t    == TargetTree(g)
           i    == TargetIndex(g)
           s    == <<g, t>>
           tree == Insert(merkleTrees[s], leaf)
           e    == MemberAdded(g, t, i, leaf, Root(tree))
<1>1. /\ s \in Subgroups /\ subgroupMembers \in Lists
      /\ Consistent(merkleTrees[s]) /\ subgroupMembers[s] = merkleTrees[s].nodes
      /\ Insertable(merkleTrees[s], leaf)
  BY DEF _addMember, Subgroups, IInv, ForestInv, TreesConsistent, ForestTypeOK, Lists
<1>2. tree.nodes = Append(subgroupMembers[s], leaf) /\ leaf # Zero
  BY <1>1, InsertConsistent DEF Insertable
<1>3. /\ emitted' = <<e>>
      /\ subgroupMembers' = [subgroupMembers EXCEPT ![s] = Append(subgroupMembers[s], leaf)]
  BY DEF _addMember
<1>4. /\ e.event = "MemberAdded" /\ EventSubgroup(e) = s /\ e.identityCommitment = leaf
      /\ e.merkleTreeRoot = RootOf(tree.nodes)
  BY DEF MemberAdded, EventSubgroup, Root
<1> HIDE DEF e, tree, i, s, t
<1>5. Accepts(subgroupMembers[s], e) /\ Applied(subgroupMembers[s], e) = Append(subgroupMembers[s], leaf)
  BY <1>2, <1>4 DEF Accepts, CanAdd, Applied, GroupAdd
<1>6. subgroupMembers'[s] = Append(subgroupMembers[s], leaf)
  BY <1>1, <1>3 DEF Lists
<1>7. Tells(subgroupMembers, subgroupMembers', e)
  BY <1>1, <1>2, <1>3, <1>4, <1>5, <1>6 DEF Tells
<1> QED
  BY <1>3, <1>4, <1>7 DEF MemberEvents

(* Updates and removals write over a leaf that is not 0.                   *)
LEMMA WriteTells ==
  ASSUME IInv, NEW s \in Subgroups, NEW old \in Commitments, NEW new \in Leaves,
         Has(merkleTrees[s], old), NEW e, EventSubgroup(e) = s,
         e.index = IndexOf(merkleTrees[s], old),
         e.merkleTreeRoot = Root(Update(merkleTrees[s], old, new)),
         \/ e.event = "MemberUpdated" /\ e.newIdentityCommitment = new
         \/ e.event = "MemberRemoved" /\ new = Zero,
         subgroupMembers' = [subgroupMembers EXCEPT ![s] =
                              [subgroupMembers[s] EXCEPT ![IndexOf(merkleTrees[s], old) + 1] = new]]
  PROVE  Tells(subgroupMembers, subgroupMembers', e)
<1> DEFINE i == IndexOf(merkleTrees[s], old)
           L == subgroupMembers[s]
           W == [L EXCEPT ![i + 1] = new]
<1>1. /\ subgroupMembers \in Lists /\ L \in Seq(Leaves)
      /\ Consistent(merkleTrees[s]) /\ L = merkleTrees[s].nodes
  BY DEF IInv, ForestInv, TreesConsistent, ForestTypeOK, Lists
<1>2. i \in Nat /\ i + 1 \in 1 .. Len(L) /\ L[i + 1] = old
  BY <1>1, IndexOfIsPlace
<1>3. Update(merkleTrees[s], old, new).nodes = W
  BY <1>1, IndexOfIsPlace DEF Update
<1>4. old # Zero /\ Len(L) \in Nat
  BY <1>1, ZeroIsNoCommitment
<1> HIDE DEF i
<1>5. CanUpdate(L, i)
  BY <1>2, <1>4 DEF CanUpdate
<1>6. Accepts(L, e) /\ Applied(L, e) = W
  BY <1>5 DEF Accepts, Applied, GroupUpdate, GroupRemove, i
<1>7. subgroupMembers'[s] = W /\ subgroupMembers' = [subgroupMembers EXCEPT ![s] = W]
  BY <1>1 DEF Lists, i
<1> HIDE DEF L, W
<1> QED
  BY <1>3, <1>6, <1>7 DEF Tells, Root, L

LEMMA OpTells ==
  ASSUME IInv, NEW sender, NEW g \in GroupIds, MemberOp(sender, g)
  PROVE  \E e : /\ emitted' = <<e>> /\ e.event \in MemberEvents
                /\ Tells(subgroupMembers, subgroupMembers', e)
<1>1. ASSUME NEW t \in TreeIds, NEW old \in Commitments, NEW new \in Leaves,
             _updateMember(sender, g, t, old, new)
      PROVE  \E e : /\ emitted' = <<e>> /\ e.event \in MemberEvents
                    /\ Tells(subgroupMembers, subgroupMembers', e)
  <2> DEFINE s == <<g, t>>
             i == IndexOf(merkleTrees[s], old)
             e == MemberUpdated(g, t, i, old, new, Root(Update(merkleTrees[s], old, new)))
  <2>1. s \in Subgroups /\ Has(merkleTrees[s], old)
    BY <1>1 DEF _updateMember, Updatable, Subgroups
  <2>2. /\ emitted' = <<e>>
        /\ subgroupMembers' = [subgroupMembers EXCEPT ![s] = [subgroupMembers[s] EXCEPT ![i + 1] = new]]
    BY <1>1 DEF _updateMember
  <2>3. /\ EventSubgroup(e) = s /\ e.index = i /\ e.event = "MemberUpdated"
        /\ e.newIdentityCommitment = new
        /\ e.merkleTreeRoot = Root(Update(merkleTrees[s], old, new))
    BY DEF MemberUpdated, EventSubgroup
  <2> HIDE DEF e, s
  <2>4. Tells(subgroupMembers, subgroupMembers', e)
    BY <2>1, <2>2, <2>3, WriteTells
  <2> QED
    BY <2>2, <2>3, <2>4 DEF MemberEvents
<1>2. ASSUME NEW t \in TreeIds, NEW leaf \in Commitments, _removeMember(sender, g, t, leaf)
      PROVE  \E e : /\ emitted' = <<e>> /\ e.event \in MemberEvents
                    /\ Tells(subgroupMembers, subgroupMembers', e)
  <2> DEFINE s == <<g, t>>
             i == IndexOf(merkleTrees[s], leaf)
             e == MemberRemoved(g, t, i, leaf, Root(Remove(merkleTrees[s], leaf)))
  <2>1. s \in Subgroups /\ Has(merkleTrees[s], leaf)
    BY <1>2 DEF _removeMember, Subgroups
  <2>2. i < Len(subgroupMembers[s])
    <3>1. /\ subgroupMembers[s] \in Seq(Leaves)
          /\ Consistent(merkleTrees[s]) /\ subgroupMembers[s] = merkleTrees[s].nodes
      BY <2>1 DEF IInv, ForestInv, TreesConsistent, ForestTypeOK
    <3>2. i \in Nat /\ i + 1 \in 1 .. Len(subgroupMembers[s])
      BY <2>1, <3>1, IndexOfIsPlace
    <3> QED
      BY <3>1, <3>2
  <2>3. /\ emitted' = <<e>>
        /\ subgroupMembers' = [subgroupMembers EXCEPT ![s] = [subgroupMembers[s] EXCEPT ![i + 1] = Zero]]
    BY <1>2, <2>2 DEF _removeMember
  <2>4. /\ EventSubgroup(e) = s /\ e.index = i /\ e.event = "MemberRemoved"
        /\ e.merkleTreeRoot = Root(Update(merkleTrees[s], leaf, Zero))
    BY DEF MemberRemoved, EventSubgroup, Remove
  <2>5. Zero \in Leaves
    BY DEF Leaves
  <2> HIDE DEF e, s
  <2>6. Tells(subgroupMembers, subgroupMembers', e)
    BY <2>1, <2>3, <2>4, <2>5, WriteTells
  <2> QED
    BY <2>3, <2>4, <2>6 DEF MemberEvents
<1> QED
  BY <1>1, <1>2, AddTells DEF MemberOp

-----------------------------------------------------------------------------
(***************************************************************************)
(* The steps.                                                              *)
(***************************************************************************)
LEMMA HarnessStarts == HarnessInit => HarnessInv
<1> SUFFICES ASSUME HarnessInit PROVE HarnessInv
  OBVIOUS
<1>1. groups = subgroupMembers /\ threw = FALSE /\ emitted = << >>
  BY DEF HarnessInit, Init, GroupsInit
<1> QED
  BY <1>1 DEF HarnessInv, LastEventIsTrue

LEMMA HarnessKeeps ==
  ASSUME IInv, HarnessInv, [HarnessNext]_harnessVars
  PROVE  HarnessInv'
<1>1. CASE HarnessNext /\ Silent
  <2>1. ~ Speaks
    BY <1>1 DEF Silent, Speaks
  <2>2. UNCHANGED <<groups, threw, subgroupMembers>>
    BY <1>1, <2>1 DEF HarnessNext, Silent
  <2>3. LastEventIsTrue'
    BY <1>1 DEF Silent, LastEventIsTrue
  <2> QED
    BY <2>2, <2>3 DEF HarnessInv
<1>2. ASSUME HarnessNext, NEW sender, NEW g \in GroupIds, MemberOp(sender, g)
      PROVE  HarnessInv'
  <2>1. PICK e : /\ emitted' = <<e>> /\ e.event \in MemberEvents
                 /\ Tells(subgroupMembers, subgroupMembers', e)
    BY <1>2, OpTells
  <2>2. emitted' # << >> /\ emitted'[1] = e /\ DOMAIN emitted' = {1}
    BY <2>1
  <2>3. Speaks
    BY <2>1, <2>2 DEF Speaks
  <2>4. groups' = subgroupMembers' /\ threw' = FALSE
    BY <1>2, <2>1, <2>2, <2>3 DEF HarnessNext, HarnessInv, Tells
  <2>5. e.merkleTreeRoot = RootOf(groups'[EventSubgroup(e)])
    BY <2>1, <2>4 DEF Tells
  <2>6. LastEventIsTrue'
    BY <2>2, <2>5 DEF LastEventIsTrue
  <2> QED
    BY <2>4, <2>6 DEF HarnessInv
<1>3. CASE UNCHANGED harnessVars
  BY <1>3 DEF harnessVars, vars, groupsVars, forestVars, HarnessInv, LastEventIsTrue
<1> QED
  BY <1>1, <1>2, <1>3, StepSpeaks DEF HarnessNext

THEOREM HarnessInvHolds == HarnessSpec => [](IInv /\ HarnessInv)
<1>1. HarnessSpec => []IInv
  BY HarnessRunsContract, Invariance, PTL
<1>2. IInv /\ HarnessInv /\ [HarnessNext]_harnessVars => HarnessInv'
  BY HarnessKeeps
<1> QED
  BY <1>1, <1>2, HarnessStarts, PTL DEF HarnessSpec

-----------------------------------------------------------------------------
(***************************************************************************)
(* The theorems.                                                           *)
(***************************************************************************)
(* No method of a Group throws on the events of the contract.              *)
THEOREM NeverThrows == HarnessSpec => []GroupNeverThrows
<1>1. HarnessInv => GroupNeverThrows
  BY DEF HarnessInv, GroupNeverThrows
<1> QED
  BY <1>1, HarnessInvHolds, PTL

(* A Group has the root of the contract's tree, and of the last event.     *)
THEOREM RootsAreOnChain == HarnessSpec => []GroupRootIsOnChain
<1>1. IInv /\ HarnessInv => GroupRootIsOnChain
  <2> SUFFICES ASSUME IInv, HarnessInv PROVE GroupRootIsOnChain
    OBVIOUS
  <2>1. \A s \in Subgroups : groups[s] = merkleTrees[s].nodes
    BY DEF IInv, ForestInv, TreesConsistent, HarnessInv
  <2> QED
    BY <2>1 DEF GroupRootIsOnChain, HarnessInv, LastEventIsTrue, GroupRoot, Root
<1> QED
  BY <1>1, HarnessInvHolds, PTL

(* Where a commitment is once in a list, indexOf finds it, and where it is *)
(* not, indexOf says -1.                                                   *)
LEMMA indexOfIsPlace ==
  ASSUME NEW group \in Seq(Leaves), NEW c
  PROVE  /\ \A k \in 1 .. Len(group) :
              /\ group[k] = c
              /\ \A j \in 1 .. Len(group) : group[j] = c => j = k
              => indexOf(group, c) = k - 1
         /\ (\A k \in 1 .. Len(group) : group[k] # c) => indexOf(group, c) = -1
<1>1. ASSUME NEW k \in 1 .. Len(group), group[k] = c,
             \A j \in 1 .. Len(group) : group[j] = c => j = k
      PROVE  indexOf(group, c) = k - 1
  <2>1. Seqs!SelectInSeq(group, LAMBDA x : x = c) = k
    BY <1>1 DEF Seqs!SelectInSeq, Seqs!Min
  <2> QED
    BY <1>1, <2>1 DEF indexOf, Seqs!Contains
<1>2. ASSUME \A k \in 1 .. Len(group) : group[k] # c
      PROVE  indexOf(group, c) = -1
  BY <1>2 DEF indexOf, Seqs!Contains
<1> QED
  BY <1>1, <1>2

(* No commitment is twice in a Group, and indexOf finds each member where  *)
(* the contract's tree has it.                                             *)
THEOREM GroupPlacesAreUnique == HarnessSpec => []PlacesAreUnique
<1>1. IInv /\ HarnessInv => PlacesAreUnique
  <2> SUFFICES ASSUME IInv, HarnessInv, NEW s \in Subgroups, NEW c \in Commitments
               PROVE  /\ \A i, j \in DOMAIN groups[s] :
                           groups[s][i] = c /\ groups[s][j] = c => i = j
                      /\ indexOf(groups[s], c) = IndexOf(merkleTrees[s], c)
    BY DEF PlacesAreUnique
  <2>1. Consistent(merkleTrees[s]) /\ groups[s] = merkleTrees[s].nodes
    BY DEF IInv, ForestInv, TreesConsistent, HarnessInv
  <2>2. groups[s] \in Seq(Leaves) /\ NoDuplicateIn(groups)
    BY DEF IInv, ForestInv, ForestTypeOK, NoDuplicateIn, HarnessInv, Holds
  <2>3. ASSUME NEW i \in 1 .. Len(groups[s]), NEW j \in 1 .. Len(groups[s]),
               groups[s][i] = c, groups[s][j] = c
        PROVE  i = j
    <3>1. i \in Nat /\ j \in Nat /\ Holds(groups, s, i, c) /\ Holds(groups, s, j, c)
      BY <2>2, <2>3 DEF Holds
    <3> QED
      BY <2>2, <3>1 DEF NoDuplicateIn
  <2>4. ASSUME Has(merkleTrees[s], c)
        PROVE  indexOf(groups[s], c) = IndexOf(merkleTrees[s], c)
    <3>1. /\ IndexOf(merkleTrees[s], c) + 1 = merkleTrees[s].leaves[c]
          /\ merkleTrees[s].leaves[c] \in 1 .. Len(groups[s])
          /\ groups[s][merkleTrees[s].leaves[c]] = c
          /\ IndexOf(merkleTrees[s], c) \in Nat
      BY <2>1, <2>4, IndexOfIsPlace
    <3>2. indexOf(groups[s], c) = merkleTrees[s].leaves[c] - 1
      BY <2>2, <2>3, <3>1, indexOfIsPlace
    <3> QED
      BY <3>2 DEF IndexOf
  <2>5. ASSUME ~ Has(merkleTrees[s], c)
        PROVE  indexOf(groups[s], c) = IndexOf(merkleTrees[s], c)
    <3>1. merkleTrees[s].leaves[c] = 0
      BY <2>5 DEF Has
    <3>2. \A k \in 1 .. Len(groups[s]) : groups[s][k] # c
      BY <2>2, <2>1, <3>1 DEF Consistent
    <3>3. indexOf(groups[s], c) = -1
      BY <2>2, <3>2, indexOfIsPlace
    <3> QED
      BY <3>1, <3>3 DEF IndexOf
  <2> QED
    BY <2>2, <2>3, <2>4, <2>5, LenProperties
<1> QED
  BY <1>1, HarnessInvHolds, PTL
=============================================================================
