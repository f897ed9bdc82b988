-------------------------- MODULE RefinementProofs --------------------------
(***************************************************************************)
(* The contract implements the registry of members: the proof of           *)
(* ImplementsRegistry, by the mapping of SemaphoreRefinement, from IInv    *)
(* and ForestShape.                                                        *)
(***************************************************************************)
EXTENDS SemaphoreProofs, SemaphoreRefinement

-----------------------------------------------------------------------------
(***************************************************************************)
(* The mapping, for any lists M and any flags F.                           *)
(***************************************************************************)
UsedIn(M) == {place \in Subgroups \X LeafIds : place[2] + 1 \in 1 .. Len(M[place[1]])}

HomeIn(M, F, c) ==
  IF F[c] THEN CHOOSE place \in UsedIn(M) : M[place[1]][place[2] + 1] = c ELSE NoAddress

HomesIn(M, F) == [c \in Commitments |-> HomeIn(M, F, c)]

(* Every position of a list is a place of the registry.                    *)
Fit(M) == \A s \in Subgroups, i \in Nat : i \in 1 .. Len(M[s]) => i - 1 \in LeafIds

Good(M, F) ==
  /\ M \in Lists /\ F \in [Leaves -> BOOLEAN]
  /\ ExactIn(M, F) /\ NoDuplicateIn(M) /\ Fit(M)

(* The indices of leaves are numbers.                                      *)
LEMMA LeafIdsAreNumbers == LeafIds \subseteq Nat
<1>1. \A size \in TreeSizes : 0 .. size \subseteq Nat
  OBVIOUS
<1> QED
  BY <1>1 DEF LeafIds

(* The shape of the forest bounds the positions.                           *)
LEMMA ShapeFits ==
  ASSUME NEW M \in Lists, NEW count, NEW most \in [GroupIds -> TreeSizes \cup {0}],
         \A g \in GroupIds, t \in TreeIds : Shaped(M, g, t, count[g], most[g])
  PROVE  Fit(M)
<1> SUFFICES ASSUME NEW g \in GroupIds, NEW t \in TreeIds,
                    NEW i \in Nat, i \in 1 .. Len(M[<<g, t>>])
             PROVE  i - 1 \in LeafIds
  BY DEF Fit, Subgroups
<1>1. \A size \in TreeSizes : size \in Nat
  BY TreeSizesAreNumbers, Zenon
<1>2. Len(M[<<g, t>>]) \in Nat
  BY LenProperties DEF Lists, Subgroups
<1>3. Len(M[<<g, t>>]) <= most[g] \/ Len(M[<<g, t>>]) = 1
  BY DEF Shaped, SizeOf
<1>4. \E size \in TreeSizes : i - 1 \in 0 .. size
  <2>1. CASE Len(M[<<g, t>>]) = 1
    <3>1. PICK size \in TreeSizes : TRUE
      BY PlacesAreKnown
    <3> QED
      BY <1>1, <2>1, <3>1
  <2>2. CASE Len(M[<<g, t>>]) <= most[g]
    <3>1. most[g] \in TreeSizes
      <4>1. most[g] # 0
        BY <1>2, <2>2
      <4> QED
        BY <4>1
    <3> QED
      BY <1>1, <1>2, <2>2, <3>1
  <2> QED
    BY <1>3, <2>1, <2>2
<1> QED
  BY <1>4 DEF LeafIds

(* What the mapping needs holds before a step ...                          *)
LEMMA GoodNow == IInv /\ ForestShape => Good(subgroupMembers, globalMembers)
<1> SUFFICES ASSUME IInv, ForestShape PROVE Good(subgroupMembers, globalMembers)
  OBVIOUS
<1>1. subgroupMembers \in Lists
  BY DEF IInv, ForestInv, ForestTypeOK, Lists
<1>2. Fit(subgroupMembers)
  BY <1>1, ShapeFits, ShapeIsBySize DEF IInv, TypeOK, GroupTypeOK
<1> QED
  BY <1>1, <1>2 DEF Good, IInv, ForestInv, ForestTypeOK

(* A member's home is the one position that holds it.                      *)
LEMMA HomeIsPlace ==
  ASSUME NEW M, NEW F, Good(M, F), NEW c \in Commitments,
         NEW s \in Subgroups, NEW i \in Nat, Holds(M, s, i, c)
  PROVE  HomeIn(M, F, c) = <<s, i - 1>> /\ F[c]
<1> DEFINE Is(place) == M[place[1]][place[2] + 1] = c
<1>1. F[c]
  BY DEF Good, ExactIn
<1>2. <<s, i - 1>> \in UsedIn(M) /\ Is(<<s, i - 1>>)
  <2>1. i - 1 \in LeafIds /\ (i - 1) + 1 = i /\ i \in 1 .. Len(M[s]) /\ M[s][i] = c
    BY DEF Good, Fit, Holds
  <2> QED
    BY <2>1 DEF UsedIn
<1>3. ASSUME NEW place \in UsedIn(M), Is(place)
      PROVE  place = <<s, i - 1>>
  <2>1. PICK s2 \in Subgroups, j \in LeafIds : place = <<s2, j>>
    BY DEF UsedIn
  <2>2. j \in Nat /\ j + 1 \in Nat
    BY LeafIdsAreNumbers
  <2>3. Holds(M, s2, j + 1, c)
    BY <1>3, <2>1 DEF UsedIn, Holds
  <2>4. s2 = s /\ j + 1 = i
    BY <2>2, <2>3 DEF Good, NoDuplicateIn
  <2> QED
    BY <2>1, <2>2, <2>4
<1>4. (CHOOSE place \in UsedIn(M) : Is(place)) = <<s, i - 1>>
  <2> HIDE DEF Is
  <2> QED
    BY <1>2, <1>3
<1> QED
  BY <1>1, <1>4 DEF HomeIn

(* Who is not flagged has no place.                                        *)
LEMMA NoHome ==
  ASSUME NEW M, NEW F, NEW c, ~ F[c]
  PROVE  HomeIn(M, F, c) = NoAddress
BY DEF HomeIn

(* Who is a member holds some position, and so has a place.                *)
LEMMA MemberHasPlace ==
  ASSUME NEW M, NEW F, Good(M, F), NEW c \in Commitments, F[c]
  PROVE  /\ \E s \in Subgroups, i \in Nat : Holds(M, s, i, c)
         /\ HomeIn(M, F, c) # NoAddress
<1>1. PICK s \in Subgroups, i \in Nat : Holds(M, s, i, c)
  BY DEF Good, ExactIn
<1>2. HomeIn(M, F, c) = <<s, i - 1>>
  BY <1>1, HomeIsPlace
<1>3. <<s, i - 1>> \in Subgroups \X LeafIds
  BY <1>1 DEF Good, Fit, Holds
<1> QED
  BY <1>1, <1>2, <1>3, PlacesAreKnown

(* Who keeps position and flag keeps its home.                             *)
LEMMA HomeKept ==
  ASSUME NEW M, NEW F, NEW N, NEW G, Good(M, F), Good(N, G), NEW c \in Commitments,
         F[c] <=> G[c],
         \A s \in Subgroups, i \in Nat : Holds(M, s, i, c) => Holds(N, s, i, c)
  PROVE  HomeIn(N, G, c) = HomeIn(M, F, c)
<1>1. CASE ~ F[c]
  BY <1>1, NoHome
<1>2. CASE F[c]
  <2>1. PICK s \in Subgroups, i \in Nat : Holds(M, s, i, c)
    BY <1>2, MemberHasPlace
  <2> QED
    BY <2>1, HomeIsPlace
<1> QED
  BY <1>1, <1>2

-----------------------------------------------------------------------------
(***************************************************************************)
(* The two ways lists and flags change, as the registry sees them.         *)
(***************************************************************************)
Appended(M, F, N, G, s0, leaf) ==
  N = [M EXCEPT ![s0] = Append(M[s0], leaf)] /\ G = [F EXCEPT ![leaf] = TRUE]

Enrolled(M, F, N, G, leaf) ==
  \E place \in Subgroups \X LeafIds :
    /\ HomesIn(M, F)[leaf] = NoAddress /\ place \notin UsedIn(M)
    /\ HomesIn(N, G) = [HomesIn(M, F) EXCEPT ![leaf] = place]
    /\ UsedIn(N) = UsedIn(M) \cup {place}

(* A leaf appended and flagged: one more member, at one more place.        *)
LEMMA AppendEnrols ==
  ASSUME NEW M, NEW F, NEW N, NEW G, Good(M, F), Good(N, G),
         NEW s0 \in Subgroups, NEW leaf \in Commitments, ~ F[leaf],
         Appended(M, F, N, G, s0, leaf)
  PROVE  Enrolled(M, F, N, G, leaf)
<1> DEFINE n == Len(M[s0])
           place == <<s0, n>>
<1>1. /\ M \in Lists /\ F \in [Leaves -> BOOLEAN] /\ leaf \in Leaves
      /\ M[s0] \in Seq(Leaves) /\ n \in Nat /\ n + 1 \in Nat
  BY LenProperties DEF Good, Lists, Leaves
<1>2. \A s \in Subgroups, i \in Nat, c \in Commitments :
        Holds(N, s, i, c) <=> Holds(M, s, i, c) \/ (s = s0 /\ i = n + 1 /\ c = leaf)
  BY <1>1, AppendHolds DEF Appended
<1>3. Holds(N, s0, n + 1, leaf)
  BY <1>1, <1>2
<1>4. HomeIn(N, G, leaf) = place
  <2>1. HomeIn(N, G, leaf) = <<s0, (n + 1) - 1>>
    BY <1>1, <1>3, HomeIsPlace
  <2> QED
    BY <1>1, <2>1
<1>5. place \in Subgroups \X LeafIds
  <2>1. (n + 1) - 1 \in LeafIds
    BY <1>1, <1>3 DEF Good, Fit, Holds
  <2> QED
    BY <1>1, <2>1
<1>6. \A c \in Commitments : c # leaf => HomeIn(N, G, c) = HomeIn(M, F, c)
  <2> SUFFICES ASSUME NEW c \in Commitments, c # leaf
               PROVE  HomeIn(N, G, c) = HomeIn(M, F, c)
    OBVIOUS
  <2>1. F[c] <=> G[c]
    BY <1>1 DEF Leaves, Appended
  <2>2. \A s \in Subgroups, i \in Nat : Holds(M, s, i, c) => Holds(N, s, i, c)
    BY <1>2
  <2> QED
    BY <2>1, <2>2, HomeKept
<1>7. \A s \in Subgroups : Len(N[s]) = IF s = s0 THEN n + 1 ELSE Len(M[s])
  BY <1>1, AppendProperties DEF Lists, Appended
<1>8. UsedIn(N) = UsedIn(M) \cup {place} /\ place \notin UsedIn(M)
  <2>1. ASSUME NEW s \in Subgroups, NEW j \in LeafIds
        PROVE  j + 1 \in 1 .. Len(N[s]) <=> j + 1 \in 1 .. Len(M[s]) \/ <<s, j>> = place
    <3>1. j \in Nat
      BY LeafIdsAreNumbers
    <3> HIDE DEF n
    <3> QED
      BY <1>1, <1>7, <3>1 DEF n
  <2>2. ~ (n + 1 \in 1 .. Len(M[s0]))
    BY <1>1
  <2> QED
    BY <1>5, <2>1, <2>2 DEF UsedIn
<1> HIDE DEF place
<1>9. HomesIn(N, G) = [HomesIn(M, F) EXCEPT ![leaf] = place]
  BY <1>4, <1>6 DEF HomesIn
<1>10. HomesIn(M, F)[leaf] = NoAddress
  BY NoHome DEF HomesIn
<1> QED
  BY <1>5, <1>8, <1>9, <1>10 DEF Enrolled

Withdrawn(H, K, old) == K = [H EXCEPT ![old] = NoAddress]

Substituted(H, K, old, new) ==
  H[new] = NoAddress /\ K = [H EXCEPT ![old] = NoAddress, ![new] = H[old]]

(* A leaf written over the member old.                                     *)
LEMMA WriteSubstitutes ==
  ASSUME NEW M, NEW F, NEW N, NEW G, Good(M, F), Good(N, G),
         NEW s0 \in Subgroups, NEW k \in 1 .. Len(M[s0]), NEW old \in Commitments,
         M[s0][k] = old, NEW new \in Leaves, new \in Commitments => ~ F[new],
         Overwritten(M, N, s0, k, new), Reflagged(F, G, old, new)
  PROVE  /\ UsedIn(N) = UsedIn(M)
         /\ HomesIn(M, F)[old] # NoAddress
         /\ new = Zero => Withdrawn(HomesIn(M, F), HomesIn(N, G), old)
         /\ new \in Commitments => Substituted(HomesIn(M, F), HomesIn(N, G), old, new)
<1>1. /\ k \in Nat /\ Holds(M, s0, k, old)
      /\ new = Zero => new \notin Commitments
  BY ZeroIsNoCommitment DEF Holds, Good, Lists
<1>2. UsedIn(N) = UsedIn(M)
  <2>1. \A s \in Subgroups : Len(N[s]) = Len(M[s])
    BY DEF Overwritten
  <2> QED
    BY <2>1 DEF UsedIn
<1>3. HomeIn(M, F, old) = <<s0, k - 1>> /\ F[old]
  BY <1>1, HomeIsPlace
<1>4. HomeIn(M, F, old) # NoAddress
  BY <1>3, MemberHasPlace
<1>5. new # old
  BY <1>3
<1>6. HomeIn(N, G, old) = NoAddress
  BY <1>5, NoHome DEF Reflagged
<1>7. ASSUME NEW c \in Commitments, c # old, c # new
      PROVE  HomeIn(N, G, c) = HomeIn(M, F, c)
  <2>1. F[c] <=> G[c]
    BY <1>7 DEF Reflagged
  <2>2. ASSUME NEW s \in Subgroups, NEW i \in Nat, Holds(M, s, i, c)
        PROVE  Holds(N, s, i, c)
    BY <1>1, <1>7, <2>2 DEF Holds, Overwritten
  <2> QED
    BY <2>1, <2>2, HomeKept
<1>8. ASSUME new \in Commitments
      PROVE  HomeIn(N, G, new) = HomeIn(M, F, old) /\ HomeIn(M, F, new) = NoAddress
  <2>1. Holds(N, s0, k, new)
    BY DEF Holds, Overwritten
  <2>2. HomeIn(N, G, new) = <<s0, k - 1>>
    BY <1>1, <1>8, <2>1, HomeIsPlace
  <2> QED
    BY <1>3, <1>8, <2>2, NoHome
<1>9. new = Zero => HomesIn(N, G) = [HomesIn(M, F) EXCEPT ![old] = NoAddress]
  BY <1>1, <1>6, <1>7 DEF HomesIn
<1>10. new \in Commitments =>
         HomesIn(N, G) = [HomesIn(M, F) EXCEPT ![old] = NoAddress,
                                               ![new] = HomesIn(M, F)[old]]
  BY <1>5, <1>6, <1>7, <1>8 DEF HomesIn
<1> QED
  BY <1>2, <1>4, <1>8, <1>9, <1>10 DEF HomesIn, Withdrawn, Substituted

-----------------------------------------------------------------------------
(***************************************************************************)
(* The steps of the contract.                                              *)
(***************************************************************************)
Homes == HomesIn(subgroupMembers, globalMembers)

Used == UsedIn(subgroupMembers)

(* A step of the registry, over the mapping.                               *)
RegistryStep ==
  \/ \E m \in Commitments, place \in Subgroups \X LeafIds :
       /\ Homes[m] = NoAddress /\ place \notin Used
       /\ Homes' = [Homes EXCEPT ![m] = place] /\ Used' = Used \cup {place}
  \/ \E m \in Commitments :
       /\ Homes[m] # NoAddress
       /\ Homes' = [Homes EXCEPT ![m] = NoAddress] /\ Used' = Used
  \/ \E old, new \in Commitments :
       /\ Homes[old] # NoAddress /\ Homes[new] = NoAddress
       /\ Homes' = [Homes EXCEPT ![old] = NoAddress, ![new] = Homes[old]]
       /\ Used' = Used

Facts == IInv /\ ForestShape

(* ... and after it.                                                       *)
LEMMA GoodThen ==
  ASSUME Facts' PROVE Good(subgroupMembers', globalMembers')
<1>1. subgroupMembers' \in Lists
  BY DEF Facts, IInv, ForestInv, ForestTypeOK, Lists
<1>2. Fit(subgroupMembers')
  <2>1. \A g \in GroupIds, t \in TreeIds :
          Shaped(subgroupMembers', g, t, groupTreeCount'[g], maxTreeSize'[g])
    BY DEF Facts, ForestShape, Shaped, SizeOf
  <2> QED
    BY <1>1, <2>1, ShapeFits DEF Facts, IInv, TypeOK, GroupTypeOK
<1> QED
  BY <1>1, <1>2 DEF Facts, Good, IInv, ForestInv, ForestTypeOK, ExactIn, NoDuplicateIn, Holds

(* addMember, and a step of addMembers, enrol.                             *)
LEMMA AddIsEnrol ==
  ASSUME Facts, Facts', NEW sender, NEW g \in GroupIds, NEW leaf \in Leaves,
         ~ globalMembers[leaf], _addMember(sender, g, leaf)
  PROVE  RegistryStep
<1>1. PICK s0 \in Subgroups :
        /\ Insertable(merkleTrees[s0], leaf)
        /\ globalMembers' = [globalMembers EXCEPT ![leaf] = TRUE]
        /\ subgroupMembers' = [subgroupMembers EXCEPT ![s0] = Append(subgroupMembers[s0], leaf)]
  BY DEF _addMember, Subgroups
<1>2. leaf \in Commitments
  BY <1>1 DEF Insertable, Leaves
<1>3. Good(subgroupMembers, globalMembers) /\ Good(subgroupMembers', globalMembers')
  BY GoodNow, GoodThen DEF Facts
<1>4. Appended(subgroupMembers, globalMembers, subgroupMembers', globalMembers', s0, leaf)
  BY <1>1 DEF Appended
<1>5. Enrolled(subgroupMembers, globalMembers, subgroupMembers', globalMembers', leaf)
  BY <1>2, <1>3, <1>4, AppendEnrols
<1> QED
  BY <1>2, <1>5 DEF RegistryStep, Enrolled, Homes, Used

(* What writes over a leaf withdraws its member or substitutes another.    *)
LEMMA WriteIsSubstitute ==
  ASSUME Facts, Facts', NEW s0 \in Subgroups, NEW old, NEW new \in Leaves,
         Has(merkleTrees[s0], old), new \in Commitments => ~ globalMembers[new],
         subgroupMembers' = [subgroupMembers EXCEPT ![s0] =
           [subgroupMembers[s0] EXCEPT ![IndexOf(merkleTrees[s0], old) + 1] = new]],
         Reflagged(globalMembers, globalMembers', old, new)
  PROVE  RegistryStep
<1> DEFINE k == IndexOf(merkleTrees[s0], old) + 1
<1>1. /\ Consistent(merkleTrees[s0]) /\ subgroupMembers[s0] = merkleTrees[s0].nodes
      /\ subgroupMembers \in Lists /\ old \in Commitments
  BY DEF Facts, IInv, ForestInv, TreesConsistent, ForestTypeOK, Lists, Has
<1>2. k \in 1 .. Len(subgroupMembers[s0]) /\ subgroupMembers[s0][k] = old
  BY <1>1, IndexOfIsPlace
<1> HIDE DEF k
<1>3. Overwritten(subgroupMembers, subgroupMembers', s0, k, new)
  <2>1. subgroupMembers' = [subgroupMembers EXCEPT ![s0] = [subgroupMembers[s0] EXCEPT ![k] = new]]
    BY DEF k
  <2> QED
    BY <1>1, <1>2, <2>1, ExceptOverwrites
<1>4. Good(subgroupMembers, globalMembers) /\ Good(subgroupMembers', globalMembers')
  BY GoodNow, GoodThen DEF Facts
<1>5. /\ Used' = Used
      /\ Homes[old] # NoAddress
      /\ new = Zero => Withdrawn(Homes, Homes', old)
      /\ new \in Commitments => Substituted(Homes, Homes', old, new)
  BY <1>1, <1>2, <1>3, <1>4, WriteSubstitutes DEF Homes, Used
<1>6. CASE new = Zero
  BY <1>1, <1>5, <1>6 DEF RegistryStep, Withdrawn
<1>7. CASE new \in Commitments
  BY <1>1, <1>5, <1>7 DEF RegistryStep, Substituted
<1> QED
  BY <1>6, <1>7 DEF Leaves

(* So each operation on members is one of the registry.                    *)
LEMMA OpIsRegistryStep ==
  ASSUME Facts, Facts', NEW sender, NEW g \in GroupIds, MemberOp(sender, g)
  PROVE  RegistryStep
<1>1. ASSUME NEW leaf \in Leaves, ~ globalMembers[leaf], _addMember(sender, g, leaf)
      PROVE  RegistryStep
  BY <1>1, AddIsEnrol
<1>2. ASSUME NEW t \in TreeIds, NEW old \in Commitments, NEW new \in Leaves,
             ~ globalMembers[new], _updateMember(sender, g, t, old, new)
      PROVE  RegistryStep
  <2>1. /\ <<g, t>> \in Subgroups /\ Has(merkleTrees[<<g, t>>], old)
        /\ globalMembers' = [globalMembers EXCEPT ![old] = FALSE, ![new] = TRUE]
        /\ subgroupMembers' = [subgroupMembers EXCEPT ![<<g, t>>] =
             [subgroupMembers[<<g, t>>] EXCEPT ![IndexOf(merkleTrees[<<g, t>>], old) + 1] = new]]
    BY <1>2 DEF _updateMember, Updatable, Subgroups
  <2>2. Reflagged(globalMembers, globalMembers', old, new)
    BY <2>1 DEF Reflagged, Facts, IInv, ForestInv, ForestTypeOK, Leaves
  <2> QED
    BY <1>2, <2>1, <2>2, WriteIsSubstitute
<1>3. ASSUME NEW t \in TreeIds, NEW leaf \in Commitments, _removeMember(sender, g, t, leaf)
      PROVE  RegistryStep
  <2>1. /\ <<g, t>> \in Subgroups /\ Has(merkleTrees[<<g, t>>], leaf)
        /\ globalMembers' = [globalMembers EXCEPT ![leaf] = FALSE]
        /\ Zero \in Leaves /\ Zero \notin Commitments
    BY <1>3, ZeroIsNoCommitment DEF _removeMember, Subgroups, Leaves
  <2>2. IndexOf(merkleTrees[<<g, t>>], leaf) < Len(subgroupMembers[<<g, t>>])
    <3>1. /\ Consistent(merkleTrees[<<g, t>>])
          /\ subgroupMembers[<<g, t>>] = merkleTrees[<<g, t>>].nodes
      BY <2>1 DEF Facts, IInv, ForestInv, TreesConsistent
    <3>2. /\ IndexOf(merkleTrees[<<g, t>>], leaf) \in Nat
          /\ IndexOf(merkleTrees[<<g, t>>], leaf) + 1 \in 1 .. Len(subgroupMembers[<<g, t>>])
          /\ Len(subgroupMembers[<<g, t>>]) \in Nat
      BY <2>1, <3>1, IndexOfIsPlace, ConsistentTree
    <3> QED
      BY <3>2
  <2>3. subgroupMembers' = [subgroupMembers EXCEPT ![<<g, t>>] =
          [subgroupMembers[<<g, t>>] EXCEPT ![IndexOf(merkleTrees[<<g, t>>], leaf) + 1] = Zero]]
    BY <1>3, <2>2 DEF _removeMember
  <2>4. Reflagged(globalMembers, globalMembers', leaf, Zero)
    BY <2>1 DEF Reflagged, Facts, IInv, ForestInv, ForestTypeOK, Leaves
  <2> QED
    BY <2>1, <2>3, <2>4, WriteIsSubstitute
<1> QED
  BY <1>1, <1>2, <1>3 DEF MemberOp

(* Every other step stutters.                                              *)
LEMMA StepIsRegistryStep ==
  ASSUME Facts, Facts', [Next]_vars
  PROVE  RegistryStep \/ UNCHANGED <<Homes, Used>>
<1>1. CASE UNCHANGED <<subgroupMembers, globalMembers>>
  BY <1>1 DEF Homes, Used, HomesIn, HomeIn, UsedIn
<1>2. CASE BatchStep
  <2>1. batch.groupId \in GroupIds
    BY DEF Facts, IInv, TypeOK
  <2> QED
    BY <1>2, <2>1, OpIsRegistryStep DEF BatchStep
<1>3. ASSUME NEW sender \in Accounts, NEW g \in GroupIds, MemberStep(sender, g)
      PROVE  RegistryStep
  BY <1>3, OpIsRegistryStep DEF MemberStep
<1>4. QuietStep \/ createGroup \/ BatchEnd \/ (\E sender \in Accounts : AdminStep(sender))
        => UNCHANGED <<subgroupMembers, globalMembers>>
  BY DEF QuietStep, createGroup, _createGroup, BatchEnd, AdminStep, forestVars
<1> QED
  BY <1>1, <1>2, <1>3, <1>4, StepKinds DEF Kinds, Facts

(* Every step of the contract is one of the registry or none, and no place *)
(* that was left is given to another newcomer.                             *)
THEOREM ContractImplementsRegistry == Spec => ImplementsRegistry
<1>1. /\ Homes = [c \in Commitments |-> HomeOf(c)]
      /\ Used = PlacesUsed
  BY DEF Homes, Used, HomesIn, HomeIn, HomeOf, UsedIn, PlacesUsed, Positions
<1>2. /\ Homes' = [c \in Commitments |-> HomeOf(c)]'
      /\ Used' = PlacesUsed'
  BY DEF Homes, Used, HomesIn, HomeIn, HomeOf, UsedIn, PlacesUsed, Positions
<1>3. Init => Registry!Init
  <2> SUFFICES ASSUME Init PROVE Registry!Init
    OBVIOUS
  <2>1. Used = {}
    <3>1. \A s \in Subgroups : Len(subgroupMembers[s]) = 0
      BY DEF Init, GroupsInit
    <3> QED
      BY <3>1, LeafIdsAreNumbers DEF Used, UsedIn
  <2>2. Homes = [c \in Commitments |-> NoAddress]
    BY DEF Init, GroupsInit, Homes, HomesIn, HomeIn, Leaves
  <2> QED
    BY <1>1, <2>1, <2>2 DEF Registry!Init
<1>4. Facts /\ Facts' /\ [Next]_vars
        => [Registry!Next]_<<[c \in Commitments |-> HomeOf(c)], PlacesUsed>>
  <2> SUFFICES ASSUME Facts, Facts', [Next]_vars
               PROVE  [Registry!Next]_<<[c \in Commitments |-> HomeOf(c)], PlacesUsed>>
    OBVIOUS
  <2>1. RegistryStep => Registry!Next
    BY <1>1, <1>2 DEF RegistryStep, Registry!Next, Registry!Enrol, Registry!Withdraw,
                      Registry!Substitute
  <2>2. UNCHANGED <<Homes, Used>> => UNCHANGED <<[c \in Commitments |-> HomeOf(c)], PlacesUsed>>
    BY <1>1, <1>2
  <2> QED
    BY <2>1, <2>2, StepIsRegistryStep
<1>5. IInv /\ ForestShape => Facts
  BY DEF Facts
<1> QED
  BY <1>3, <1>4, <1>5, Invariance, ForestIsShaped, PTL
  DEF Spec, ImplementsRegistry, Registry!Spec

-----------------------------------------------------------------------------
(***************************************************************************)
(* What follows from the registry alone, whoever implements it.            *)
(***************************************************************************)
(* Enrolling, withdrawing and substituting leave every member with one     *)
(* place or none and every place with one holder or none.                  *)
LEMMA RegistryGivesOnePlace == Registry!Spec => []Registry!OnePlacePerMember
<1> DEFINE home == [c \in Commitments |-> HomeOf(c)]
           used == PlacesUsed
           OnePlace == /\ home \in [Commitments -> used \cup {NoAddress}]
                       /\ used \subseteq Subgroups \X LeafIds
                       /\ \A m1, m2 \in Commitments :
                            home[m1] = home[m2] /\ home[m1] # NoAddress => m1 = m2
<1>1. OnePlace <=> Registry!OnePlacePerMember
  BY DEF Registry!OnePlacePerMember
<1>2. Registry!Init => OnePlace
  BY DEF Registry!Init
<1>3. OnePlace /\ [Registry!Next]_<<[c \in Commitments |-> HomeOf(c)], PlacesUsed>> => OnePlace'
  <2> SUFFICES ASSUME OnePlace, [Registry!Next]_<<[c \in Commitments |-> HomeOf(c)], PlacesUsed>>
               PROVE  OnePlace'
    OBVIOUS
  <2>1. CASE \E m \in Commitments, place \in Subgroups \X LeafIds : Registry!Enrol(m, place)
    <3>1. PICK m \in Commitments, place \in Subgroups \X LeafIds :
            /\ place \notin used /\ used' = used \cup {place}
            /\ home' = [home EXCEPT ![m] = place]
      BY <2>1 DEF Registry!Enrol
    <3> HIDE DEF home, used
    <3> QED
      BY <3>1
  <2>2. CASE \E m \in Commitments : Registry!Withdraw(m)
    <3>1. PICK m \in Commitments : used' = used /\ home' = [home EXCEPT ![m] = NoAddress]
      BY <2>2 DEF Registry!Withdraw
    <3> HIDE DEF home, used
    <3> QED
      BY <3>1
  <2>3. CASE \E old, new \in Commitments : Registry!Substitute(old, new)
    <3>1. PICK old \in Commitments, new \in Commitments :
            /\ home[new] = NoAddress /\ used' = used
            /\ home' = [home EXCEPT ![old] = NoAddress, ![new] = home[old]]
      BY <2>3 DEF Registry!Substitute
    <3> HIDE DEF home, used
    <3> QED
      BY <3>1
  <2>4. CASE UNCHANGED <<[c \in Commitments |-> HomeOf(c)], PlacesUsed>>
    <3>1. home' = home /\ used' = used
      BY <2>4
    <3> HIDE DEF home, used
    <3> QED
      BY <3>1
  <2> QED
    BY <2>1, <2>2, <2>3, <2>4 DEF Registry!Next
<1> HIDE DEF OnePlace
<1> QED
  BY <1>1, <1>2, <1>3, PTL DEF Registry!Spec

(* So the contract gives no two members one place in its snapshots, and no *)
(* place is held that was not given out.                                   *)
THEOREM OnePlace == Spec => []Registry!OnePlacePerMember
BY ContractImplementsRegistry, RegistryGivesOnePlace, PTL DEF ImplementsRegistry
=============================================================================
