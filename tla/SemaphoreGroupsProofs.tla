------------------------ MODULE SemaphoreGroupsProofs ------------------------
(***************************************************************************)
(* Lemmas about the operators of LeanIMT and about the internal functions  *)
(* of SemaphoreGroups, whoever calls them: the trees, the snapshots and    *)
(* the flags of the members stay in agreement.                             *)
(***************************************************************************)
EXTENDS SemaphoreGroups, TLAPS, WellFoundedInduction

-----------------------------------------------------------------------------
(* What stands in for induction in the modules that use these lemmas: a    *)
(* set of numbers that is not empty has a least one.                       *)
LEMMA LeastNumber ==
  ASSUME NEW T, T \subseteq Nat, T # {}
  PROVE  \E n \in T : \A m \in T : n <= m
<1>1. OpToRel(<, Nat) = {ss \in Nat \X Nat : ss[1] < ss[2]}
  BY DEF OpToRel
<1>2. \E x \in T : \A y \in T : ~ (<<y, x>> \in OpToRel(<, Nat))
  BY NatLessThanWellFounded, WFMin
<1>3. PICK x \in T : \A y \in T : ~ (<<y, x>> \in {ss \in Nat \X Nat : ss[1] < ss[2]})
  BY <1>1, <1>2, Zenon
<1>4. ASSUME NEW y \in T PROVE x <= y
  <2>1. x \in Nat /\ y \in Nat /\ <<y, x>> \in Nat \X Nat
    OBVIOUS
  <2>2. ~ (y < x)
    BY <1>3, <2>1
  <2> QED
    BY <2>1, <2>2
<1> QED
  BY <1>4

-----------------------------------------------------------------------------
(***************************************************************************)
(* Roots.  A node is 0, the commitment of an identity, a hash of two       *)
(* nodes, or something else that was enrolled; the first three are told    *)
(* apart.                                                                  *)
(***************************************************************************)
LEMMA ZeroIsNoCommitment == Zero \notin Commitments
BY ZeroIsNoOther DEF Zero, Commitments, Identities, IdentityCommitment

LEMMA HashesAreTold ==
  ASSUME NEW l, NEW r
  PROVE  /\ Hash(l, r) \notin Identities \cup {Zero}
         /\ \A a, b : Hash(l, r) = Hash(a, b) => l = a /\ r = b
<1>1. Len(Hash(l, r)) = 2 /\ Hash(l, r)[1] = l /\ Hash(l, r)[2] = r
  BY DEF Hash
<1>2. ASSUME NEW a, NEW b PROVE Hash(a, b)[1] = a /\ Hash(a, b)[2] = b
  BY DEF Hash
<1>3. \A key : Len(IdentityCommitment(key)) = 1
  BY DEF IdentityCommitment
<1>4. Len(Zero) = 0
  BY DEF Zero
<1>5. \A key : Hash(l, r) # IdentityCommitment(key)
  BY <1>1, <1>3
<1> QED
  BY <1>1, <1>2, <1>4, <1>5 DEF Identities

(* A set that has 0, and with each number up to n the next, has them all.  *)
LEMMA UpTo ==
  ASSUME NEW n \in Nat, NEW T, 0 \in T, \A k \in 1 .. n : k - 1 \in T => k \in T
  PROVE  \A k \in 0 .. n : k \in T
<1> DEFINE Missing == {k \in 0 .. n : k \notin T}
<1> SUFFICES ASSUME Missing # {} PROVE FALSE
  OBVIOUS
<1>1. Missing \subseteq Nat
  OBVIOUS
<1> HIDE DEF Missing
<1>2. PICK k \in Missing : \A m \in Missing : k <= m
  BY <1>1, LeastNumber
<1>3. k \in 1 .. n /\ k \notin T /\ k - 1 \in 0 .. n /\ ~ (k <= k - 1)
  BY <1>2 DEF Missing
<1>4. k - 1 \notin Missing
  BY <1>2, <1>3
<1> QED
  BY <1>3, <1>4 DEF Missing

(* The levels exist: each is what lies above the one before.               *)
LevelsUpTo(nodes, n, f) == f = [i \in 0 .. n |-> IF i = 0 THEN nodes ELSE Above(f[i - 1])]

LEMMA LevelsExist ==
  ASSUME NEW nodes, Len(nodes) \in Nat
  PROVE  /\ Levels(nodes)[0] = nodes
         /\ \A k \in 1 .. Len(nodes) : Levels(nodes)[k] = Above(Levels(nodes)[k - 1])
<1> DEFINE n == Len(nodes)
           T == {k \in 0 .. n : \E f : LevelsUpTo(nodes, k, f)}
<1>1. 0 \in T
  <2> DEFINE f == [i \in 0 .. 0 |-> nodes]
  <2>1. f = [i \in 0 .. 0 |-> IF i = 0 THEN nodes ELSE Above(f[i - 1])]
    OBVIOUS
  <2>2. LevelsUpTo(nodes, 0, f)
    BY <2>1 DEF LevelsUpTo
  <2> HIDE DEF f
  <2> QED
    BY <2>2
<1>2. ASSUME NEW k \in 1 .. n, k - 1 \in T PROVE k \in T
  <2>1. PICK f : LevelsUpTo(nodes, k - 1, f)
    BY <1>2
  <2>2. \A i \in 0 .. k - 1 : f[i] = IF i = 0 THEN nodes ELSE Above(f[i - 1])
    BY <2>1 DEF LevelsUpTo
  <2> DEFINE g == [i \in 0 .. k |-> IF i = k THEN Above(f[k - 1]) ELSE f[i]]
  <2>3. ASSUME NEW i \in 0 .. k PROVE g[i] = IF i = 0 THEN nodes ELSE Above(g[i - 1])
    <3>1. CASE i = 0
      BY <2>2, <3>1
    <3>2. CASE i # 0
      <4>1. i - 1 \in 0 .. k /\ i - 1 # k /\ (i = k \/ i \in 0 .. k - 1)
        BY <3>2
      <4>2. g[i - 1] = f[i - 1]
        BY <4>1
      <4> QED
        BY <2>2, <3>2, <4>1, <4>2
    <3> QED
      BY <3>1, <3>2
  <2>4. DOMAIN g = 0 .. k /\ g = [i \in 0 .. k |-> g[i]]
    OBVIOUS
  <2> HIDE DEF g
  <2>5. g = [i \in 0 .. k |-> IF i = 0 THEN nodes ELSE Above(g[i - 1])]
    BY <2>3, <2>4
  <2>6. LevelsUpTo(nodes, k, g)
    BY <2>5 DEF LevelsUpTo
  <2> QED
    BY <2>6
<1>3. n \in 0 .. n /\ (n \in T => \E f : LevelsUpTo(nodes, n, f))
  OBVIOUS
<1> HIDE DEF T
<1>4. n \in T
  BY <1>1, <1>2, <1>3, UpTo
<1>5. Levels(nodes) = CHOOSE f : LevelsUpTo(nodes, n, f)
  BY DEF Levels, LevelsUpTo
<1>6. LevelsUpTo(nodes, n, Levels(nodes))
  BY <1>3, <1>4, <1>5
<1>7. \A i \in 0 .. n : Levels(nodes)[i] = IF i = 0 THEN nodes ELSE Above(Levels(nodes)[i - 1])
  BY <1>6 DEF LevelsUpTo
<1> QED
  BY <1>7

(* The nodes of a level, and how those of the next come from them.         *)
LEMMA AboveNodes ==
  ASSUME NEW level, Len(level) \in Nat, Len(level) >= 1
  PROVE  /\ Len(Above(level)) \in Nat /\ Len(Above(level)) >= 1
         /\ Len(level) > 1 => Len(Above(level)) < Len(level)
         /\ Len(level) = 1 => Len(Above(level)) = 1
         /\ \A i \in 1 .. Len(Above(level)) :
              \/ /\ 2 * i - 1 \in 1 .. Len(level) /\ 2 * i \in 1 .. Len(level)
                 /\ Above(level)[i] = Hash(level[2 * i - 1], level[2 * i])
              \/ 2 * i - 1 = Len(level) /\ Above(level)[i] = level[2 * i - 1]
         /\ \A j \in 1 .. Len(level) : \E i \in 1 .. Len(Above(level)) : j = 2 * i - 1 \/ j = 2 * i
<1> DEFINE n == Len(level)
           h == (n + 1) \div 2
<1>1. h \in Nat /\ (2 * h = n \/ 2 * h = n + 1)
  OBVIOUS
<1>2. Len(Above(level)) = h
  BY <1>1 DEF Above
<1>3. \A i \in 1 .. h : Above(level)[i] = IF 2 * i <= n THEN Hash(level[2 * i - 1], level[2 * i]) ELSE level[2 * i - 1]
  BY DEF Above
<1> HIDE DEF h
<1>4. ASSUME NEW j \in 1 .. n PROVE \E i \in 1 .. h : j = 2 * i - 1 \/ j = 2 * i
  <2> DEFINE i == (j + 1) \div 2
  <2>1. i \in Nat /\ (2 * i = j \/ 2 * i = j + 1)
    OBVIOUS
  <2> HIDE DEF i
  <2>2. i \in 1 .. h
    BY <1>1, <2>1
  <2> QED
    BY <2>1, <2>2
<1>5. ASSUME NEW i \in 1 .. h
      PROVE  \/ /\ 2 * i - 1 \in 1 .. n /\ 2 * i \in 1 .. n
                /\ Above(level)[i] = Hash(level[2 * i - 1], level[2 * i])
             \/ 2 * i - 1 = n /\ Above(level)[i] = level[2 * i - 1]
  <2>1. CASE 2 * i <= n
    BY <1>3, <2>1
  <2>2. CASE ~ (2 * i <= n)
    <3>1. 2 * i - 1 = n
      BY <1>1, <2>2
    <3> QED
      BY <1>3, <2>2, <3>1
  <2> QED
    BY <2>1, <2>2
<1> QED
  BY <1>1, <1>2, <1>4, <1>5

(* There are fewer and fewer nodes, until there is one.                    *)
LEMMA LevelLengths ==
  ASSUME NEW nodes, Len(nodes) \in Nat, Len(nodes) >= 1
  PROVE  /\ \A k \in 0 .. Len(nodes) :
              Len(Levels(nodes)[k]) \in Nat /\ Len(Levels(nodes)[k]) >= 1
         /\ Len(Levels(nodes)[Len(nodes)]) = 1
<1> DEFINE n == Len(nodes)
           f == Levels(nodes)
           T == {k \in 0 .. n : /\ Len(f[k]) \in Nat /\ Len(f[k]) >= 1
                                /\ Len(f[k]) = 1 \/ Len(f[k]) <= n - k}
<1>1. f[0] = nodes /\ \A k \in 1 .. n : f[k] = Above(f[k - 1])
  BY LevelsExist
<1> HIDE DEF f
<1>2. 0 \in T
  BY <1>1
<1>3. ASSUME NEW k \in 1 .. n, k - 1 \in T PROVE k \in T
  <2>1. /\ k - 1 \in 0 .. n /\ Len(f[k - 1]) \in Nat /\ Len(f[k - 1]) >= 1
        /\ Len(f[k - 1]) = 1 \/ Len(f[k - 1]) <= n - (k - 1)
    BY <1>3
  <2>2. /\ Len(f[k]) \in Nat /\ Len(f[k]) >= 1
        /\ Len(f[k - 1]) > 1 => Len(f[k]) < Len(f[k - 1])
        /\ Len(f[k - 1]) = 1 => Len(f[k]) = 1
    BY <1>1, <2>1, AboveNodes
  <2>3. Len(f[k]) = 1 \/ Len(f[k]) <= n - k
    <3>1. \A a, b, m \in Nat :
            /\ a >= 1 /\ (a = 1 \/ a <= m - (k - 1)) /\ (a > 1 => b < a) /\ (a = 1 => b = 1)
            => b = 1 \/ b <= m - k
      OBVIOUS
    <3> QED
      BY <2>1, <2>2, <3>1
  <2>4. k \in 0 .. n
    OBVIOUS
  <2> QED
    BY <2>2, <2>3, <2>4
<1>4. \A k \in T : /\ Len(f[k]) \in Nat /\ Len(f[k]) >= 1
                   /\ Len(f[k]) = 1 \/ Len(f[k]) <= n - k
  OBVIOUS
<1> HIDE DEF T
<1>5. \A k \in 0 .. n : k \in T
  BY <1>2, <1>3, UpTo
<1> QED
  BY <1>4, <1>5 DEF f

(* From the root of a tree whose leaves are identities or 0, opening hashes *)
(* leads to nodes of the tree, and to no identity that is not a leaf.      *)
LEMMA NodesOfIdentities ==
  ASSUME NEW M \in Seq(Leaves), \A j \in DOMAIN M : M[j] \in Identities \cup {Zero}
  PROVE  \E N : /\ RootOf(M) \in N
                /\ \A l, r : Hash(l, r) \in N => l \in N /\ r \in N
                /\ \A c \in Identities : c \in N => \E j \in DOMAIN M : M[j] = c
<1>1. CASE M = << >>
  <2>1. RootOf(M) \in {Zero}
    BY <1>1 DEF RootOf
  <2>2. /\ \A l, r : Hash(l, r) \notin {Zero}
        /\ \A c \in Identities : c \notin {Zero}
    BY HashesAreTold, ZeroIsNoCommitment DEF Commitments
  <2> QED
    BY <2>1, <2>2
<1>2. CASE M # << >>
  <2> DEFINE n == Len(M)
             f == Levels(M)
             N == UNION {{f[k][i] : i \in 1 .. Len(f[k])} : k \in 0 .. n}
             Own(v) == /\ \A l, r : v = Hash(l, r) => l \in N /\ r \in N
                       /\ v \in Identities => \E j \in DOMAIN M : M[j] = v
             T == {k \in 0 .. n : \A i \in 1 .. Len(f[k]) : Own(f[k][i])}
  <2>1. n \in Nat /\ n >= 1 /\ DOMAIN M = 1 .. n
    BY <1>2
  <2>2. f[0] = M /\ \A k \in 1 .. n : f[k] = Above(f[k - 1])
    BY <2>1, LevelsExist
  <2>3. (\A k \in 0 .. n : Len(f[k]) \in Nat /\ Len(f[k]) >= 1) /\ Len(f[n]) = 1
    BY <2>1, LevelLengths
  <2>4. RootOf(M) = f[n][1]
    BY <1>2 DEF RootOf
  <2> HIDE DEF f, n
  <2>5. \A v : v \in N <=> \E k \in 0 .. n : \E i \in 1 .. Len(f[k]) : v = f[k][i]
    OBVIOUS
  <2> HIDE DEF N
  <2>6. 0 \in T
    <3>1. ASSUME NEW i \in 1 .. Len(f[0]) PROVE Own(f[0][i])
      <4>1. i \in DOMAIN M /\ f[0][i] = M[i]
        BY <2>1, <2>2 DEF n
      <4>2. f[0][i] \in Identities \cup {Zero}
        BY <4>1
      <4>3. \A l, r : f[0][i] # Hash(l, r)
        BY <4>2, HashesAreTold
      <4>4. f[0][i] \in Identities => \E j \in DOMAIN M : M[j] = f[0][i]
        BY <4>1
      <4> QED
        BY <4>3, <4>4
    <3>2. 0 \in 0 .. n
      BY <2>1
    <3> QED
      BY <3>1, <3>2
  <2>7. ASSUME NEW k \in 1 .. n, k - 1 \in T PROVE k \in T
    <3> DEFINE level == f[k - 1]
    <3>1. k - 1 \in 0 .. n /\ k \in 0 .. n
      BY <2>1
    <3>2. \A i \in 1 .. Len(level) : Own(level[i])
      BY <2>7
    <3>3. /\ Len(level) \in Nat /\ Len(level) >= 1 /\ f[k] = Above(level)
          /\ \A i \in 1 .. Len(level) : level[i] \in N
      BY <2>2, <2>3, <2>5, <3>1
    <3> HIDE DEF level
    <3>4. \A i \in 1 .. Len(Above(level)) :
            \/ /\ 2 * i - 1 \in 1 .. Len(level) /\ 2 * i \in 1 .. Len(level)
               /\ Above(level)[i] = Hash(level[2 * i - 1], level[2 * i])
            \/ 2 * i - 1 = Len(level) /\ Above(level)[i] = level[2 * i - 1]
      BY <3>3, AboveNodes
    <3>5. ASSUME NEW i \in 1 .. Len(f[k]) PROVE Own(f[k][i])
      <4>1. CASE /\ 2 * i - 1 \in 1 .. Len(level) /\ 2 * i \in 1 .. Len(level)
                 /\ f[k][i] = Hash(level[2 * i - 1], level[2 * i])
        <5>1. level[2 * i - 1] \in N /\ level[2 * i] \in N
          BY <3>3, <4>1
        <5>2. f[k][i] \notin Identities
          BY <4>1, HashesAreTold
        <5>3. \A l, r : f[k][i] = Hash(l, r) => l = level[2 * i - 1] /\ r = level[2 * i]
          <6> SUFFICES ASSUME NEW l, NEW r, f[k][i] = Hash(l, r)
                       PROVE  l = level[2 * i - 1] /\ r = level[2 * i]
            OBVIOUS
          <6>1. Hash(l, r) = Hash(level[2 * i - 1], level[2 * i])
            BY <4>1
          <6> QED
            BY <6>1, HashesAreTold
        <5> QED
          BY <5>1, <5>2, <5>3
      <4>2. CASE 2 * i - 1 = Len(level) /\ f[k][i] = level[2 * i - 1]
        <5>1. 2 * i - 1 \in 1 .. Len(level)
          BY <3>3, <4>2
        <5>2. Own(level[2 * i - 1])
          BY <3>2, <5>1
        <5>3. f[k][i] = level[2 * i - 1]
          BY <4>2
        <5> HIDE DEF Own
        <5> QED
          BY <5>2, <5>3
      <4> QED
        BY <3>3, <3>4, <4>1, <4>2
    <3> HIDE DEF Own
    <3> QED
      BY <3>1, <3>5
  <2>8. \A k \in T : \A i \in 1 .. Len(f[k]) : Own(f[k][i])
    OBVIOUS
  <2> HIDE DEF T
  <2>9. \A k \in 0 .. n : k \in T
    BY <2>1, <2>6, <2>7, UpTo
  <2>10. \A v \in N : Own(v)
    BY <2>5, <2>8, <2>9
  <2>11. RootOf(M) \in N
    BY <2>1, <2>3, <2>4, <2>5
  <2> QED
    BY <2>10, <2>11
<1> QED
  BY <1>1, <1>2

(* Two trees with one root: an identity that is a leaf of the one is a     *)
(* leaf of the other, if that has no other leaves than identities and 0.   *)
LEMMA IdentitiesUnderRoot ==
  ASSUME NEW L \in Seq(Leaves), NEW M \in Seq(Leaves), RootOf(L) = RootOf(M),
         \A j \in DOMAIN M : M[j] \in Identities \cup {Zero},
         NEW i \in DOMAIN L, L[i] \in Identities
  PROVE  \E j \in DOMAIN M : M[j] = L[i]
<1>1. PICK N : /\ RootOf(M) \in N
               /\ \A l, r : Hash(l, r) \in N => l \in N /\ r \in N
               /\ \A c \in Identities : c \in N => \E j \in DOMAIN M : M[j] = c
  BY NodesOfIdentities
<1> DEFINE n == Len(L)
           f == Levels(L)
           T == {k \in 0 .. n : \A j \in 1 .. Len(f[n - k]) : f[n - k][j] \in N}
<1>2. n \in Nat /\ n >= 1 /\ DOMAIN L = 1 .. n /\ L # << >>
  OBVIOUS
<1>3. f[0] = L /\ \A k \in 1 .. n : f[k] = Above(f[k - 1])
  BY <1>2, LevelsExist
<1>4. (\A k \in 0 .. n : Len(f[k]) \in Nat /\ Len(f[k]) >= 1) /\ Len(f[n]) = 1
  BY <1>2, LevelLengths
<1>5. f[n][1] \in N
  BY <1>1, <1>2 DEF RootOf
<1>6. n \in T => \A j \in 1 .. n : L[j] \in N
  BY <1>2, <1>3
<1> HIDE DEF f, n
<1>7. 0 \in T
  BY <1>2, <1>4, <1>5
<1>8. ASSUME NEW k \in 1 .. n, k - 1 \in T PROVE k \in T
  <2> DEFINE level == f[n - k]
  <2>1. n - k \in 0 .. n /\ n - (k - 1) \in 1 .. n /\ (n - (k - 1)) - 1 = n - k /\ k \in 0 .. n
    BY <1>2
  <2>2. f[n - (k - 1)] = Above(level) /\ Len(level) \in Nat /\ Len(level) >= 1
    BY <1>3, <1>4, <2>1
  <2>3. \A j \in 1 .. Len(Above(level)) : Above(level)[j] \in N
    BY <1>8, <2>2
  <2> HIDE DEF level
  <2>4. /\ \A j \in 1 .. Len(Above(level)) :
             \/ Above(level)[j] = Hash(level[2 * j - 1], level[2 * j])
             \/ 2 * j - 1 = Len(level) /\ Above(level)[j] = level[2 * j - 1]
        /\ \A j \in 1 .. Len(level) : \E h \in 1 .. Len(Above(level)) : j = 2 * h - 1 \/ j = 2 * h
        /\ Len(Above(level)) \in Nat
    BY <2>2, AboveNodes
  <2>5. ASSUME NEW j \in 1 .. Len(level) PROVE level[j] \in N
    <3>1. PICK h \in 1 .. Len(Above(level)) : j = 2 * h - 1 \/ j = 2 * h
      BY <2>4
    <3>2. CASE Above(level)[h] = Hash(level[2 * h - 1], level[2 * h])
      <4>1. Hash(level[2 * h - 1], level[2 * h]) \in N
        BY <2>3, <3>2
      <4>2. level[2 * h - 1] \in N /\ level[2 * h] \in N
        BY <1>1, <4>1
      <4> QED
        BY <3>1, <4>2
    <3>3. CASE 2 * h - 1 = Len(level) /\ Above(level)[h] = level[2 * h - 1]
      <4>1. j = 2 * h - 1
        BY <2>2, <3>1, <3>3
      <4> QED
        BY <2>3, <3>3, <4>1
    <3> QED
      BY <2>4, <3>2, <3>3
  <2> QED
    BY <2>1, <2>5 DEF level
<1> HIDE DEF T
<1>9. n \in T
  <2>1. n \in 0 .. n
    BY <1>2
  <2> QED
    BY <1>2, <1>7, <1>8, <2>1, UpTo
<1> QED
  BY <1>1, <1>2, <1>6, <1>9

-----------------------------------------------------------------------------
(***************************************************************************)
(* The tree.  Insert and Update keep a tree's map of leaves in agreement   *)
(* with its list of leaves, and write exactly the leaf they are meant to   *)
(* write.                                                                  *)
(***************************************************************************)
(* The empty tree that a mapping of Solidity starts with is consistent.    *)
LEMMA EmptyTreeConsistent == Consistent(EmptyTree)
BY DEF Consistent, EmptyTree, Tree, Leaves

(* A consistent tree is a tree: its nodes are leaves, its map is total.    *)
LEMMA ConsistentTree ==
  ASSUME NEW tree, Consistent(tree)
  PROVE  /\ tree \in Tree
         /\ tree.nodes \in Seq(Leaves)
         /\ tree.leaves \in [Commitments -> Nat]
BY DEF Consistent, Tree

(* _indexOf finds the leaf that _has says is there.                        *)
LEMMA IndexOfIsPlace ==
  ASSUME NEW tree, Consistent(tree), NEW leaf, Has(tree, leaf)
  PROVE  /\ IndexOf(tree, leaf) \in Nat
         /\ IndexOf(tree, leaf) + 1 = tree.leaves[leaf]
         /\ tree.leaves[leaf] \in 1 .. Len(tree.nodes)
         /\ tree.nodes[tree.leaves[leaf]] = leaf
<1>1. leaf \in Commitments /\ tree.leaves[leaf] # 0
  BY DEF Has
<1>2. tree.leaves[leaf] \in 0 .. Len(tree.nodes) /\ Len(tree.nodes) \in Nat
  BY <1>1, ConsistentTree DEF Consistent
<1>3. tree.leaves[leaf] \in 1 .. Len(tree.nodes)
  BY <1>1, <1>2
<1> QED
  BY <1>1, <1>3 DEF Consistent, IndexOf

(* _insert appends the leaf and records its place.                         *)
LEMMA InsertConsistent ==
  ASSUME NEW tree, Consistent(tree), NEW leaf \in Leaves, Insertable(tree, leaf)
  PROVE  /\ Consistent(Insert(tree, leaf))
         /\ Insert(tree, leaf).nodes = Append(tree.nodes, leaf)
<1> DEFINE new == Insert(tree, leaf)
<1>1. leaf \in Commitments /\ tree.leaves[leaf] = 0
  BY DEF Insertable, Has, Leaves
<1>2. tree.nodes \in Seq(Leaves) /\ tree.leaves \in [Commitments -> Nat]
  BY ConsistentTree
<1>3. /\ new.nodes = Append(tree.nodes, leaf)
      /\ new.leaves = [tree.leaves EXCEPT ![leaf] = Len(tree.nodes) + 1]
      /\ new = [nodes |-> new.nodes, leaves |-> new.leaves]
  BY DEF Insert
<1>4. new \in Tree /\ Len(new.nodes) = Len(tree.nodes) + 1 /\ Len(tree.nodes) \in Nat
  <2>1. Append(tree.nodes, leaf) \in Seq(Leaves) /\ Len(tree.nodes) \in Nat
    BY <1>2
  <2>2. Len(Append(tree.nodes, leaf)) = Len(tree.nodes) + 1
    BY <1>2
  <2>3. [tree.leaves EXCEPT ![leaf] = Len(tree.nodes) + 1] \in [Commitments -> Nat]
    BY <1>1, <1>2, <2>1
  <2>4. new \in Tree
    BY <2>1, <2>3 DEF Tree, Insert
  <2> QED
    BY <1>3, <2>1, <2>2, <2>4
<1>5. ASSUME NEW c \in Commitments
      PROVE  /\ new.leaves[c] \in 0 .. Len(new.nodes)
             /\ \A i \in 1 .. Len(new.nodes) : new.nodes[i] = c <=> new.leaves[c] = i
  <2>1. /\ tree.leaves[c] \in 0 .. Len(tree.nodes)
        /\ \A i \in 1 .. Len(tree.nodes) : tree.nodes[i] = c <=> tree.leaves[c] = i
    BY DEF Consistent
  <2>2. \A i \in 1 .. Len(tree.nodes) : tree.nodes[i] # leaf
    BY <1>1, <1>4 DEF Consistent
  <2>3. /\ \A i \in 1 .. Len(tree.nodes) : new.nodes[i] = tree.nodes[i]
        /\ new.nodes[Len(tree.nodes) + 1] = leaf
    BY <1>2, <1>3
  <2>4. CASE c = leaf
    BY <1>1, <1>2, <1>3, <1>4, <2>2, <2>3, <2>4
  <2>5. CASE c # leaf
    BY <1>1, <1>2, <1>3, <1>4, <2>1, <2>3, <2>5
  <2> QED
    BY <2>4, <2>5
<1> QED
  BY <1>3, <1>4, <1>5 DEF Consistent

(* _update writes the new leaf over the old one and leaves the others;     *)
(* _remove does the same with 0.                                           *)
LEMMA UpdateConsistent ==
  ASSUME NEW tree, Consistent(tree), NEW old, NEW new \in Leaves, Updatable(tree, old, new)
  PROVE  /\ Consistent(Update(tree, old, new))
         /\ Update(tree, old, new).nodes = [tree.nodes EXCEPT ![IndexOf(tree, old) + 1] = new]
<1> DEFINE k     == tree.leaves[old]
           after == Update(tree, old, new)
           moved == IF new = Zero THEN tree.leaves ELSE [tree.leaves EXCEPT ![new] = k]
<1>1. /\ old \in Commitments /\ k # 0
      /\ new \in Commitments => tree.leaves[new] = 0
      /\ new = Zero \/ new \in Commitments
      /\ old # new /\ old # Zero
  BY ZeroIsNoCommitment DEF Updatable, Has, Leaves
<1>2. /\ tree.nodes \in Seq(Leaves) /\ tree.leaves \in [Commitments -> Nat]
      /\ Len(tree.nodes) \in Nat
  BY ConsistentTree
<1>3. /\ k \in 1 .. Len(tree.nodes) /\ tree.nodes[k] = old /\ IndexOf(tree, old) + 1 = k
  BY IndexOfIsPlace DEF Updatable
<1>4. /\ after.nodes = [tree.nodes EXCEPT ![k] = new]
      /\ after.leaves = [moved EXCEPT ![old] = 0]
  BY DEF Update
<1>5. after \in Tree /\ Len(after.nodes) = Len(tree.nodes)
  <2>1. /\ [tree.nodes EXCEPT ![k] = new] \in Seq(Leaves)
        /\ Len([tree.nodes EXCEPT ![k] = new]) = Len(tree.nodes)
    BY <1>2, <1>3
  <2>2. moved \in [Commitments -> Nat]
    BY <1>1, <1>2
  <2>3. [moved EXCEPT ![old] = 0] \in [Commitments -> Nat]
    BY <1>1, <2>2
  <2>4. after \in Tree
    BY <2>1, <2>3 DEF Tree, Update
  <2> QED
    BY <1>4, <2>1, <2>4
<1>6. ASSUME NEW c \in Commitments
      PROVE  /\ after.leaves[c] \in 0 .. Len(after.nodes)
             /\ \A i \in 1 .. Len(after.nodes) : after.nodes[i] = c <=> after.leaves[c] = i
  <2>1. /\ tree.leaves[c] \in 0 .. Len(tree.nodes)
        /\ \A i \in 1 .. Len(tree.nodes) : tree.nodes[i] = c <=> tree.leaves[c] = i
    BY DEF Consistent
  <2>2. /\ \A i \in 1 .. Len(tree.nodes) : i # k => after.nodes[i] = tree.nodes[i]
        /\ after.nodes[k] = new
    BY <1>2, <1>3, <1>4
  <2>3. CASE c = old
    <3>1. after.leaves[c] = 0
      BY <1>1, <1>2, <1>4, <2>3
    <3>2. \A i \in 1 .. Len(tree.nodes) : i # k => tree.nodes[i] # c
      BY <1>3, <2>1, <2>3
    <3> QED
      BY <1>1, <1>2, <1>5, <2>2, <2>3, <3>1, <3>2
  <2>4. CASE c = new
    <3>1. after.leaves[c] = k
      BY <1>1, <1>2, <1>4, <2>4, ZeroIsNoCommitment
    <3>2. \A i \in 1 .. Len(tree.nodes) : tree.nodes[i] # c
      BY <1>1, <1>2, <2>1, <2>4
    <3> QED
      BY <1>3, <1>5, <2>2, <2>4, <3>1, <3>2
  <2>5. CASE c # old /\ c # new
    <3>1. after.leaves[c] = tree.leaves[c]
      BY <1>1, <1>2, <1>4, <2>5
    <3>2. tree.leaves[c] # k
      BY <1>3, <2>1, <2>5
    <3> QED
      BY <1>3, <1>5, <2>1, <2>2, <2>5, <3>1, <3>2
  <2> QED
    BY <2>3, <2>4, <2>5
<1>7. Consistent(after)
  BY <1>5, <1>6 DEF Consistent
<1> QED
  BY <1>3, <1>4, <1>7

-----------------------------------------------------------------------------
(***************************************************************************)
(* Lists and flags: what writing one leaf does to GlobalMembersExact and   *)
(* NoDuplicateMember, stated for any lists M and any flags F.              *)
(***************************************************************************)
Holds(M, s, i, leaf) == i \in 1 .. Len(M[s]) /\ M[s][i] = leaf

ExactIn(M, F) ==
  \A c \in Commitments : F[c] <=> \E s \in Subgroups : \E i \in Nat : Holds(M, s, i, c)

NoDuplicateIn(M) ==
  \A c \in Commitments, s1, s2 \in Subgroups, i, j \in Nat :
    Holds(M, s1, i, c) /\ Holds(M, s2, j, c) => s1 = s2 /\ i = j

Lists == [Subgroups -> Seq(Leaves)]

(* Appending a leaf adds one place and moves none.                         *)
LEMMA AppendHolds ==
  ASSUME NEW M \in Lists, NEW s0 \in Subgroups, NEW leaf \in Leaves,
         NEW s \in Subgroups, NEW i \in Nat, NEW c
  PROVE  Holds([M EXCEPT ![s0] = Append(M[s0], leaf)], s, i, c) <=>
           \/ Holds(M, s, i, c)
           \/ s = s0 /\ i = Len(M[s0]) + 1 /\ c = leaf
<1>1. M[s0] \in Seq(Leaves) /\ Len(M[s0]) \in Nat
  BY DEF Lists
<1>2. /\ Len(Append(M[s0], leaf)) = Len(M[s0]) + 1
      /\ \A k \in 1 .. Len(M[s0]) : Append(M[s0], leaf)[k] = M[s0][k]
      /\ Append(M[s0], leaf)[Len(M[s0]) + 1] = leaf
  BY <1>1
<1>3. CASE s = s0
  <2>1. [M EXCEPT ![s0] = Append(M[s0], leaf)][s] = Append(M[s0], leaf)
    BY <1>3 DEF Lists
  <2> QED
    BY <1>1, <1>2, <1>3, <2>1 DEF Holds
<1>4. CASE s # s0
  <2>1. [M EXCEPT ![s0] = Append(M[s0], leaf)][s] = M[s]
    BY <1>4 DEF Lists
  <2> QED
    BY <1>4, <2>1 DEF Holds
<1> QED
  BY <1>3, <1>4

(* M2 is M with one leaf written over another.                             *)
Overwritten(M, M2, s0, k, leaf) ==
  /\ M2 \in Lists
  /\ \A s \in Subgroups :
       /\ Len(M2[s]) = Len(M[s])
       /\ \A n \in 1 .. Len(M[s]) :
            M2[s][n] = IF s = s0 /\ n = k THEN leaf ELSE M[s][n]

LEMMA ExceptOverwrites ==
  ASSUME NEW M \in Lists, NEW s0 \in Subgroups, NEW k \in 1 .. Len(M[s0]), NEW leaf \in Leaves,
         NEW M2, M2 = [M EXCEPT ![s0] = [M[s0] EXCEPT ![k] = leaf]]
  PROVE  Overwritten(M, M2, s0, k, leaf)
<1> DEFINE L == [M[s0] EXCEPT ![k] = leaf]
<1>1. M[s0] \in Seq(Leaves) /\ Len(M[s0]) \in Nat /\ k \in Nat
  BY DEF Lists
<1>2. /\ L \in Seq(Leaves) /\ Len(L) = Len(M[s0])
      /\ \A n \in 1 .. Len(M[s0]) : L[n] = IF n = k THEN leaf ELSE M[s0][n]
  BY <1>1
<1>3. M2 = [M EXCEPT ![s0] = L]
  OBVIOUS
<1> HIDE DEF L
<1>4. /\ M2 \in Lists /\ M2[s0] = L
      /\ \A s \in Subgroups : s # s0 => M2[s] = M[s]
  BY <1>2, <1>3 DEF Lists
<1> QED
  BY <1>2, <1>4 DEF Overwritten

(* Adding a commitment that is not flagged, and flagging it.               *)
LEMMA AppendKeeps ==
  ASSUME NEW M \in Lists, NEW F \in [Leaves -> BOOLEAN], ExactIn(M, F), NoDuplicateIn(M),
         NEW s0 \in Subgroups, NEW leaf \in Commitments, ~ F[leaf],
         NEW M2, M2 = [M EXCEPT ![s0] = Append(M[s0], leaf)],
         NEW F2, F2 = [F EXCEPT ![leaf] = TRUE]
  PROVE  ExactIn(M2, F2) /\ NoDuplicateIn(M2)
<1>1. leaf \in Leaves /\ Commitments \subseteq Leaves /\ Len(M[s0]) + 1 \in Nat
  BY DEF Leaves, Lists
<1>2. \A s \in Subgroups, i \in Nat, c \in Commitments :
        Holds(M2, s, i, c) <=>
          \/ Holds(M, s, i, c)
          \/ s = s0 /\ i = Len(M[s0]) + 1 /\ c = leaf
  BY <1>1, AppendHolds
<1>3. \A s \in Subgroups, i \in Nat : ~ Holds(M, s, i, leaf)
  BY DEF ExactIn
<1>4. ASSUME NEW c \in Commitments
      PROVE  F2[c] <=> \E s \in Subgroups : \E i \in Nat : Holds(M2, s, i, c)
  <2>1. CASE c = leaf
    <3>1. Holds(M2, s0, Len(M[s0]) + 1, c)
      BY <1>1, <1>2, <2>1
    <3>2. F2[c]
      BY <1>1, <2>1
    <3> QED
      BY <1>1, <3>1, <3>2
  <2>2. CASE c # leaf
    <3>1. F2[c] <=> \E s \in Subgroups : \E i \in Nat : Holds(M, s, i, c)
      BY <1>1, <2>2 DEF ExactIn
    <3>2. \A s \in Subgroups, i \in Nat : Holds(M2, s, i, c) <=> Holds(M, s, i, c)
      BY <1>2, <2>2
    <3> QED
      BY <3>1, <3>2
  <2> QED
    BY <2>1, <2>2
<1>5. NoDuplicateIn(M2)
  BY <1>2, <1>3 DEF NoDuplicateIn
<1> QED
  BY <1>4, <1>5 DEF ExactIn

(* F2 is F with the flag taken from one commitment and given to another.   *)
Reflagged(F, F2, old, new) ==
  \A c \in Commitments : F2[c] <=> (F[c] /\ c # old) \/ c = new

(* Writing over a member: its flag goes, and the new leaf is flagged, if   *)
(* it is a commitment at all.                                              *)
LEMMA ReplaceKeeps ==
  ASSUME NEW M \in Lists, NEW F \in [Leaves -> BOOLEAN], ExactIn(M, F), NoDuplicateIn(M),
         NEW s0 \in Subgroups, NEW k \in 1 .. Len(M[s0]), NEW old \in Commitments,
         M[s0][k] = old, NEW new \in Leaves, new \in Commitments => ~ F[new],
         NEW M2, Overwritten(M, M2, s0, k, new),
         NEW F2, Reflagged(F, F2, old, new)
  PROVE  ExactIn(M2, F2) /\ NoDuplicateIn(M2)
<1>1. k \in Nat /\ Holds(M, s0, k, old)
  BY DEF Holds, Lists
<1>2. ASSUME NEW s \in Subgroups, NEW i \in Nat, NEW c \in Commitments
      PROVE  Holds(M2, s, i, c) <=>
               \/ Holds(M, s, i, c) /\ ~ (s = s0 /\ i = k)
               \/ s = s0 /\ i = k /\ c = new
  <2>1. /\ Len(M2[s]) = Len(M[s])
        /\ i \in 1 .. Len(M[s]) => M2[s][i] = IF s = s0 /\ i = k THEN new ELSE M[s][i]
    BY DEF Overwritten
  <2>2. CASE s = s0 /\ i = k
    BY <1>1, <2>1, <2>2 DEF Holds
  <2>3. CASE ~ (s = s0 /\ i = k)
    BY <2>1, <2>3 DEF Holds
  <2> QED
    BY <2>2, <2>3
<1>3. \A s \in Subgroups, i \in Nat, c \in Commitments :
        Holds(M, s, i, c) /\ ~ (s = s0 /\ i = k) => c # old /\ c # new
  BY <1>1 DEF NoDuplicateIn, ExactIn
<1>4. \A c \in Commitments : Holds(M, s0, k, c) => c = old
  BY <1>1 DEF Holds
<1>5. ASSUME NEW c \in Commitments
      PROVE  F2[c] <=> \E s \in Subgroups : \E i \in Nat : Holds(M2, s, i, c)
  <2>1. CASE c = new
    BY <1>1, <1>2, <2>1 DEF Reflagged
  <2>2. CASE c # new /\ c = old
    BY <1>2, <1>3, <2>2 DEF Reflagged
  <2>3. CASE c # new /\ c # old
    <3>1. F2[c] <=> \E s \in Subgroups : \E i \in Nat : Holds(M, s, i, c)
      BY <2>3 DEF ExactIn, Reflagged
    <3>2. \A s \in Subgroups, i \in Nat : Holds(M2, s, i, c) <=> Holds(M, s, i, c)
      BY <1>2, <1>4, <2>3
    <3> QED
      BY <3>1, <3>2
  <2> QED
    BY <2>1, <2>2, <2>3
<1>6. NoDuplicateIn(M2)
  BY <1>2, <1>3 DEF NoDuplicateIn
<1> QED
  BY <1>5, <1>6 DEF ExactIn

-----------------------------------------------------------------------------
(***************************************************************************)
(* The forest: trees, snapshots and the flags of the members.              *)
(***************************************************************************)
TreesConsistent ==
  \A s \in Subgroups : Consistent(merkleTrees[s]) /\ subgroupMembers[s] = merkleTrees[s].nodes

(* The part of the invariant that the membership operations disturb.       *)
ForestInv ==
  /\ ForestTypeOK
  /\ TreesConsistent
  /\ ExactIn(subgroupMembers, globalMembers)
  /\ NoDuplicateIn(subgroupMembers)

(* Adding a leaf that is no member keeps the forest's invariant.           *)
LEMMA AddMemberKeepsForest ==
  ASSUME ForestInv, NEW sender, NEW g \in GroupIds, NEW leaf \in Leaves,
         ~ globalMembers[leaf], _addMember(sender, g, leaf)
  PROVE  ForestInv'
<1>1. PICK s0 \in Subgroups :
        /\ Insertable(merkleTrees[s0], leaf)
        /\ merkleTrees' = [merkleTrees EXCEPT ![s0] = Insert(merkleTrees[s0], leaf)]
        /\ globalMembers' = [globalMembers EXCEPT ![leaf] = TRUE]
        /\ subgroupMembers' = [subgroupMembers EXCEPT ![s0] = Append(subgroupMembers[s0], leaf)]
  BY DEF _addMember, Subgroups
<1>2. /\ ForestTypeOK /\ TreesConsistent
      /\ Consistent(merkleTrees[s0]) /\ subgroupMembers[s0] = merkleTrees[s0].nodes
      /\ subgroupMembers[s0] \in Seq(Leaves)
  BY DEF ForestInv, TreesConsistent, ForestTypeOK
<1>3. leaf \in Commitments
  BY <1>1 DEF Insertable, Leaves
<1>4. /\ Consistent(Insert(merkleTrees[s0], leaf)) /\ Insert(merkleTrees[s0], leaf) \in Tree
      /\ Insert(merkleTrees[s0], leaf).nodes = Append(subgroupMembers[s0], leaf)
  BY <1>1, <1>2, InsertConsistent, ConsistentTree
<1>5. ForestTypeOK'
  BY <1>1, <1>2, <1>4 DEF ForestTypeOK
<1>6. TreesConsistent'
  BY <1>1, <1>2, <1>4 DEF TreesConsistent, ForestTypeOK
<1>7. ExactIn(subgroupMembers', globalMembers') /\ NoDuplicateIn(subgroupMembers')
  BY <1>1, <1>3, AppendKeeps DEF ForestInv, ForestTypeOK, Lists
<1> QED
  BY <1>5, <1>6, <1>7 DEF ForestInv, ExactIn, NoDuplicateIn, Holds

(* Writing over a member, on its tree, in its list and in the flags, keeps *)
(* the forest's invariant: what updateMember and removeMember share.       *)
LEMMA OverwriteKeepsForest ==
  ASSUME ForestInv, NEW s0 \in Subgroups, NEW old, NEW new \in Leaves,
         Updatable(merkleTrees[s0], old, new),
         new \in Commitments => ~ globalMembers[new],
         merkleTrees' = [merkleTrees EXCEPT ![s0] = Update(merkleTrees[s0], old, new)],
         subgroupMembers' = [subgroupMembers EXCEPT ![s0] =
           [subgroupMembers[s0] EXCEPT ![IndexOf(merkleTrees[s0], old) + 1] = new]],
         globalMembers' \in [Leaves -> BOOLEAN],
         Reflagged(globalMembers, globalMembers', old, new)
  PROVE  ForestInv'
<1> DEFINE tree == merkleTrees[s0]
           k    == IndexOf(tree, old) + 1
<1>1. /\ ForestTypeOK /\ TreesConsistent
      /\ Consistent(tree) /\ subgroupMembers[s0] = tree.nodes
      /\ subgroupMembers \in Lists /\ old \in Commitments
  BY DEF ForestInv, TreesConsistent, ForestTypeOK, Lists, Updatable, Has
<1>2. k \in 1 .. Len(subgroupMembers[s0]) /\ subgroupMembers[s0][k] = old
  BY <1>1, IndexOfIsPlace DEF Updatable
<1>3. /\ Consistent(Update(tree, old, new)) /\ Update(tree, old, new) \in Tree
      /\ Update(tree, old, new).nodes = [subgroupMembers[s0] EXCEPT ![k] = new]
  <2>1. /\ Consistent(Update(tree, old, new))
        /\ Update(tree, old, new).nodes = [tree.nodes EXCEPT ![k] = new]
    BY <1>1, UpdateConsistent
  <2> QED
    BY <1>1, <2>1, ConsistentTree
<1> HIDE DEF k
<1>4. Overwritten(subgroupMembers, subgroupMembers', s0, k, new)
  <2>1. subgroupMembers' = [subgroupMembers EXCEPT ![s0] = [subgroupMembers[s0] EXCEPT ![k] = new]]
    BY DEF k
  <2> QED
    BY <1>1, <1>2, <2>1, ExceptOverwrites
<1>5. ForestTypeOK'
  BY <1>1, <1>3, <1>4 DEF ForestTypeOK, Overwritten, Lists
<1>6. TreesConsistent'
  BY <1>1, <1>3 DEF TreesConsistent, ForestTypeOK, k
<1>7. ExactIn(subgroupMembers', globalMembers') /\ NoDuplicateIn(subgroupMembers')
  <2>1. /\ ExactIn(subgroupMembers, globalMembers) /\ NoDuplicateIn(subgroupMembers)
        /\ globalMembers \in [Leaves -> BOOLEAN]
    BY DEF ForestInv, ForestTypeOK
  <2> QED
    BY <1>1, <1>2, <1>4, <2>1, ReplaceKeeps
<1> QED
  BY <1>5, <1>6, <1>7 DEF ForestInv, ExactIn, NoDuplicateIn, Holds

(* Replacing a member by a leaf that is no member, 0 included.             *)
LEMMA UpdateMemberKeepsForest ==
  ASSUME ForestInv, NEW sender, NEW g \in GroupIds, NEW t \in TreeIds, NEW old, NEW new \in Leaves,
         ~ globalMembers[new], _updateMember(sender, g, t, old, new)
  PROVE  ForestInv'
<1> DEFINE s0 == <<g, t>>
<1>1. s0 \in Subgroups
  BY DEF Subgroups
<1>2. /\ Updatable(merkleTrees[s0], old, new)
      /\ merkleTrees' = [merkleTrees EXCEPT ![s0] = Update(merkleTrees[s0], old, new)]
      /\ globalMembers' = [globalMembers EXCEPT ![old] = FALSE, ![new] = TRUE]
      /\ subgroupMembers' = [subgroupMembers EXCEPT ![s0] =
           [subgroupMembers[s0] EXCEPT ![IndexOf(merkleTrees[s0], old) + 1] = new]]
  BY DEF _updateMember
<1>3. globalMembers \in [Leaves -> BOOLEAN] /\ Commitments \subseteq Leaves
  BY DEF ForestInv, ForestTypeOK, Leaves
<1>4. /\ globalMembers' \in [Leaves -> BOOLEAN]
      /\ Reflagged(globalMembers, globalMembers', old, new)
  BY <1>2, <1>3 DEF Reflagged
<1> QED
  BY <1>1, <1>2, <1>4, OverwriteKeepsForest

(* Removing a member: its leaf becomes 0.                                  *)
LEMMA RemoveMemberKeepsForest ==
  ASSUME ForestInv, NEW sender, NEW g \in GroupIds, NEW t \in TreeIds, NEW leaf,
         _removeMember(sender, g, t, leaf)
  PROVE  ForestInv'
<1> DEFINE s0 == <<g, t>>
           tree == merkleTrees[s0]
<1>1. s0 \in Subgroups /\ Zero \in Leaves /\ Zero \notin Commitments
  BY ZeroIsNoCommitment DEF Subgroups, Leaves
<1>2. /\ Has(tree, leaf) /\ ~ Has(tree, Zero)
      /\ Consistent(tree) /\ subgroupMembers[s0] = tree.nodes
  BY <1>1 DEF _removeMember, Has, ForestInv, TreesConsistent
<1>3. IndexOf(tree, leaf) < Len(subgroupMembers[s0])
  <2>1. /\ IndexOf(tree, leaf) \in Nat
        /\ IndexOf(tree, leaf) + 1 \in 1 .. Len(tree.nodes)
        /\ Len(tree.nodes) \in Nat
    BY <1>2, IndexOfIsPlace, ConsistentTree
  <2> QED
    BY <1>2, <2>1
<1>4. /\ merkleTrees' = [merkleTrees EXCEPT ![s0] = Update(tree, leaf, Zero)]
      /\ globalMembers' = [globalMembers EXCEPT ![leaf] = FALSE]
      /\ subgroupMembers' = [subgroupMembers EXCEPT ![s0] =
           [subgroupMembers[s0] EXCEPT ![IndexOf(tree, leaf) + 1] = Zero]]
  BY <1>3 DEF _removeMember, Remove
<1>5. /\ globalMembers' \in [Leaves -> BOOLEAN]
      /\ Reflagged(globalMembers, globalMembers', leaf, Zero)
  BY <1>1, <1>4 DEF ForestInv, ForestTypeOK, Leaves, Reflagged
<1>6. Updatable(tree, leaf, Zero)
  BY <1>2 DEF Updatable
<1> QED
  BY <1>1, <1>4, <1>5, <1>6, OverwriteKeepsForest

(* A step that leaves trees, lists and flags as they are.                  *)
LEMMA ForestUnchanged ==
  ASSUME ForestInv, UNCHANGED <<merkleTrees, globalMembers, subgroupMembers>>
  PROVE  ForestInv'
<1>1. ForestTypeOK'
  BY DEF ForestInv, ForestTypeOK
<1>2. TreesConsistent'
  BY DEF ForestInv, TreesConsistent
<1>3. ExactIn(subgroupMembers, globalMembers)' /\ NoDuplicateIn(subgroupMembers)'
  BY DEF ForestInv, ExactIn, NoDuplicateIn, Holds
<1> QED
  BY <1>1, <1>2, <1>3 DEF ForestInv

(* A new contract.                                                         *)
LEMMA EmptyForest == GroupsInit => ForestInv
<1> SUFFICES ASSUME GroupsInit
             PROVE  ForestInv
  OBVIOUS
<1> USE DEF GroupsInit
<1>1. ForestTypeOK /\ TreesConsistent
  <2>1. Consistent(EmptyTree) /\ EmptyTree \in Tree /\ EmptyTree.nodes = << >>
    BY EmptyTreeConsistent, ConsistentTree DEF EmptyTree
  <2> QED
    BY <2>1 DEF ForestTypeOK, TreesConsistent
<1>2. ExactIn(subgroupMembers, globalMembers) /\ NoDuplicateIn(subgroupMembers)
  <2>1. \A s \in Subgroups, i \in Nat : \A c : ~ Holds(subgroupMembers, s, i, c)
    BY DEF Holds
  <2> QED
    BY <2>1 DEF ExactIn, NoDuplicateIn, Leaves
<1> QED
  BY <1>1, <1>2 DEF ForestInv
=============================================================================
