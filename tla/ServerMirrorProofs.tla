------------------------- MODULE ServerMirrorProofs -------------------------
(***************************************************************************)
(* Theorems about ServerMirror, for any number of groups, commitments,     *)
(* events and crashes: types, what the files may say of the chain, that a  *)
(* known group is kept, and that a restart heals the mirror.               *)
(***************************************************************************)
EXTENDS ServerMirror, TLAPS, SequenceTheorems, FiniteSetTheorems, WellFoundedInduction

-----------------------------------------------------------------------------
(***************************************************************************)
(* Recursion over a list.  Handling a list of events is a recursive        *)
(* function; that it exists, and what it gives, is argued by induction,    *)
(* put as the least number of a set.                                       *)
(***************************************************************************)
LEMMA LeastNumber ==
  ASSUME NEW T, T \subseteq Nat, T # {}
  PROVE  \E n \in T : \A m \in T : n <= m
<1>1. OpToRel(<, Nat) = {ss \in Nat \X Nat : ss[1] < ss[2]}
  BY DEF OpToRel
<1>2. \E x \in T : \A y \in T : ~ (<<y, x>> \in OpToRel(<, Nat))
  BY NatLessThanWellFounded, WFMin
<1>3. PICK x \in T : \A y \in T : ~ (<<y, x>> \in {ss \in Nat \X Nat : ss[1] < ss[2]})
  BY <1>1, <1>2, Zenon
<1>4. ASSUME NEW y \in T PROVE x <= y
  <2>1. x \in Nat /\ y \in Nat /\ <<y, x>> \in Nat \X Nat
    OBVIOUS
  <2>2. ~ (y < x)
    BY <1>3, <2>1
  <2> QED
    BY <2>1, <2>2
<1> QED
  BY <1>4

(* A set that has 0, and with each number up to n the next, has them all.  *)
LEMMA UpTo ==
  ASSUME NEW n \in Nat, NEW T, 0 \in T, \A k \in 1 .. n : k - 1 \in T => k \in T
  PROVE  \A k \in 0 .. n : k \in T
<1> DEFINE Missing == {k \in 0 .. n : k \notin T}
<1> SUFFICES ASSUME Missing # {} PROVE FALSE
  OBVIOUS
<1>1. Missing \subseteq Nat
  OBVIOUS
<1> HIDE DEF Missing
<1>2. PICK k \in Missing : \A m \in Missing : k <= m
  BY <1>1, LeastNumber
<1>3. k \in 1 .. n /\ k \notin T /\ k - 1 \in 0 .. n /\ ~ (k <= k - 1)
  BY <1>2 DEF Missing
<1>4. k - 1 \notin Missing
  BY <1>2, <1>3
<1> QED
  BY <1>3, <1>4 DEF Missing

(* From any start, n functions can be applied one after another.           *)
Runs(n, F, x, f) == f[0] = x /\ \A k \in 1 .. n : f[k] = F[k][f[k - 1]]

LEMMA Recursion ==
  ASSUME NEW n \in Nat, NEW X, NEW x \in X, NEW F,
         \A k \in 1 .. n : \A y \in X : F[k][y] \in X
  PROVE  \E f \in [0 .. n -> X] : Runs(n, F, x, f)
<1> DEFINE T == {k \in 0 .. n : \E f \in [0 .. k -> X] : Runs(k, F, x, f)}
<1>1. 0 \in T
  <2> DEFINE f == [i \in 0 .. 0 |-> x]
  <2>1. f \in [0 .. 0 -> X] /\ Runs(0, F, x, f)
    BY DEF Runs
  <2> HIDE DEF f
  <2> QED
    BY <2>1
<1>2. ASSUME NEW k \in 1 .. n, k - 1 \in T PROVE k \in T
  <2>1. PICK f \in [0 .. k - 1 -> X] : Runs(k - 1, F, x, f)
    BY <1>2
  <2> DEFINE g == [i \in 0 .. k |-> IF i = k THEN F[k][f[k - 1]] ELSE f[i]]
  <2>2. k - 1 \in 0 .. k - 1 /\ 0 \in 0 .. k /\ k \in 0 .. k /\ 0 # k
    OBVIOUS
  <2>3. F[k][f[k - 1]] \in X
    BY <2>2
  <2>4. ASSUME NEW i \in 0 .. k PROVE g[i] \in X
    <3>1. i = k \/ i \in 0 .. k - 1
      OBVIOUS
    <3> QED
      BY <2>3, <3>1
  <2>5. g \in [0 .. k -> X]
    BY <2>4
  <2>6. Runs(k, F, x, g)
    <3>1. g[0] = x
      BY <2>1, <2>2 DEF Runs
    <3>2. ASSUME NEW i \in 1 .. k PROVE g[i] = F[i][g[i - 1]]
      <4>1. i \in 0 .. k /\ i - 1 \in 0 .. k /\ i - 1 # k
        OBVIOUS
      <4>2. i = k \/ (i \in 1 .. k - 1 /\ i # k)
        OBVIOUS
      <4> QED
        BY <2>1, <4>1, <4>2 DEF Runs
    <3> QED
      BY <3>1, <3>2 DEF Runs
  <2> HIDE DEF g
  <2> QED
    BY <2>5, <2>6
<1>3. n \in T => \E f \in [0 .. n -> X] : Runs(n, F, x, f)
  OBVIOUS
<1>4. n \in 0 .. n
  OBVIOUS
<1> HIDE DEF T
<1>5. n \in T
  BY <1>1, <1>2, <1>4, UpTo
<1> QED
  BY <1>3, <1>5

(* Where each step leads from the one set to the next, the end is in the   *)
(* last one.                                                               *)
LEMMA Reaches ==
  ASSUME NEW n \in Nat, NEW P, NEW f, f[0] \in P[0],
         \A i \in 1 .. n : f[i - 1] \in P[i - 1] => f[i] \in P[i]
  PROVE  f[n] \in P[n]
<1> DEFINE T == {i \in 0 .. n : f[i] \in P[i]}
<1>1. 0 \in T
  OBVIOUS
<1>2. ASSUME NEW i \in 1 .. n, i - 1 \in T PROVE i \in T
  <2>1. i \in 0 .. n /\ f[i - 1] \in P[i - 1]
    BY <1>2
  <2> QED
    BY <2>1
<1>3. n \in T => f[n] \in P[n]
  OBVIOUS
<1>4. n \in 0 .. n
  OBVIOUS
<1> HIDE DEF T
<1> QED
  BY <1>1, <1>2, <1>3, <1>4, UpTo

(* What the start is in, and no step leaves, the end is in.                *)
LEMMA Stays ==
  ASSUME NEW n \in Nat, NEW X, NEW f, f[0] \in X,
         \A i \in 1 .. n : f[i - 1] \in X => f[i] \in X
  PROVE  f[n] \in X
<1> DEFINE P == [i \in 0 .. n |-> X]
<1>1. /\ \A i \in 0 .. n : P[i] = X
      /\ 0 \in 0 .. n /\ n \in 0 .. n /\ \A i \in 1 .. n : i \in 0 .. n /\ i - 1 \in 0 .. n
  OBVIOUS
<1> HIDE DEF P
<1>2. f[0] \in P[0] /\ \A i \in 1 .. n : f[i - 1] \in P[i - 1] => f[i] \in P[i]
  BY <1>1
<1>3. f[n] \in P[n]
  BY <1>2, Reaches
<1> QED
  BY <1>1, <1>3

-----------------------------------------------------------------------------
(***************************************************************************)
(* Handling events one after another stays in every set that handling one  *)
(* stays in.                                                               *)
(***************************************************************************)
LEMMA MembersAfterSteps ==
  ASSUME NEW X, NEW m \in X, NEW E, NEW es \in Seq(E),
         \A y \in X, e \in E : Handled(y, e) \in X
  PROVE  \E f : /\ MembersAfter(m, es) = f[Len(es)] /\ f[0] = m
              /\ \A k \in 1 .. Len(es) : f[k] = Handled(f[k - 1], es[k])
<1>0. SUFFICES ASSUME NEW n \in Nat, n = Len(es)
               PROVE  \E f : /\ MembersAfter(m, es) = f[n] /\ f[0] = m
                             /\ \A k \in 1 .. n : f[k] = Handled(f[k - 1], es[k])
  OBVIOUS
<1> DEFINE Step(f) == [i \in 0 .. n |-> IF i = 0 THEN m ELSE Handled(f[i - 1], es[i])]
           A == CHOOSE f : f = Step(f)
           F == [k \in 1 .. n |-> [y \in X |-> Handled(y, es[k])]]
<1>1. \A k \in 1 .. n : es[k] \in E
  BY <1>0
<1>2. MembersAfter(m, es) = A[n]
  BY <1>0 DEF MembersAfter
<1>3. /\ \A k \in 1 .. n : \A y \in X : F[k][y] \in X
      /\ \A k \in 1 .. n : \A y \in X : F[k][y] = Handled(y, es[k])
  BY <1>1
<1> HIDE DEF F
<1>4. PICK f \in [0 .. n -> X] : Runs(n, F, m, f)
  BY <1>3, Recursion
<1>5. f = Step(f)
  <2>1. ASSUME NEW i \in 0 .. n
        PROVE  f[i] = IF i = 0 THEN m ELSE Handled(f[i - 1], es[i])
    <3>1. CASE i = 0
      BY <1>4, <3>1 DEF Runs
    <3>2. CASE i # 0
      <4>1. i \in 1 .. n /\ i - 1 \in 0 .. n
        BY <3>2
      <4> QED
        BY <1>3, <1>4, <3>2, <4>1 DEF Runs
    <3> QED
      BY <3>1, <3>2
  <2> QED
    BY <2>1
<1>6. A = Step(A)
  BY <1>5
<1> HIDE DEF A
<1>7. A[0] = m
  BY <1>6
<1>8. ASSUME NEW k \in 1 .. n PROVE A[k] = Handled(A[k - 1], es[k])
  <2>1. k \in 0 .. n /\ k # 0
    OBVIOUS
  <2> QED
    BY <1>6, <2>1
<1> QED
  BY <1>2, <1>7, <1>8

LEMMA MembersAfterIn ==
  ASSUME NEW X, NEW m \in X, NEW E, NEW es \in Seq(E),
         \A y \in X, e \in E : Handled(y, e) \in X
  PROVE  MembersAfter(m, es) \in X
<1>1. Len(es) \in Nat /\ \A k \in 1 .. Len(es) : es[k] \in E
  OBVIOUS
<1>2. PICK f : /\ MembersAfter(m, es) = f[Len(es)] /\ f[0] = m
               /\ \A k \in 1 .. Len(es) : f[k] = Handled(f[k - 1], es[k])
  BY MembersAfterSteps
<1>3. f[0] \in X /\ \A k \in 1 .. Len(es) : f[k - 1] \in X => f[k] \in X
  BY <1>1, <1>2
<1> QED
  BY <1>1, <1>2, <1>3, Stays

(* From set to set.                                                        *)
LEMMA MembersAfterReaches ==
  ASSUME NEW X, NEW m \in X, NEW E, NEW es \in Seq(E),
         \A y \in X, e \in E : Handled(y, e) \in X,
         NEW P, m \in P[0],
         \A k \in 1 .. Len(es) : \A y \in P[k - 1] : Handled(y, es[k]) \in P[k]
  PROVE  MembersAfter(m, es) \in P[Len(es)]
<1>1. Len(es) \in Nat
  OBVIOUS
<1>2. PICK f : /\ MembersAfter(m, es) = f[Len(es)] /\ f[0] = m
               /\ \A k \in 1 .. Len(es) : f[k] = Handled(f[k - 1], es[k])
  BY MembersAfterSteps
<1>3. f[0] \in P[0] /\ \A k \in 1 .. Len(es) : f[k - 1] \in P[k - 1] => f[k] \in P[k]
  BY <1>2
<1> QED
  BY <1>1, <1>2, <1>3, Reaches

LEMMA IdsAfterIn ==
  ASSUME NEW X, NEW ids \in X, NEW E, NEW es \in Seq(E),
         \A y \in X, e \in E : Filed(y, e) \in X
  PROVE  IdsAfter(ids, es) \in X
<1>0. SUFFICES ASSUME NEW n \in Nat, n = Len(es)
               PROVE  IdsAfter(ids, es) \in X
  OBVIOUS
<1> DEFINE Step(f) == [i \in 0 .. n |-> IF i = 0 THEN ids ELSE Filed(f[i - 1], es[i])]
           A == CHOOSE f : f = Step(f)
           F == [k \in 1 .. n |-> [y \in X |-> Filed(y, es[k])]]
<1>1. \A k \in 1 .. n : es[k] \in E
  BY <1>0
<1>2. IdsAfter(ids, es) = A[n]
  BY <1>0 DEF IdsAfter
<1>3. /\ \A k \in 1 .. n : \A y \in X : F[k][y] \in X
      /\ \A k \in 1 .. n : \A y \in X : F[k][y] = Filed(y, es[k])
  BY <1>1
<1> HIDE DEF F
<1>4. PICK f \in [0 .. n -> X] : Runs(n, F, ids, f)
  BY <1>3, Recursion
<1>5. f = Step(f)
  <2>1. ASSUME NEW i \in 0 .. n
        PROVE  f[i] = IF i = 0 THEN ids ELSE Filed(f[i - 1], es[i])
    <3>1. CASE i = 0
      BY <1>4, <3>1 DEF Runs
    <3>2. CASE i # 0
      <4>1. i \in 1 .. n /\ i - 1 \in 0 .. n
        BY <3>2
      <4> QED
        BY <1>3, <1>4, <3>2, <4>1 DEF Runs
    <3> QED
      BY <3>1, <3>2
  <2> QED
    BY <2>1
<1>6. A = Step(A)
  BY <1>5
<1> HIDE DEF A
<1>7. A[0] \in X
  BY <1>6
<1>8. ASSUME NEW i \in 1 .. n, A[i - 1] \in X PROVE A[i] \in X
  <2>1. i \in 0 .. n /\ i # 0
    OBVIOUS
  <2>2. A[i] = Filed(A[i - 1], es[i])
    BY <1>6, <2>1
  <2> QED
    BY <1>1, <1>8, <2>2
<1> QED
  BY <1>2, <1>7, <1>8, Stays

(* The members after the events of a list, who are `set' before them.      *)
MembersIn(g, set, list) ==
  LET after[i \in 0 .. Len(list)] ==
        IF i = 0 THEN set ELSE MembersThen(g, after[i - 1], list[i])
  IN  after[Len(list)]

LEMMA MembersInSteps ==
  ASSUME NEW X, NEW set \in X, NEW E, NEW list \in Seq(E), NEW g,
         \A y \in X, e \in E : MembersThen(g, y, e) \in X
  PROVE  \E f : /\ MembersIn(g, set, list) = f[Len(list)] /\ f[0] = set
              /\ \A k \in 1 .. Len(list) : f[k] = MembersThen(g, f[k - 1], list[k])
<1>0. SUFFICES ASSUME NEW n \in Nat, n = Len(list)
               PROVE  \E f : /\ MembersIn(g, set, list) = f[n] /\ f[0] = set
                             /\ \A k \in 1 .. n : f[k] = MembersThen(g, f[k - 1], list[k])
  OBVIOUS
<1> DEFINE Step(f) == [i \in 0 .. n |-> IF i = 0 THEN set ELSE MembersThen(g, f[i - 1], list[i])]
           A == CHOOSE f : f = Step(f)
           F == [k \in 1 .. n |-> [y \in X |-> MembersThen(g, y, list[k])]]
<1>1. \A k \in 1 .. n : list[k] \in E
  BY <1>0
<1>2. MembersIn(g, set, list) = A[n]
  BY <1>0 DEF MembersIn
<1>3. /\ \A k \in 1 .. n : \A y \in X : F[k][y] \in X
      /\ \A k \in 1 .. n : \A y \in X : F[k][y] = MembersThen(g, y, list[k])
  BY <1>1
<1> HIDE DEF F
<1>4. PICK f \in [0 .. n -> X] : Runs(n, F, set, f)
  BY <1>3, Recursion
<1>5. f = Step(f)
  <2>1. ASSUME NEW i \in 0 .. n
        PROVE  f[i] = IF i = 0 THEN set ELSE MembersThen(g, f[i - 1], list[i])
    <3>1. CASE i = 0
      BY <1>4, <3>1 DEF Runs
    <3>2. CASE i # 0
      <4>1. i \in 1 .. n /\ i - 1 \in 0 .. n
        BY <3>2
      <4> QED
        BY <1>3, <1>4, <3>2, <4>1 DEF Runs
    <3> QED
      BY <3>1, <3>2
  <2> QED
    BY <2>1
<1>6. A = Step(A)
  BY <1>5
<1> HIDE DEF A
<1>7. A[0] = set
  BY <1>6
<1>8. ASSUME NEW k \in 1 .. n PROVE A[k] = MembersThen(g, A[k - 1], list[k])
  <2>1. k \in 0 .. n /\ k # 0
    OBVIOUS
  <2> QED
    BY <1>6, <2>1
<1> QED
  BY <1>2, <1>7, <1>8

LEMMA ChainMembersIn ==
  ASSUME NEW X, {} \in X, NEW E, log \in Seq(E), NEW g,
         \A y \in X, e \in E : MembersThen(g, y, e) \in X
  PROVE  ChainMembers(g) \in X
<1>1. Len(log) \in Nat /\ \A k \in 1 .. Len(log) : log[k] \in E
  OBVIOUS
<1>2. PICK f : /\ MembersIn(g, {}, log) = f[Len(log)] /\ f[0] = {}
               /\ \A k \in 1 .. Len(log) : f[k] = MembersThen(g, f[k - 1], log[k])
  BY MembersInSteps
<1>3. f[0] \in X /\ \A k \in 1 .. Len(log) : f[k - 1] \in X => f[k] \in X
  BY <1>1, <1>2
<1>4. f[Len(log)] \in X
  BY <1>1, <1>3, Stays
<1> QED
  BY <1>2, <1>4 DEF ChainMembers, MembersIn

(* One event more.                                                         *)
LEMMA MembersInAppend ==
  ASSUME NEW X, NEW set \in X, NEW E, NEW list \in Seq(E), NEW e \in E, NEW g,
         \A y \in X, x \in E : MembersThen(g, y, x) \in X
  PROVE  MembersIn(g, set, Append(list, e)) = MembersThen(g, MembersIn(g, set, list), e)
<1> DEFINE more == Append(list, e)
           n    == Len(list)
<1>1. /\ more \in Seq(E) /\ Len(more) = n + 1 /\ more[n + 1] = e /\ n \in Nat
      /\ \A k \in 1 .. n : more[k] = list[k]
      /\ n + 1 \in 1 .. n + 1 /\ n + 1 - 1 = n /\ \A k \in 1 .. n : k \in 1 .. n + 1
  BY AppendProperties
<1> HIDE DEF more, n
<1>2. PICK f : /\ MembersIn(g, set, list) = f[n] /\ f[0] = set
               /\ \A k \in 1 .. n : f[k] = MembersThen(g, f[k - 1], list[k])
  BY MembersInSteps DEF n
<1>3. PICK h : /\ MembersIn(g, set, more) = h[n + 1] /\ h[0] = set
               /\ \A k \in 1 .. n + 1 : h[k] = MembersThen(g, h[k - 1], more[k])
  <2>1. \E h : /\ MembersIn(g, set, more) = h[Len(more)] /\ h[0] = set
               /\ \A k \in 1 .. Len(more) : h[k] = MembersThen(g, h[k - 1], more[k])
    <3>1. more \in Seq(E)
      BY <1>1
    <3> QED
      BY <3>1, MembersInSteps, SMTT(40)
  <2> QED
    BY <1>1, <2>1, Zenon
<1> DEFINE T == {k \in 0 .. n : f[k] = h[k]}
<1>4. 0 \in T
  BY <1>1, <1>2, <1>3
<1>5. ASSUME NEW k \in 1 .. n, k - 1 \in T PROVE k \in T
  <2>1. k \in 0 .. n /\ f[k - 1] = h[k - 1] /\ more[k] = list[k] /\ k \in 1 .. n + 1
    BY <1>1, <1>5
  <2>2. f[k] = MembersThen(g, f[k - 1], list[k]) /\ h[k] = MembersThen(g, h[k - 1], more[k])
    BY <1>2, <1>3, <2>1
  <2> QED
    BY <2>1, <2>2
<1>6. n \in 0 .. n /\ (n \in T => f[n] = h[n])
  BY <1>1
<1> HIDE DEF T
<1>7. f[n] = h[n]
  BY <1>1, <1>4, <1>5, <1>6, UpTo
<1>8. h[n + 1] = MembersThen(g, h[n], e)
  BY <1>1, <1>3
<1> QED
  BY <1>2, <1>3, <1>7, <1>8 DEF more

(* Array.filter, at the k-th element of the list, has kept every element   *)
(* before it that is in the set, and nothing else, and two of them only    *)
(* where the list has two.                                                 *)
Filters(list, set, k, kept) ==
  /\ \A i \in 1 .. Len(kept) : kept[i] \in set /\ \E p \in 1 .. k : list[p] = kept[i]
  /\ \A i, j \in 1 .. Len(kept) : i # j =>
       \E p, q \in 1 .. k : p # q /\ list[p] = kept[i] /\ list[q] = kept[j]
  /\ \A p \in 1 .. k : list[p] \in set => \E i \in 1 .. Len(kept) : kept[i] = list[p]

LEMMA FilterKeeps ==
  ASSUME NEW S, NEW list \in Seq(S), NEW set, NEW k \in 1 .. Len(list), list[k] \in set,
         NEW kept \in Seq(S), Filters(list, set, k - 1, kept)
  PROVE  Filters(list, set, k, Append(kept, list[k]))
<1> DEFINE more == Append(kept, list[k])
<1>1. /\ Len(more) = Len(kept) + 1 /\ Len(kept) \in Nat
      /\ \A i \in 1 .. Len(kept) : more[i] = kept[i]
      /\ more[Len(kept) + 1] = list[k]
      /\ Len(list) \in Nat /\ k \in 1 .. k
  BY AppendProperties
<1> HIDE DEF more
<1>2. ASSUME NEW i \in 1 .. Len(more)
      PROVE  \/ i = Len(kept) + 1 /\ more[i] = list[k]
             \/ /\ i \in 1 .. Len(kept) /\ more[i] = kept[i] /\ more[i] \in set
                /\ \E p \in 1 .. k - 1 : p \in 1 .. k /\ p # k /\ list[p] = more[i]
  <2>1. CASE i = Len(kept) + 1
    BY <1>1, <2>1
  <2>2. CASE i # Len(kept) + 1
    <3>1. i \in 1 .. Len(kept) /\ more[i] = kept[i]
      BY <1>1, <2>2
    <3>2. kept[i] \in set /\ \E p \in 1 .. k - 1 : list[p] = kept[i]
      BY <3>1 DEF Filters
    <3>3. \A p \in 1 .. k - 1 : p \in 1 .. k /\ p # k
      BY <1>1
    <3> QED
      BY <3>1, <3>2, <3>3
  <2> QED
    BY <2>1, <2>2
<1>3. ASSUME NEW i \in 1 .. Len(more) PROVE more[i] \in set /\ \E p \in 1 .. k : list[p] = more[i]
  BY <1>1, <1>2
<1>4. ASSUME NEW i \in 1 .. Len(more), NEW j \in 1 .. Len(more), i # j
      PROVE  \E p, q \in 1 .. k : p # q /\ list[p] = more[i] /\ list[q] = more[j]
  <2>1. CASE i \in 1 .. Len(kept) /\ j \in 1 .. Len(kept)
    <3>1. \E p, q \in 1 .. k - 1 : p # q /\ list[p] = kept[i] /\ list[q] = kept[j]
      BY <1>4, <2>1 DEF Filters
    <3>2. \A p \in 1 .. k - 1 : p \in 1 .. k
      BY <1>1
    <3> QED
      BY <1>1, <2>1, <3>1, <3>2
  <2>2. CASE i = Len(kept) + 1 \/ j = Len(kept) + 1
    BY <1>1, <1>2, <1>4, <2>2
  <2> QED
    BY <1>2, <2>1, <2>2
<1>5. ASSUME NEW p \in 1 .. k, list[p] \in set PROVE \E i \in 1 .. Len(more) : more[i] = list[p]
  <2>1. CASE p = k
    BY <1>1, <2>1
  <2>2. CASE p # k
    <3>1. p \in 1 .. k - 1
      BY <2>2
    <3>2. PICK i \in 1 .. Len(kept) : kept[i] = list[p]
      BY <1>5, <3>1 DEF Filters
    <3> QED
      BY <1>1, <3>2
  <2> QED
    BY <2>1, <2>2
<1>6. Filters(list, set, k, more)
  BY <1>3, <1>4, <1>5 DEF Filters
<1> QED
  BY <1>6 DEF more

LEMMA FilterDrops ==
  ASSUME NEW list, NEW set, NEW k \in Nat \ {0}, NEW kept, Filters(list, set, k - 1, kept),
         list[k] \notin set
  PROVE  Filters(list, set, k, kept)
<1>1. /\ \A p \in 1 .. k - 1 : p \in 1 .. k
      /\ \A p \in 1 .. k : p # k => p \in 1 .. k - 1
  OBVIOUS
<1>2. /\ \A i \in 1 .. Len(kept) : kept[i] \in set /\ \E p \in 1 .. k : list[p] = kept[i]
      /\ \A i, j \in 1 .. Len(kept) : i # j =>
           \E p, q \in 1 .. k : p # q /\ list[p] = kept[i] /\ list[q] = kept[j]
  BY <1>1 DEF Filters
<1>3. \A p \in 1 .. k : list[p] \in set => \E i \in 1 .. Len(kept) : kept[i] = list[p]
  BY <1>1 DEF Filters
<1> QED
  BY <1>2, <1>3 DEF Filters

LEMMA OnlyFilters ==
  ASSUME NEW S, NEW list \in Seq(S), NEW set
  PROVE  Only(list, set) \in Seq(S) /\ Filters(list, set, Len(list), Only(list, set))
<1>0. SUFFICES ASSUME NEW n \in Nat, n = Len(list)
               PROVE  Only(list, set) \in Seq(S) /\ Filters(list, set, n, Only(list, set))
  OBVIOUS
<1> DEFINE Kept(before, k) == IF list[k] \in set THEN Append(before, list[k]) ELSE before
           Step(f) == [i \in 0 .. n |->
                        IF i = 0 THEN << >>
                        ELSE IF list[i] \in set THEN Append(f[i - 1], list[i]) ELSE f[i - 1]]
           A == CHOOSE f : f = Step(f)
           F == [k \in 1 .. n |-> [y \in Seq(S) |-> Kept(y, k)]]
<1>1. \A k \in 1 .. n : list[k] \in S
  BY <1>0
<1>2. Only(list, set) = A[n]
  BY <1>0 DEF Only
<1>3. /\ \A k \in 1 .. n : \A y \in Seq(S) : F[k][y] \in Seq(S)
      /\ \A k \in 1 .. n : \A y \in Seq(S) : F[k][y] = Kept(y, k)
  BY <1>1
<1> HIDE DEF F
<1>e. << >> \in Seq(S)
  OBVIOUS
<1>4. PICK f \in [0 .. n -> Seq(S)] : Runs(n, F, << >>, f)
  BY <1>3, <1>e, Recursion
<1>5. f = Step(f)
  <2>1. ASSUME NEW i \in 0 .. n
        PROVE  f[i] = IF i = 0 THEN << >> ELSE Kept(f[i - 1], i)
    <3>1. CASE i = 0
      BY <1>4, <3>1 DEF Runs
    <3>2. CASE i # 0
      <4>1. i \in 1 .. n /\ i - 1 \in 0 .. n
        BY <3>2
      <4> QED
        BY <1>3, <1>4, <3>2, <4>1 DEF Runs
    <3> QED
      BY <3>1, <3>2
  <2> QED
    BY <2>1
<1>6. A = Step(A)
  BY <1>5
<1> HIDE DEF A
<1> DEFINE T == {k \in 0 .. n : A[k] \in Seq(S) /\ Filters(list, set, k, A[k])}
<1>7. 0 \in T
  <2>1. A[0] = << >> /\ Len(<< >>) = 0 /\ 0 \in 0 .. n
    BY <1>6
  <2>2. Filters(list, set, 0, << >>)
    <3>1. (\A i \in 1 .. Len(<< >>) : FALSE) /\ (\A i \in 1 .. 0 : FALSE)
      BY <2>1
    <3> QED
      BY <3>1 DEF Filters
  <2> QED
    BY <1>e, <2>1, <2>2
<1>8. ASSUME NEW k \in 1 .. n, k - 1 \in T PROVE k \in T
  <2>1. k \in 0 .. n /\ k # 0 /\ k \in Nat /\ k \in 1 .. Len(list)
    BY <1>0
  <2>2. A[k] = Kept(A[k - 1], k)
    BY <1>6, <2>1
  <2>3. A[k - 1] \in Seq(S) /\ Filters(list, set, k - 1, A[k - 1])
    BY <1>8
  <2>4. CASE list[k] \in set
    <3> HIDE DEF T
    <3>1. A[k] = Append(A[k - 1], list[k])
      BY <2>2, <2>4
    <3>2. Filters(list, set, k, Append(A[k - 1], list[k]))
      BY <2>1, <2>3, <2>4, FilterKeeps
    <3>3. Append(A[k - 1], list[k]) \in Seq(S)
      BY <1>1, <2>3
    <3> QED
      BY <2>1, <3>1, <3>2, <3>3 DEF T
  <2>5. CASE list[k] \notin set
    BY <2>1, <2>2, <2>3, <2>5, FilterDrops
  <2> QED
    BY <2>4, <2>5
<1>9. n \in 0 .. n /\ (n \in T => A[n] \in Seq(S) /\ Filters(list, set, n, A[n]))
  OBVIOUS
<1> HIDE DEF T
<1>10. n \in T
  BY <1>7, <1>8, <1>9, UpTo
<1> QED
  BY <1>2, <1>9, <1>10

-----------------------------------------------------------------------------
(***************************************************************************)
(* The inductive invariant.  The members object and, unless it is torn,    *)
(* members.json are faithful to the log: what they list entered its group, *)
(* and only who came in place of another is listed twice.  That stays      *)
(* true because the log only grows and because whatever is handled, an     *)
(* answer or a queue, comes from the log; a type that is still to be       *)
(* processed has no subscription, and a server that is down has none.      *)
(***************************************************************************)
Events ==
  {Created(g) : g \in Groups} \cup
  {Added(g, c) : g \in Groups, c \in Leaves} \cup
  {Removed(g, c) : g \in Groups, c \in Leaves} \cup
  {Updated(g, c, d) : g \in Groups, c \in Leaves, d \in Leaves}

Entered(L, g, c) == Added(g, c) \in L \/ \E d \in Leaves : Updated(g, d, c) \in L

(* Those who entered in place of another.                                  *)
News(L, g) == {c \in Leaves : \E d \in Leaves : Updated(g, d, c) \in L}

RepeatsOnly(list, set) ==
  \A i, j \in DOMAIN list : list[i] = list[j] => i = j \/ list[i] \in set

Lists == [Groups -> Seq(Leaves)]

FaithfulTo(L) ==
  {m \in Lists : \A g \in Groups :
     /\ \A i \in DOMAIN m[g] : Entered(L, g, m[g][i])
     /\ RepeatsOnly(m[g], News(L, g))}

SubscriptionsInv ==
  /\ subscription \in [Names -> [state : {Off, Starting, On}, queue : Seq(Range(log))]]
  /\ \A n \in Names :
       /\ subscription[n].state # On => subscription[n].queue = << >>
       /\ \A i \in DOMAIN subscription[n].queue : subscription[n].queue[i].name = n
       /\ ~ up => subscription[n].state = Off
  /\ \A i \in DOMAIN EventNames : turn <= i => subscription[EventNames[i]].state = Off

ProcessInv ==
  /\ up \in BOOLEAN /\ turn \in 1 .. Done
  /\ answer = << >> \/ answer[1] \in Seq(Range(log))
  /\ members \in FaithfulTo(Range(log))

FilesInv ==
  /\ membersFile \in FaithfulTo(Range(log)) \cup {Torn}
  /\ idsFile \in Seq(Groups) \cup {Torn}
  /\ up => membersFile # Torn /\ idsFile # Torn

MirrorInv ==
  /\ log \in Seq(Events) /\ creations \in Nat /\ calm \in BOOLEAN /\ crashes \in 0 .. MaxCrashes
  /\ SubscriptionsInv
  /\ ProcessInv
  /\ FilesInv

-----------------------------------------------------------------------------
(***************************************************************************)
(* One event: what it holds, and what handling it keeps.                   *)
(***************************************************************************)
LEMMA EventKinds ==
  ASSUME NEW e \in Events
  PROVE  /\ e.group \in Groups /\ e.name \in Names
         /\ \/ e.name = "GroupCreated" /\ e = Created(e.group)
            \/ /\ e.name = "MemberAdded" /\ e.member \in Leaves
               /\ e = Added(e.group, e.member)
            \/ /\ e.name = "MemberRemoved" /\ e.member \in Leaves
               /\ e = Removed(e.group, e.member)
            \/ /\ e.name = "MemberUpdated" /\ e.member \in Leaves /\ e.new \in Leaves
               /\ e = Updated(e.group, e.member, e.new)
<1>1. /\ "GroupCreated" \in Names /\ "MemberAdded" \in Names
      /\ "MemberRemoved" \in Names /\ "MemberUpdated" \in Names
  <2>1. /\ EventNames[1] = "GroupCreated" /\ EventNames[2] = "MemberAdded"
        /\ EventNames[3] = "MemberRemoved" /\ EventNames[4] = "MemberUpdated"
        /\ 1 \in DOMAIN EventNames /\ 2 \in DOMAIN EventNames
        /\ 3 \in DOMAIN EventNames /\ 4 \in DOMAIN EventNames
    BY DEF EventNames
  <2> QED
    BY <2>1 DEF Names, Range
<1>2. CASE \E g \in Groups : e = Created(g)
  BY <1>1, <1>2 DEF Created
<1>3. CASE \E g \in Groups, c \in Leaves : e = Added(g, c)
  BY <1>1, <1>3 DEF Added
<1>4. CASE \E g \in Groups, c \in Leaves : e = Removed(g, c)
  BY <1>1, <1>4 DEF Removed
<1>5. CASE \E g \in Groups, c \in Leaves, d \in Leaves : e = Updated(g, c, d)
  BY <1>1, <1>5 DEF Updated
<1> QED
  BY <1>2, <1>3, <1>4, <1>5 DEF Events

LEMMA FaithfulStays ==
  ASSUME NEW L, NEW M, L \subseteq M
  PROVE  FaithfulTo(L) \subseteq FaithfulTo(M)
<1>1. \A g, c : Entered(L, g, c) => Entered(M, g, c)
  BY DEF Entered
<1>2. \A g : News(L, g) \subseteq News(M, g)
  BY DEF News
<1> QED
  BY <1>1, <1>2 DEF FaithfulTo, RepeatsOnly

(* A list in place of another, for one group.                              *)
LEMMA FaithfulToOther ==
  ASSUME NEW L, NEW m \in FaithfulTo(L), NEW g \in Groups, NEW list \in Seq(Leaves),
         \A i \in DOMAIN list : Entered(L, g, list[i]),
         RepeatsOnly(list, News(L, g))
  PROVE  [m EXCEPT ![g] = list] \in FaithfulTo(L)
<1> DEFINE new == [m EXCEPT ![g] = list]
<1>1. m \in Lists
  BY DEF FaithfulTo
<1>2. /\ new \in Lists /\ new[g] = list
      /\ \A h \in Groups : h # g => new[h] = m[h]
  BY <1>1 DEF Lists
<1> HIDE DEF new
<1>3. ASSUME NEW h \in Groups
      PROVE  /\ \A i \in DOMAIN new[h] : Entered(L, h, new[h][i])
             /\ RepeatsOnly(new[h], News(L, h))
  <2>1. CASE h = g
    BY <1>2, <2>1
  <2>2. CASE h # g
    BY <1>2, <2>2 DEF FaithfulTo
  <2> QED
    BY <2>1, <2>2
<1>4. new \in FaithfulTo(L)
  BY <1>2, <1>3 DEF FaithfulTo
<1> QED
  BY <1>4 DEF new

LEMMA HandledFaithful ==
  ASSUME NEW L, L \subseteq Events, NEW m \in FaithfulTo(L), NEW e \in L
  PROVE  Handled(m, e) \in FaithfulTo(L)
<1> DEFINE g == e.group
<1>1. /\ g \in Groups /\ e \in Events
      /\ \/ e.name = "GroupCreated" /\ e = Created(e.group)
         \/ e.name = "MemberAdded" /\ e.member \in Leaves /\ e = Added(e.group, e.member)
         \/ e.name = "MemberRemoved" /\ e.member \in Leaves
         \/ /\ e.name = "MemberUpdated" /\ e.member \in Leaves /\ e.new \in Leaves
            /\ e = Updated(e.group, e.member, e.new)
  BY EventKinds
<1>2. /\ m \in Lists /\ m[g] \in Seq(Leaves)
      /\ DOMAIN m[g] = 1 .. Len(m[g]) /\ Len(m[g]) \in Nat
      /\ \A i \in DOMAIN m[g] : Entered(L, g, m[g][i])
      /\ RepeatsOnly(m[g], News(L, g))
  BY <1>1 DEF FaithfulTo, Lists
<1>g. g \in Groups
  BY <1>1
<1>3. CASE e.name = "GroupCreated"
  BY <1>3 DEF Handled
<1>4. CASE e.name = "MemberAdded" /\ e.member \in Leaves /\ e = Added(e.group, e.member)
  <2> DEFINE more == Append(m[g], e.member)
  <2>1. Handled(m, e) = addMember(m, g, e.member)
    BY <1>4 DEF Handled
  <2>2. CASE Contains(m[g], e.member)
    BY <2>1, <2>2 DEF addMember
  <2>3. CASE ~ Contains(m[g], e.member)
    <3>1. /\ more \in Seq(Leaves) /\ DOMAIN more = 1 .. Len(m[g]) + 1
          /\ \A i \in 1 .. Len(m[g]) : more[i] = m[g][i]
          /\ more[Len(m[g]) + 1] = e.member
      BY <1>2, <1>4, AppendProperties
    <3>2. Entered(L, g, e.member)
      BY <1>4 DEF Entered
    <3>3. Handled(m, e) = [m EXCEPT ![g] = more]
      BY <2>1, <2>3 DEF addMember
    <3> HIDE DEF more
    <3>4. \A i \in DOMAIN more : i \in 1 .. Len(m[g]) \/ i = Len(m[g]) + 1
      BY <1>2, <3>1
    <3>5. \A i \in DOMAIN more : Entered(L, g, more[i])
      BY <1>2, <3>1, <3>2, <3>4
    <3>6. \A i \in 1 .. Len(m[g]) : m[g][i] # e.member
      BY <2>3 DEF Contains
    <3>7. RepeatsOnly(more, News(L, g))
      BY <1>2, <3>1, <3>4, <3>6 DEF RepeatsOnly
    <3> HIDE DEF g
    <3>8. [m EXCEPT ![g] = more] \in FaithfulTo(L)
      BY <1>g, <1>2, <3>1, <3>5, <3>7, FaithfulToOther
    <3> QED
      BY <3>3, <3>8
  <2> QED
    BY <2>2, <2>3
<1>5. CASE e.name = "MemberRemoved"
  <2> DEFINE set  == Leaves \ {e.member}
             kept == Only(m[g], set)
  <2>1. Handled(m, e) = [m EXCEPT ![g] = kept]
    BY <1>5 DEF Handled, removeMember
  <2>2. kept \in Seq(Leaves) /\ Filters(m[g], set, Len(m[g]), kept)
    BY <1>2, OnlyFilters
  <2> HIDE DEF kept, set
  <2>3. \A i \in DOMAIN kept : Entered(L, g, kept[i])
    <3>1. DOMAIN kept = 1 .. Len(kept)
      BY <2>2
    <3> QED
      BY <1>2, <2>2, <3>1 DEF Filters
  <2>4. RepeatsOnly(kept, News(L, g))
    <3>1. ASSUME NEW i \in DOMAIN kept, NEW j \in DOMAIN kept, kept[i] = kept[j], i # j
          PROVE  kept[i] \in News(L, g)
      <4>1. i \in 1 .. Len(kept) /\ j \in 1 .. Len(kept)
        BY <2>2
      <4>2. PICK p \in 1 .. Len(m[g]), q \in 1 .. Len(m[g]) :
                   p # q /\ m[g][p] = kept[i] /\ m[g][q] = kept[j]
        BY <2>2, <3>1, <4>1 DEF Filters
      <4> QED
        BY <1>2, <3>1, <4>2 DEF RepeatsOnly
    <3> QED
      BY <3>1 DEF RepeatsOnly
  <2> HIDE DEF g
  <2>5. [m EXCEPT ![g] = kept] \in FaithfulTo(L)
    BY <1>g, <2>2, <2>3, <2>4, FaithfulToOther
  <2> QED
    BY <2>1, <2>5
<1>6. CASE /\ e.name = "MemberUpdated" /\ e.member \in Leaves /\ e.new \in Leaves
           /\ e = Updated(e.group, e.member, e.new)
  <2> DEFINE k   == SelectInSeq(m[g], LAMBDA x : x = e.member)
             new == [m[g] EXCEPT ![k] = e.new]
  <2>1. Handled(m, e) = updateMember(m, g, e.member, e.new)
    BY <1>6 DEF Handled
  <2>2. CASE Contains(m[g], e.member)
    <3>1. Handled(m, e) = [m EXCEPT ![g] = new]
      BY <2>1, <2>2 DEF updateMember
    <3>3. Entered(L, g, e.new) /\ e.new \in News(L, g)
      BY <1>6 DEF Entered, News
    <3> HIDE DEF k, g
    <3>2. /\ new \in Seq(Leaves) /\ DOMAIN new = DOMAIN m[g]
          /\ \A i \in DOMAIN new : new[i] = e.new \/ new[i] = m[g][i]
      <4>1. /\ DOMAIN new = 1 .. Len(m[g])
            /\ \A i \in 1 .. Len(m[g]) : new[i] = e.new \/ new[i] = m[g][i]
        BY <1>2
      <4>2. \A i \in 1 .. Len(m[g]) : m[g][i] \in Leaves
        BY <1>2
      <4>3. new = [i \in 1 .. Len(m[g]) |-> new[i]]
        BY <1>2
      <4>4. e.new \in Leaves
        BY <1>6
      <4> HIDE DEF new
      <4>5. \A i \in 1 .. Len(m[g]) : new[i] \in Leaves
        BY <4>1, <4>2, <4>4
      <4>6. new \in Seq(Leaves)
        <5>1. new \in [1 .. Len(m[g]) -> Leaves]
          BY <4>3, <4>5
        <5> QED
          BY <1>2, <5>1, SeqDef
      <4> QED
        BY <1>2, <4>1, <4>6
    <3> HIDE DEF new
    <3>4. \A i \in DOMAIN new : Entered(L, g, new[i])
      BY <1>2, <3>2, <3>3
    <3>6. RepeatsOnly(new, News(L, g))
      BY <1>2, <3>2, <3>3 DEF RepeatsOnly
    <3>5. [m EXCEPT ![g] = new] \in FaithfulTo(L)
      BY <1>g, <3>2, <3>4, <3>6, FaithfulToOther
    <3> QED
      BY <3>1, <3>5
  <2>3. CASE ~ Contains(m[g], e.member)
    BY <2>1, <2>3 DEF updateMember
  <2> QED
    BY <2>2, <2>3
<1> QED
  BY <1>1, <1>3, <1>4, <1>5, <1>6

(* A group that is filed stays filed, and a list that was torn is made     *)
(* anew.                                                                   *)
LEMMA FiledTypes ==
  ASSUME NEW e \in Events
  PROVE  /\ \A ids \in Seq(Groups) \cup {Torn} : Filed(ids, e) \in Seq(Groups) \cup {Torn}
         /\ \A ids \in Seq(Groups) : Filed(ids, e) \in Seq(Groups)
         /\ \A ids \in (Seq(Groups) \cup {Torn}) \ {<< >>} :
              Filed(ids, e) \in (Seq(Groups) \cup {Torn}) \ {<< >>}
<1>1. e.group \in Groups
  BY EventKinds
<1>2. Torn \notin Seq(Groups) /\ << >> \in Seq(Groups)
  BY TornIsNoContent DEF Groups
<1>3. \A list \in Seq(Groups) : Append(list, e.group) \in Seq(Groups) \ {<< >>}
  BY <1>1, AppendProperties
<1> QED
  BY <1>2, <1>3 DEF Filed, saveGroupId

LEMMA TornIsNoList == Torn \notin Lists /\ Torn \notin Seq(Groups)
BY TornIsNoContent DEF Lists, Groups

LEMMA LoggedAreEvents ==
  ASSUME log \in Seq(Events)
  PROVE  Range(log) \subseteq Events
BY DEF Range

(* Handling events of the log, all of them or the first k.                 *)
LEMMA HandlingKeeps ==
  ASSUME log \in Seq(Events), members \in FaithfulTo(Range(log)),
         idsFile \in Seq(Groups) \cup {Torn}, NEW es \in Seq(Range(log))
  PROVE  /\ MembersAfter(members, es) \in FaithfulTo(Range(log))
         /\ IdsAfter(idsFile, es) \in Seq(Groups) \cup {Torn}
         /\ idsFile # Torn => IdsAfter(idsFile, es) # Torn
         /\ idsFile # << >> => IdsAfter(idsFile, es) # << >>
<1>1. Range(log) \subseteq Events
  BY LoggedAreEvents
<1>2. \A m \in FaithfulTo(Range(log)), e \in Range(log) : Handled(m, e) \in FaithfulTo(Range(log))
  BY <1>1, HandledFaithful
<1>3. MembersAfter(members, es) \in FaithfulTo(Range(log))
  BY <1>2, MembersAfterIn
<1> DEFINE AnyIds == Seq(Groups) \cup {Torn}
           Whole  == Seq(Groups)
           Filled == (Seq(Groups) \cup {Torn}) \ {<< >>}
<1>4. /\ \A ids \in AnyIds, e \in Range(log) : Filed(ids, e) \in AnyIds
      /\ \A ids \in Whole, e \in Range(log) : Filed(ids, e) \in Whole
      /\ \A ids \in Filled, e \in Range(log) : Filed(ids, e) \in Filled
  BY <1>1, FiledTypes
<1>5. idsFile \in AnyIds /\ (idsFile # Torn => idsFile \in Whole) /\ (idsFile # << >> => idsFile \in Filled)
  OBVIOUS
<1>6. (\A x \in Whole : x # Torn) /\ (\A x \in Filled : x # << >>)
  BY TornIsNoList
<1>7. AnyIds = Seq(Groups) \cup {Torn}
  OBVIOUS
<1> HIDE DEF AnyIds, Whole, Filled
<1>8. IdsAfter(idsFile, es) \in AnyIds
  BY <1>4, <1>5, IdsAfterIn
<1>9. ASSUME idsFile # Torn PROVE IdsAfter(idsFile, es) \in Whole
  <2>1. idsFile \in Whole
    BY <1>5, <1>9
  <2> QED
    BY <1>4, <2>1, IdsAfterIn
<1>10. ASSUME idsFile # << >> PROVE IdsAfter(idsFile, es) \in Filled
  <2>1. idsFile \in Filled
    BY <1>5, <1>10
  <2> QED
    BY <1>4, <2>1, IdsAfterIn
<1> QED
  BY <1>3, <1>6, <1>7, <1>8, <1>9, <1>10

LEMMA HandleKeeps ==
  ASSUME MirrorInv, NEW es \in Seq(Range(log)), Handle(es)
  PROVE  /\ members' \in FaithfulTo(Range(log))
         /\ membersFile' \in FaithfulTo(Range(log)) \cup {Torn}
         /\ idsFile' \in Seq(Groups) \cup {Torn}
         /\ up => membersFile' # Torn /\ idsFile' # Torn
         /\ idsFile # << >> => idsFile' # << >>
<1>1. /\ members' = MembersAfter(members, es) /\ idsFile' = IdsAfter(idsFile, es)
      /\ membersFile' = members' \/ membersFile' = membersFile
  BY DEF Handle, saveMembers
<1>2. /\ log \in Seq(Events) /\ members \in FaithfulTo(Range(log))
      /\ idsFile \in Seq(Groups) \cup {Torn}
      /\ membersFile \in FaithfulTo(Range(log)) \cup {Torn}
      /\ up => membersFile # Torn /\ idsFile # Torn
  BY DEF MirrorInv, ProcessInv, FilesInv
<1>3. \A m \in FaithfulTo(Range(log)) : m # Torn
  BY TornIsNoList DEF FaithfulTo
<1> QED
  BY <1>1, <1>2, <1>3, HandlingKeeps

-----------------------------------------------------------------------------
(***************************************************************************)
(* The chain grows.                                                        *)
(***************************************************************************)
LEMMA ChainGroupsAreGroups ==
  ASSUME log \in Seq(Events)
  PROVE  /\ ChainGroups \subseteq Groups /\ Cardinality(ChainGroups) \in Nat
         /\ Cardinality(ChainGroups) < MaxGroups => Cardinality(ChainGroups) \in Groups
<1>1. ASSUME NEW i \in DOMAIN log PROVE log[i].group \in Groups
  <2>1. log[i] \in Events
    OBVIOUS
  <2> QED
    BY <2>1, EventKinds
<1>2. ChainGroups \subseteq Groups
  BY <1>1 DEF ChainGroups
<1>3. IsFiniteSet(Groups)
  BY FS_Interval, BoundsAreNumbers DEF Groups
<1>4. IsFiniteSet(ChainGroups)
  BY <1>2, <1>3, FS_Subset
<1>5. Cardinality(ChainGroups) \in Nat
  BY <1>4, FS_CardinalityType
<1> QED
  BY <1>2, <1>5, BoundsAreNumbers DEF Groups

LEMMA ChainMembersAreLeaves ==
  ASSUME log \in Seq(Events), NEW g
  PROVE  ChainMembers(g) \subseteq Leaves
<1> DEFINE X == SUBSET Leaves
<1>1. ASSUME NEW y \in X, NEW e \in Events PROVE MembersThen(g, y, e) \in X
  <2>1. \/ e.name = "GroupCreated"
        \/ e.name = "MemberAdded" /\ e.member \in Leaves
        \/ e.name = "MemberRemoved"
        \/ e.name = "MemberUpdated" /\ e.new \in Leaves
    BY EventKinds
  <2> QED
    BY <2>1 DEF MembersThen
<1>2. {} \in X /\ (\A y \in X : y \subseteq Leaves)
  OBVIOUS
<1> HIDE DEF X
<1>3. ChainMembers(g) \in X
  BY <1>1, <1>2, ChainMembersIn
<1> QED
  BY <1>2, <1>3

LEMMA MemberEventsAreEvents ==
  ASSUME log \in Seq(Events)
  PROVE  MemberEvents \subseteq Events
<1>1. ChainGroups \subseteq Groups /\ \A g : ChainMembers(g) \subseteq Leaves
  BY ChainGroupsAreGroups, ChainMembersAreLeaves
<1> SUFFICES ASSUME NEW e \in MemberEvents PROVE e \in Events
  OBVIOUS
<1>2. PICK g \in ChainGroups :
        \/ \E c \in Commitments \ Flagged : e = Added(g, c)
        \/ \E c \in ChainMembers(g) \ {Zero} : e = Removed(g, c)
        \/ \E c \in ChainMembers(g) \ {Zero}, d \in Leaves \ Flagged : e = Updated(g, c, d)
  BY DEF MemberEvents
<1>3. g \in Groups /\ Commitments \subseteq Leaves /\ ChainMembers(g) \subseteq Leaves
  BY <1>1 DEF Leaves
<1>4. CASE \E c \in Commitments \ Flagged : e = Added(g, c)
  BY <1>3, <1>4 DEF Events
<1>5. CASE \E c \in ChainMembers(g) \ {Zero} : e = Removed(g, c)
  BY <1>3, <1>5 DEF Events
<1>6. CASE \E c \in ChainMembers(g) \ {Zero}, d \in Leaves \ Flagged : e = Updated(g, c, d)
  BY <1>3, <1>6 DEF Events
<1> QED
  BY <1>2, <1>4, <1>5, <1>6

LEMMA MineKeeps ==
  ASSUME MirrorInv, NEW e \in Events, Mine(e), creations' \in Nat
  PROVE  MirrorInv'
<1>1. /\ log \in Seq(Events) /\ log' = Append(log, e)
      /\ DOMAIN log = 1 .. Len(log) /\ Len(log) \in Nat
      /\ up' = up /\ turn' = turn /\ answer' = answer /\ members' = members
      /\ membersFile' = membersFile /\ idsFile' = idsFile /\ crashes' = crashes
      /\ up \in BOOLEAN /\ calm' = ~ up
  BY DEF Mine, MirrorInv, ProcessInv, files
<1>2. /\ log' \in Seq(Events) /\ DOMAIN log' = 1 .. Len(log) + 1
      /\ \A i \in 1 .. Len(log) : log'[i] = log[i]
      /\ log'[Len(log) + 1] = e
  BY <1>1, AppendProperties
<1>3. Range(log) \subseteq Range(log)' /\ e \in Range(log)'
  <2>1. /\ \A i \in 1 .. Len(log) : i \in DOMAIN log'
        /\ Len(log) + 1 \in DOMAIN log'
    BY <1>1, <1>2
  <2> QED
    BY <1>1, <1>2, <2>1 DEF Range
<1>4. FaithfulTo(Range(log)) \subseteq FaithfulTo(Range(log)')
  BY <1>3, FaithfulStays
<1>5. Seq(Range(log)) \subseteq Seq(Range(log)')
  BY <1>3, SeqMonotonic
<1>6. SubscriptionsInv'
  <2> DEFINE Old == [state : {Off, Starting, On}, queue : Seq(Range(log))]
             New == [state : {Off, Starting, On}, queue : Seq(Range(log)')]
  <2>1. /\ subscription \in [Names -> Old] /\ e.name \in Names
        /\ \A n \in Names :
             /\ subscription[n].state # On => subscription[n].queue = << >>
             /\ \A i \in DOMAIN subscription[n].queue : subscription[n].queue[i].name = n
             /\ ~ up => subscription[n].state = Off
        /\ \A i \in DOMAIN EventNames : turn <= i => subscription[EventNames[i]].state = Off
    BY EventKinds DEF MirrorInv, SubscriptionsInv
  <2>2. Old \subseteq New
    BY <1>5
  <2> DEFINE more == Append(subscription[e.name].queue, e)
  <2>3. /\ DOMAIN subscription' = Names
        /\ \A n \in Names : subscription'[n] \in New
        /\ \A n \in Names : subscription'[n].state = subscription[n].state
        /\ \A n \in Names : \/ subscription'[n].queue = subscription[n].queue
                            \/ /\ n = e.name /\ subscription[n].state = On
                               /\ subscription'[n].queue = more
    <3>1. CASE subscription[e.name].state = On
      <4>1. subscription' = [subscription EXCEPT ![e.name].queue = more]
        BY <3>1 DEF Mine
      <4>2. more \in Seq(Range(log)')
        BY <1>3, <1>5, <2>1
      <4> HIDE DEF more
      <4>3. /\ subscription[e.name] \in New /\ e.name \in Names
            /\ DOMAIN subscription = Names
            /\ \A n \in Names : subscription[n] \in New
        BY <2>1, <2>2
      <4>4. [subscription[e.name] EXCEPT !.queue = more] \in New
        BY <4>2, <4>3
      <4>5. \A n \in Names : n # e.name => subscription'[n] = subscription[n]
        BY <4>1, <4>3
      <4>6. subscription'[e.name] = [subscription[e.name] EXCEPT !.queue = more]
        BY <4>1, <4>3
      <4>7. /\ subscription'[e.name].state = subscription[e.name].state
            /\ subscription'[e.name].queue = more
        BY <4>3, <4>6
      <4>8. DOMAIN subscription' = Names
        BY <4>1, <4>3
      <4> HIDE DEF New
      <4> QED
        BY <3>1, <4>3, <4>4, <4>5, <4>6, <4>7, <4>8
    <3>2. CASE subscription[e.name].state # On
      <4>1. subscription' = subscription
        BY <3>2 DEF Mine
      <4> HIDE DEF more, Old, New
      <4> QED
        BY <2>1, <2>2, <4>1
    <3> QED
      BY <3>1, <3>2
  <2>4. \A i \in DOMAIN more : more[i].name = e.name
    <3>1. subscription[e.name].queue \in Seq(Range(log)) /\ e \in Range(log)'
      BY <1>3, <2>1
    <3>2. subscription[e.name].queue \in Seq(Range(log)')
      BY <1>5, <3>1
    <3>3. \A i \in DOMAIN more :
             \/ i \in DOMAIN subscription[e.name].queue /\ more[i] = subscription[e.name].queue[i]
             \/ more[i] = e
      BY <3>1, <3>2, AppendProperties
    <3> HIDE DEF more
    <3> QED
      BY <2>1, <3>3
  <2>5. subscription' \in [Names -> New]
    <3> HIDE DEF New
    <3>1. subscription' = [n \in Names |-> subscription'[n]]
      <4>1. CASE subscription[e.name].state = On
        <5> HIDE DEF Old
        <5> QED
          BY <2>1, <4>1 DEF Mine
      <4>2. CASE subscription[e.name].state # On
        <5> HIDE DEF Old
        <5> QED
          BY <2>1, <4>2 DEF Mine
      <4> QED
        BY <4>1, <4>2
    <3> QED
      BY <2>3, <3>1
  <2>6. New = [state : {Off, Starting, On}, queue : Seq(Range(log)')]
    OBVIOUS
  <2> HIDE DEF New, Old, more
  <2>7. \A n \in Names :
          /\ subscription'[n].state # On => subscription'[n].queue = << >>
          /\ \A i \in DOMAIN subscription'[n].queue : subscription'[n].queue[i].name = n
          /\ ~ up => subscription'[n].state = Off
    BY <2>1, <2>3, <2>4
  <2>8. \A i \in DOMAIN EventNames : turn <= i => subscription'[EventNames[i]].state = Off
    BY <2>1, <2>3 DEF Names, Range
  <2> QED
    BY <1>1, <2>5, <2>6, <2>7, <2>8 DEF SubscriptionsInv
<1>7. ProcessInv'
  BY <1>1, <1>4, <1>5 DEF ProcessInv, MirrorInv
<1>8. FilesInv'
  BY <1>1, <1>4 DEF FilesInv, MirrorInv
<1> QED
  BY <1>1, <1>2, <1>6, <1>7, <1>8 DEF MirrorInv

-----------------------------------------------------------------------------
(***************************************************************************)
(* The process.                                                            *)
(***************************************************************************)
LEMMA FourNames ==
  /\ Done = 5 /\ DOMAIN EventNames = 1 .. 4
  /\ \A i \in 1 .. 4 : EventNames[i] \in Names
  /\ \A i, j \in 1 .. 4 : EventNames[i] = EventNames[j] => i = j
<1>1. Done = 5 /\ DOMAIN EventNames = 1 .. 4
  BY DEF Done, EventNames
<1>2. \A i \in 1 .. 4 : EventNames[i] \in Names
  BY <1>1 DEF Names, Range
<1>3. \A i \in 1 .. 4 : i = 1 \/ i = 2 \/ i = 3 \/ i = 4
  OBVIOUS
<1>4. /\ EventNames[1] = "GroupCreated" /\ EventNames[2] = "MemberAdded"
      /\ EventNames[3] = "MemberRemoved" /\ EventNames[4] = "MemberUpdated"
  BY DEF EventNames
<1>5. \A i, j \in 1 .. 4 : EventNames[i] = EventNames[j] => i = j
  BY <1>3, <1>4
<1> QED
  BY <1>1, <1>2, <1>5

LEMMA StartKeeps ==
  ASSUME MirrorInv, Start
  PROVE  MirrorInv'
<1>1. /\ log' = log /\ calm' = TRUE /\ crashes' = crashes /\ subscription' = subscription
      /\ up = FALSE /\ up' = TRUE /\ turn' = 1 /\ answer' = answer
      /\ members' = membersFile /\ membersFile' = membersFile /\ idsFile' = idsFile
      /\ membersFile # Torn /\ idsFile # Torn
      /\ creations' = creations \/ creations' = creations + 1
  BY DEF Start, loadMembers, initGroup, files, MirrorInv, ProcessInv
<1>2. SubscriptionsInv'
  BY <1>1, FourNames DEF MirrorInv, SubscriptionsInv
<1>3. ProcessInv'
  BY <1>1, FourNames DEF MirrorInv, ProcessInv, FilesInv
<1>4. FilesInv'
  BY <1>1 DEF MirrorInv, FilesInv
<1> QED
  BY <1>1, <1>2, <1>3, <1>4 DEF MirrorInv

LEMMA AnswerKeeps ==
  ASSUME MirrorInv, NEW n \in Names, Answer(n)
  PROVE  MirrorInv'
<1>1. /\ log' = log /\ calm' = calm /\ crashes' = crashes /\ subscription' = subscription
      /\ up' = up /\ turn' = turn /\ members' = members /\ membersFile' = membersFile
      /\ idsFile' = idsFile /\ creations' = creations
      /\ answer' = <<Only(log, {e \in Range(log) : e.name = n})>>
  BY DEF Answer, chain, files
<1>2. log \in Seq(Range(log))
  BY DEF MirrorInv, Range
<1>3. answer'[1] \in Seq(Range(log))
  BY <1>1, <1>2, OnlyFilters
<1>4. SubscriptionsInv'
  BY <1>1 DEF MirrorInv, SubscriptionsInv
<1>5. ProcessInv'
  BY <1>1, <1>3 DEF MirrorInv, ProcessInv
<1>6. FilesInv'
  BY <1>1 DEF MirrorInv, FilesInv
<1> QED
  BY <1>1, <1>4, <1>5, <1>6 DEF MirrorInv

LEMMA FailKeeps ==
  ASSUME MirrorInv, NEW n \in Names, Fail(n)
  PROVE  MirrorInv'
<1>1. /\ log' = log /\ calm' = calm /\ crashes' = crashes /\ subscription' = subscription
      /\ up' = up /\ turn' = turn + 1 /\ members' = members /\ membersFile' = membersFile
      /\ idsFile' = idsFile /\ creations' = creations /\ answer' = answer /\ turn < Done
      /\ turn \in 1 .. Done
  BY DEF Fail, Querying, chain, files, MirrorInv, ProcessInv
<1>2. turn' \in 1 .. Done /\ turn' > turn
  BY <1>1, FourNames
<1>3. SubscriptionsInv'
  <2>1. \A i \in DOMAIN EventNames : turn' <= i => turn <= i
    BY <1>1, <1>2, FourNames
  <2> QED
    BY <1>1, <2>1 DEF MirrorInv, SubscriptionsInv
<1>4. ProcessInv'
  BY <1>1, <1>2 DEF MirrorInv, ProcessInv
<1>5. FilesInv'
  BY <1>1 DEF MirrorInv, FilesInv
<1> QED
  BY <1>1, <1>3, <1>4, <1>5 DEF MirrorInv

(* A new state or a new queue for the subscription to one type.            *)
LEMMA SubscriptionSteps ==
  ASSUME SubscriptionsInv, NEW n \in Names, log' = log, up' = TRUE,
         DOMAIN subscription' = Names,
         \A m \in Names : m # n => subscription'[m] = subscription[m],
         subscription'[n] \in [state : {Off, Starting, On}, queue : Seq(Range(log))],
         subscription'[n].state # On => subscription'[n].queue = << >>,
         \A i \in DOMAIN subscription'[n].queue : subscription'[n].queue[i].name = n,
         \A i \in DOMAIN EventNames :
           turn' <= i => subscription[EventNames[i]].state = Off /\ EventNames[i] # n,
         subscription' = [m \in Names |-> subscription'[m]]
  PROVE  SubscriptionsInv'
<1> DEFINE S == [state : {Off, Starting, On}, queue : Seq(Range(log))]
<1>1. S' = S /\ S = [state : {Off, Starting, On}, queue : Seq(Range(log))]
  OBVIOUS
<1> HIDE DEF S
<1>2. \A m \in Names :
        /\ subscription'[m] \in S
        /\ subscription'[m].state # On => subscription'[m].queue = << >>
        /\ \A i \in DOMAIN subscription'[m].queue : subscription'[m].queue[i].name = m
  BY <1>1 DEF SubscriptionsInv
<1>3. subscription' \in [Names -> S]
  BY <1>2
<1>4. \A i \in DOMAIN EventNames : turn' <= i => subscription'[EventNames[i]].state = Off
  BY FourNames
<1> QED
  BY <1>1, <1>2, <1>3, <1>4 DEF SubscriptionsInv

LEMMA ReplayKeeps ==
  ASSUME MirrorInv, NEW n \in Names, Replay(n)
  PROVE  MirrorInv' /\ (idsFile # << >> => idsFile' # << >>)
<1>1. /\ log' = log /\ calm' = calm /\ crashes' = crashes /\ creations' = creations
      /\ up = TRUE /\ up' = up /\ turn' = turn + 1 /\ turn < Done /\ turn \in 1 .. Done
      /\ n = EventNames[turn] /\ answer # << >> /\ answer' = << >>
      /\ subscription' = [subscription EXCEPT ![n].state = Starting]
  BY DEF Replay, Replaying, chain, MirrorInv, ProcessInv
<1>2. answer[1] \in Seq(Range(log)) /\ Handle(answer[1])
  BY <1>1 DEF Replay, MirrorInv, ProcessInv
<1>3. /\ members' \in FaithfulTo(Range(log))
      /\ membersFile' \in FaithfulTo(Range(log)) \cup {Torn}
      /\ idsFile' \in Seq(Groups) \cup {Torn}
      /\ up => membersFile' # Torn /\ idsFile' # Torn
      /\ idsFile # << >> => idsFile' # << >>
  BY <1>2, HandleKeeps
<1>4. turn' \in 1 .. Done /\ turn \in DOMAIN EventNames
  BY <1>1, FourNames
<1>5. SubscriptionsInv'
  <2> DEFINE S == [state : {Off, Starting, On}, queue : Seq(Range(log))]
  <2>1. /\ subscription \in [Names -> S]
        /\ subscription[n].state = Off
        /\ \A i \in DOMAIN EventNames : turn <= i => subscription[EventNames[i]].state = Off
        /\ SubscriptionsInv
    <3>1. turn <= turn
      BY <1>1
    <3> QED
      BY <1>1, <1>4, <3>1 DEF MirrorInv, SubscriptionsInv
  <2>2. Off # On
    BY DEF Off, On
  <2>3. subscription[n].queue = << >>
    BY <2>1, <2>2 DEF SubscriptionsInv
  <2>4. /\ DOMAIN subscription' = Names
        /\ subscription' = [m \in Names |-> subscription'[m]]
        /\ \A m \in Names : m # n => subscription'[m] = subscription[m]
    <3> HIDE DEF S
    <3> QED
      BY <1>1, <2>1
  <2>5. /\ subscription'[n] \in S
        /\ subscription'[n].queue = << >>
    <3>1. subscription'[n] = [subscription[n] EXCEPT !.state = Starting]
      BY <1>1, <2>1
    <3> QED
      BY <2>1, <2>3, <3>1
  <2>6. \A i \in DOMAIN EventNames :
          turn' <= i => subscription[EventNames[i]].state = Off /\ EventNames[i] # n
    BY <1>1, <1>4, <2>1, FourNames
  <2>7. subscription'[n].queue = << >> => \A i \in DOMAIN subscription'[n].queue : FALSE
    OBVIOUS
  <2> QED
    BY <1>1, <2>1, <2>4, <2>5, <2>6, <2>7, SubscriptionSteps
<1>6. ProcessInv'
  BY <1>1, <1>3, <1>4 DEF ProcessInv
<1>7. FilesInv'
  BY <1>1, <1>3 DEF FilesInv
<1> QED
  BY <1>1, <1>3, <1>5, <1>6, <1>7 DEF MirrorInv

LEMMA SubscribeKeeps ==
  ASSUME MirrorInv, NEW n \in Names, Subscribe(n)
  PROVE  MirrorInv'
<1>1. /\ log' = log /\ calm' = calm /\ crashes' = crashes /\ creations' = creations
      /\ up = TRUE /\ up' = up /\ turn' = turn /\ answer' = answer /\ members' = members
      /\ membersFile' = membersFile /\ idsFile' = idsFile
      /\ subscription[n].state = Starting
      /\ subscription' = [subscription EXCEPT ![n].state = On]
  BY DEF Subscribe, chain, files, MirrorInv, ProcessInv
<1>2. SubscriptionsInv'
  <2> DEFINE S == [state : {Off, Starting, On}, queue : Seq(Range(log))]
  <2>1. /\ subscription \in [Names -> S]
        /\ \A i \in DOMAIN EventNames : turn <= i => subscription[EventNames[i]].state = Off
        /\ SubscriptionsInv
    BY DEF MirrorInv, SubscriptionsInv
  <2>2. Starting # On /\ Starting # Off
    BY DEF Starting, On, Off
  <2>3. subscription[n].queue = << >>
    BY <1>1, <2>2 DEF MirrorInv, SubscriptionsInv
  <2>4. /\ DOMAIN subscription' = Names
        /\ subscription' = [m \in Names |-> subscription'[m]]
        /\ \A m \in Names : m # n => subscription'[m] = subscription[m]
    <3> HIDE DEF S
    <3> QED
      BY <1>1, <2>1
  <2>5. /\ subscription'[n] \in S
        /\ subscription'[n].queue = << >>
    <3>1. subscription'[n] = [subscription[n] EXCEPT !.state = On]
      BY <1>1, <2>1
    <3> QED
      BY <2>1, <2>3, <3>1
  <2>6. \A i \in DOMAIN EventNames :
          turn' <= i => subscription[EventNames[i]].state = Off /\ EventNames[i] # n
    BY <1>1, <2>1, <2>2
  <2>7. subscription'[n].queue = << >> => \A i \in DOMAIN subscription'[n].queue : FALSE
    OBVIOUS
  <2> QED
    BY <1>1, <2>1, <2>4, <2>5, <2>6, <2>7, SubscriptionSteps
<1>3. ProcessInv'
  BY <1>1 DEF MirrorInv, ProcessInv
<1>4. FilesInv'
  BY <1>1 DEF MirrorInv, FilesInv
<1> QED
  BY <1>1, <1>2, <1>3, <1>4 DEF MirrorInv

LEMMA DeliverKeeps ==
  ASSUME MirrorInv, NEW n \in Names, Deliver(n)
  PROVE  MirrorInv' /\ (idsFile # << >> => idsFile' # << >>)
<1> DEFINE q == subscription[n].queue
<1>1. /\ log' = log /\ calm' = calm /\ crashes' = crashes /\ creations' = creations
      /\ up = TRUE /\ up' = up /\ turn' = turn /\ answer' = answer
      /\ q # << >> /\ Handle(<<Head(q)>>)
      /\ subscription' = [subscription EXCEPT ![n].queue = Tail(q)]
  BY DEF Deliver, chain, MirrorInv, ProcessInv
<1>2. /\ q \in Seq(Range(log)) /\ SubscriptionsInv
      /\ \A i \in DOMAIN q : q[i].name = n
  BY DEF MirrorInv, SubscriptionsInv
<1>3. /\ Head(q) \in Range(log) /\ Tail(q) \in Seq(Range(log))
      /\ \A i \in DOMAIN Tail(q) : i + 1 \in DOMAIN q /\ Tail(q)[i] = q[i + 1]
  BY <1>1, <1>2, HeadTailProperties
<1>4. <<Head(q)>> \in Seq(Range(log))
  BY <1>3
<1>5. /\ members' \in FaithfulTo(Range(log))
      /\ membersFile' \in FaithfulTo(Range(log)) \cup {Torn}
      /\ idsFile' \in Seq(Groups) \cup {Torn}
      /\ up => membersFile' # Torn /\ idsFile' # Torn
      /\ idsFile # << >> => idsFile' # << >>
  BY <1>1, <1>4, HandleKeeps
<1>6. SubscriptionsInv'
  <2> DEFINE S == [state : {Off, Starting, On}, queue : Seq(Range(log))]
  <2>1. /\ subscription \in [Names -> S]
        /\ subscription[n].state = On
        /\ \A i \in DOMAIN EventNames : turn <= i => subscription[EventNames[i]].state = Off
    BY <1>1 DEF MirrorInv, SubscriptionsInv
  <2>2. On # Off
    BY DEF On, Off
  <2> DEFINE rest == Tail(q)
  <2>3. /\ rest \in Seq(Range(log))
        /\ \A i \in DOMAIN rest : rest[i].name = n
        /\ subscription' = [subscription EXCEPT ![n].queue = rest]
    BY <1>1, <1>2, <1>3
  <2> HIDE DEF rest, q
  <2>4. /\ DOMAIN subscription' = Names
        /\ subscription' = [m \in Names |-> subscription'[m]]
        /\ \A m \in Names : m # n => subscription'[m] = subscription[m]
    <3> HIDE DEF S
    <3> QED
      BY <2>1, <2>3
  <2>5. /\ subscription'[n] \in S
        /\ subscription'[n].queue = rest /\ subscription'[n].state = On
    <3>1. subscription'[n] = [subscription[n] EXCEPT !.queue = rest]
      BY <2>1, <2>3
    <3> QED
      BY <2>1, <2>3, <3>1
  <2>6. \A i \in DOMAIN EventNames :
          turn' <= i => subscription[EventNames[i]].state = Off /\ EventNames[i] # n
    BY <1>1, <2>1, <2>2
  <2> QED
    <3>1. /\ subscription'[n].state # On => subscription'[n].queue = << >>
          /\ \A i \in DOMAIN subscription'[n].queue : subscription'[n].queue[i].name = n
      BY <2>3, <2>5
    <3> QED
      BY <1>1, <1>2, <2>4, <2>5, <2>6, <3>1, SubscriptionSteps
<1>7. ProcessInv'
  BY <1>1, <1>5 DEF MirrorInv, ProcessInv
<1>8. FilesInv'
  BY <1>1, <1>5 DEF FilesInv
<1> QED
  BY <1>1, <1>5, <1>6, <1>7, <1>8 DEF MirrorInv

-----------------------------------------------------------------------------
(***************************************************************************)
(* The server stops, with its files as they are, with some of the events   *)
(* handled, or in the middle of writing.                                   *)
(***************************************************************************)
LEMMA EmptyIsFaithful == ASSUME NEW L PROVE [g \in Groups |-> << >>] \in FaithfulTo(L)
<1>1. DOMAIN << >> = {} /\ << >> \in Seq(Leaves)
  BY EmptySeq
<1> QED
  BY <1>1 DEF FaithfulTo, Lists, RepeatsOnly

LEMMA StopKeeps ==
  ASSUME MirrorInv, Stop, FilesInv'
  PROVE  MirrorInv' /\ creations' <= creations
<1>1. /\ log' = log /\ calm' = TRUE /\ up' = FALSE /\ turn' = Done /\ answer' = << >>
      /\ subscription' = Idle /\ members' = [g \in Groups |-> << >>]
      /\ crashes' = crashes + 1 /\ crashes < MaxCrashes
      /\ log \in Seq(Events) /\ crashes \in 0 .. MaxCrashes /\ creations \in Nat
  BY DEF Stop, MirrorInv
<1>2. creations' \in Nat /\ creations' <= creations
  BY <1>1 DEF Stop
<1>3. crashes' \in 0 .. MaxCrashes
  BY <1>1, BoundsAreNumbers
<1>4. SubscriptionsInv'
  <2> DEFINE S == [state : {Off, Starting, On}, queue : Seq(Range(log)')]
  <2>1. /\ Off \in {Off, Starting, On}
        /\ << >> \in Seq(Range(log)') /\ DOMAIN << >> = {}
    BY EmptySeq
  <2>2. [state |-> Off, queue |-> << >>] \in S
    BY <2>1
  <2>3. S = [state : {Off, Starting, On}, queue : Seq(Range(log)')]
    OBVIOUS
  <2> HIDE DEF S
  <2>4. Idle \in [Names -> S]
    BY <2>2 DEF Idle
  <2>5. \A n \in Names : Idle[n].state = Off /\ Idle[n].queue = << >>
    BY DEF Idle
  <2>6. \A i \in DOMAIN EventNames : turn' <= i => Idle[EventNames[i]].state = Off
    BY <2>5, FourNames
  <2>7. \A n \in Names :
          /\ Idle[n].state # On => Idle[n].queue = << >>
          /\ \A i \in DOMAIN Idle[n].queue : Idle[n].queue[i].name = n
          /\ Idle[n].state = Off
    BY <2>1, <2>5
  <2> QED
    BY <1>1, <2>3, <2>4, <2>6, <2>7 DEF SubscriptionsInv
<1>5. ProcessInv'
  <2>1. members' \in FaithfulTo(Range(log)')
    BY <1>1, EmptyIsFaithful, Zenon
  <2>2. up' \in BOOLEAN /\ turn' \in 1 .. Done' /\ answer' = << >>
    <3>1. Done' = 5 /\ Done = 5
      BY FourNames DEF Done, EventNames
    <3>2. up' = FALSE /\ turn' = Done /\ answer' = << >>
      BY DEF Stop
    <3>3. 5 \in 1 .. 5
      OBVIOUS
    <3> QED
      BY <3>1, <3>2, <3>3, Zenon
  <2> QED
    BY <2>1, <2>2, Zenon DEF ProcessInv
<1> QED
  BY <1>1, <1>2, <1>3, <1>4, <1>5 DEF MirrorInv

LEMMA CrashHandlingKeeps ==
  ASSUME MirrorInv, NEW es \in Seq(Range(log)), CrashHandling(es)
  PROVE  /\ MirrorInv' /\ creations' <= creations
         /\ idsFile # << >> => idsFile' # << >>
<1>1. Stop /\ up' = FALSE /\ log' = log /\ up = TRUE
  BY DEF CrashHandling, Stop, MirrorInv, ProcessInv
<1>2. /\ log \in Seq(Events) /\ members \in FaithfulTo(Range(log))
      /\ membersFile \in FaithfulTo(Range(log)) \cup {Torn}
      /\ idsFile \in Seq(Groups) \cup {Torn}
  BY DEF MirrorInv, ProcessInv, FilesInv
<1>3. /\ membersFile' \in FaithfulTo(Range(log)) \cup {Torn}
      /\ idsFile' \in Seq(Groups) \cup {Torn}
      /\ idsFile # << >> => idsFile' # << >>
  <2>1. CASE \E k \in DOMAIN es :
               /\ membersFile' = IF es[1].name = "GroupCreated" THEN membersFile
                                 ELSE MembersAfter(members, SubSeq(es, 1, k))
               /\ idsFile' = IdsAfter(idsFile, SubSeq(es, 1, k))
    <3>1. PICK k \in DOMAIN es :
               /\ membersFile' = IF es[1].name = "GroupCreated" THEN membersFile
                                 ELSE MembersAfter(members, SubSeq(es, 1, k))
               /\ idsFile' = IdsAfter(idsFile, SubSeq(es, 1, k))
      BY <2>1
    <3> DEFINE first == SubSeq(es, 1, k)
    <3>2. first \in Seq(Range(log))
      <4>1. k \in 1 .. Len(es) /\ Len(es) \in Nat
        OBVIOUS
      <4>2. \A i \in 1 .. k : i \in 1 .. Len(es) /\ es[i] \in Range(log)
        BY <4>1
      <4> QED
        BY <4>1, <4>2, SubSeqProperties
    <3> HIDE DEF first
    <3>3. /\ membersFile' = membersFile \/ membersFile' = MembersAfter(members, first)
          /\ idsFile' = IdsAfter(idsFile, first)
      BY <3>1 DEF first
    <3> QED
      BY <1>2, <3>2, <3>3, HandlingKeeps
  <2>2. CASE membersFile' = Torn /\ UNCHANGED idsFile
    BY <1>2, <2>2
  <2>3. CASE idsFile' = Torn /\ UNCHANGED membersFile
    <3>1. << >> # Torn
      BY TornIsNoList, EmptySeq
    <3> QED
      BY <1>2, <2>3, <3>1
  <2> QED
    BY <2>1, <2>2, <2>3 DEF CrashHandling
<1>4. FilesInv'
  BY <1>1, <1>3 DEF FilesInv
<1> QED
  BY <1>1, <1>3, <1>4, StopKeeps

LEMMA CrashInHandlerKeeps ==
  ASSUME MirrorInv, NEW n \in Names, CrashInHandler(n)
  PROVE  /\ MirrorInv' /\ creations' <= creations
         /\ idsFile # << >> => idsFile' # << >>
<1>1. CASE Replaying(n) /\ CrashHandling(answer[1])
  <2>1. answer[1] \in Seq(Range(log))
    BY <1>1 DEF Replaying, MirrorInv, ProcessInv
  <2> QED
    BY <1>1, <2>1, CrashHandlingKeeps
<1>2. CASE subscription[n].queue # << >> /\ CrashHandling(<<Head(subscription[n].queue)>>)
  <2>1. subscription[n].queue \in Seq(Range(log))
    BY DEF MirrorInv, SubscriptionsInv
  <2>2. Head(subscription[n].queue) \in Range(log)
    BY <1>2, <2>1, HeadTailProperties
  <2>3. <<Head(subscription[n].queue)>> \in Seq(Range(log))
    BY <2>2
  <2> QED
    BY <1>2, <2>3, CrashHandlingKeeps
<1> QED
  BY <1>1, <1>2 DEF CrashInHandler

-----------------------------------------------------------------------------
(***************************************************************************)
(* The theorems.                                                           *)
(***************************************************************************)
LEMMA MirrorInvInit == Init => MirrorInv
<1> SUFFICES ASSUME Init PROVE MirrorInv
  OBVIOUS
<1>1. /\ log = << >> /\ creations = 0 /\ calm = TRUE /\ up = FALSE /\ turn = Done
      /\ answer = << >> /\ subscription = Idle /\ members = [g \in Groups |-> << >>]
      /\ membersFile = members /\ idsFile = << >> /\ crashes = 0
  BY DEF Init
<1>2. << >> \in Seq(Range(log)) /\ DOMAIN << >> = {} /\ log \in Seq(Events) /\ << >> \in Seq(Groups)
  BY <1>1, EmptySeq
<1>3. SubscriptionsInv
  <2> DEFINE S == [state : {Off, Starting, On}, queue : Seq(Range(log))]
  <2>1. [state |-> Off, queue |-> << >>] \in S
    BY <1>2
  <2>2. S = [state : {Off, Starting, On}, queue : Seq(Range(log))]
    OBVIOUS
  <2> HIDE DEF S
  <2>3. Idle \in [Names -> S]
    BY <2>1 DEF Idle
  <2>4. \A n \in Names : Idle[n].state = Off /\ Idle[n].queue = << >>
    BY DEF Idle
  <2>5. \A i \in DOMAIN EventNames : turn <= i => Idle[EventNames[i]].state = Off
    BY <2>4, FourNames
  <2>6. \A n \in Names :
          /\ Idle[n].state # On => Idle[n].queue = << >>
          /\ \A i \in DOMAIN Idle[n].queue : Idle[n].queue[i].name = n
          /\ Idle[n].state = Off
    BY <1>2, <2>4
  <2> QED
    BY <1>1, <2>2, <2>3, <2>5, <2>6 DEF SubscriptionsInv
<1>4. ProcessInv /\ FilesInv
  <2>1. members \in FaithfulTo(Range(log))
    BY <1>1, EmptyIsFaithful, Zenon
  <2> QED
    <3>1. up \in BOOLEAN /\ turn \in 1 .. Done /\ answer = << >> /\ up = FALSE
      <4>1. Done = 5 /\ up = FALSE /\ turn = Done /\ answer = << >>
        BY FourNames DEF Init
      <4>2. 5 \in 1 .. 5
        OBVIOUS
      <4> QED
        BY <4>1, <4>2, Zenon
    <3>2. membersFile = members /\ idsFile \in Seq(Groups)
      BY <1>1, <1>2
    <3> QED
      BY <2>1, <3>1, <3>2 DEF ProcessInv, FilesInv
<1> QED
  BY <1>1, <1>2, <1>3, <1>4, BoundsAreNumbers DEF MirrorInv

(* What a step does to the list of groups and to the transactions sent.    *)
Keeps == idsFile # << >> => idsFile' # << >> /\ creations' <= creations

LEMMA MirrorStep ==
  ASSUME MirrorInv, [Next]_vars
  PROVE  MirrorInv' /\ Keeps
<1>1. creations \in Nat /\ log \in Seq(Events)
  BY DEF MirrorInv
<1>2. CASE MineGroup
  <2>1. /\ Mine(Created(Cardinality(ChainGroups))) /\ idsFile' = idsFile
        /\ creations' \in Nat /\ creations' <= creations
    BY <1>1, <1>2 DEF MineGroup, Mine, files
  <2>2. Created(Cardinality(ChainGroups)) \in Events
    BY <1>1, <1>2, ChainGroupsAreGroups DEF MineGroup, Events
  <2> QED
    BY <2>1, <2>2, MineKeeps DEF Keeps
<1>3. CASE MineMember
  <2>1. PICK e \in MemberEvents : Mine(e)
    BY <1>3 DEF MineMember
  <2>2. creations' = creations /\ idsFile' = idsFile /\ e \in Events
    BY <1>1, <1>3, <2>1, MemberEventsAreEvents DEF MineMember, Mine, files
  <2> QED
    BY <1>1, <2>1, <2>2, MineKeeps DEF Keeps
<1>4. CASE Start
  <2>1. idsFile' = idsFile /\ (idsFile # << >> => creations' = creations)
    BY <1>4 DEF Start, initGroup, getAllGroupIds, files
  <2> QED
    BY <1>1, <1>4, <2>1, StartKeeps DEF Keeps
<1>5. CASE Crash
  <2>1. Stop /\ membersFile' = membersFile /\ idsFile' = idsFile /\ up' = FALSE /\ log' = log
    BY <1>5 DEF Crash, Stop, files
  <2>2. FilesInv'
    BY <2>1 DEF MirrorInv, FilesInv
  <2> QED
    BY <2>1, <2>2, StopKeeps DEF Keeps
<1>6. ASSUME NEW n \in Names, Turn(n) \/ Subscribe(n) \/ Deliver(n) \/ CrashInHandler(n)
      PROVE  MirrorInv' /\ Keeps
  <2>1. CASE Answer(n)
    BY <1>1, <2>1, AnswerKeeps DEF Answer, chain, files, Keeps
  <2>2. CASE Fail(n)
    BY <1>1, <2>2, FailKeeps DEF Fail, chain, files, Keeps
  <2>3. CASE Replay(n)
    <3>1. creations' = creations
      BY <2>3 DEF Replay, chain
    <3> QED
      BY <1>1, <2>3, <3>1, ReplayKeeps DEF Keeps
  <2>4. CASE Subscribe(n)
    <3>1. creations' = creations /\ idsFile' = idsFile
      BY <2>4 DEF Subscribe, chain, files
    <3> QED
      BY <1>1, <2>4, <3>1, SubscribeKeeps DEF Keeps
  <2>5. CASE Deliver(n)
    <3>1. creations' = creations
      BY <2>5 DEF Deliver, chain
    <3> QED
      BY <1>1, <2>5, <3>1, DeliverKeeps DEF Keeps
  <2>6. CASE CrashInHandler(n)
    BY <2>6, CrashInHandlerKeeps DEF Keeps
  <2> QED
    BY <1>6, <2>1, <2>2, <2>3, <2>4, <2>5, <2>6 DEF Turn
<1>7. CASE UNCHANGED vars
  <2>1. /\ log' = log /\ creations' = creations /\ calm' = calm /\ up' = up /\ turn' = turn
        /\ answer' = answer /\ subscription' = subscription /\ members' = members
        /\ membersFile' = membersFile /\ idsFile' = idsFile /\ crashes' = crashes
    BY <1>7 DEF vars, chain, process, files
  <2> QED
    BY <1>1, <2>1 DEF MirrorInv, SubscriptionsInv, ProcessInv, FilesInv, Keeps
<1> QED
  BY <1>2, <1>3, <1>4, <1>5, <1>6, <1>7 DEF Next

LEMMA MirrorInvHolds == Spec => []MirrorInv
<1>1. MirrorInv /\ [Next]_vars => MirrorInv'
  BY MirrorStep
<1> QED
  BY MirrorInvInit, <1>1, PTL DEF Spec

(* Every variable keeps its type, what is answered or queued comes from    *)
(* the log, a queue holds the events of its type and only once the         *)
(* subscription is there, and a server that runs has read whole files.     *)
THEOREM MirrorTypes == Spec => []TypeOK
<1>1. ASSUME MirrorInv PROVE TypeOK
  <2>1. \A L : FaithfulTo(L) \subseteq [Groups -> Seq(Leaves)]
    BY DEF FaithfulTo, Lists
  <2>2. ASSUME NEW n \in Names
        PROVE  /\ subscription[n].state \in {Off, Starting, On}
               /\ subscription[n].state # On => subscription[n].queue = << >>
               /\ \A e \in Range(subscription[n].queue) : e.name = n /\ e \in Range(log)
    <3>1. /\ subscription[n].queue \in Seq(Range(log))
          /\ \A i \in DOMAIN subscription[n].queue : subscription[n].queue[i].name = n
          /\ subscription[n].state \in {Off, Starting, On}
          /\ subscription[n].state # On => subscription[n].queue = << >>
      BY <1>1 DEF MirrorInv, SubscriptionsInv
    <3> DEFINE q == subscription[n].queue
    <3>2. \A i \in DOMAIN q : q[i] \in Range(log) /\ q[i].name = n
      BY <3>1
    <3> HIDE DEF q
    <3>3. \A e \in Range(q) : e.name = n /\ e \in Range(log)
      BY <3>2 DEF Range
    <3> QED
      BY <3>1, <3>3 DEF q
  <2> QED
    BY <1>1, <2>1, <2>2 DEF MirrorInv, ProcessInv, FilesInv, TypeOK
<1> QED
  BY MirrorInvHolds, <1>1, PTL

(* members.json never lists under a group what did not enter it, and lists *)
(* nobody twice in a group without updates, for any log, any interleaving  *)
(* of the handlers and any number of crashes inside of them.               *)
THEOREM MirrorIsFaithful == Spec => []MirrorNeverInventsNorRepeats
<1>1. ASSUME MirrorInv PROVE MirrorNeverInventsNorRepeats
  <2> SUFFICES ASSUME membersFile # Torn, NEW g \in Groups
               PROVE  /\ \A c \in ToSet(membersFile[g]) : \E i \in DOMAIN log : Enters(g, c, i)
                      /\ \/ \E e \in Range(log) : e.group = g /\ e.name = "MemberUpdated"
                         \/ IsInjective(membersFile[g])
    BY DEF MirrorNeverInventsNorRepeats
  <2>1. /\ \A i \in DOMAIN membersFile[g] : Entered(Range(log), g, membersFile[g][i])
        /\ RepeatsOnly(membersFile[g], News(Range(log), g))
    BY <1>1 DEF MirrorInv, FilesInv, FaithfulTo
  <2>2. ASSUME NEW c, Entered(Range(log), g, c) PROVE \E i \in DOMAIN log : Enters(g, c, i)
    <3>1. PICK i \in DOMAIN log : log[i] \in {Added(g, c)} \cup {Updated(g, d, c) : d \in Leaves}
      BY <2>2 DEF Entered, Range
    <3>2. log[i].group = g
      BY <3>1 DEF Added, Updated
    <3> QED
      BY <3>1, <3>2 DEF Enters
  <2>3. \A c \in ToSet(membersFile[g]) : \E i \in DOMAIN membersFile[g] : membersFile[g][i] = c
    BY DEF ToSet
  <2>4. CASE News(Range(log), g) = {}
    <3>1. IsInjective(membersFile[g])
      BY <2>1, <2>4 DEF RepeatsOnly, IsInjective
    <3> QED
      BY <2>1, <2>2, <2>3, <3>1
  <2>5. CASE News(Range(log), g) # {}
    <3>1. PICK c, d : Updated(g, d, c) \in Range(log)
      BY <2>5 DEF News
    <3>2. Updated(g, d, c).group = g /\ Updated(g, d, c).name = "MemberUpdated"
      BY DEF Updated
    <3> QED
      BY <2>1, <2>2, <2>3, <3>1, <3>2
  <2> QED
    BY <2>4, <2>5
<1> QED
  BY MirrorInvHolds, <1>1, PTL

(* Once a group is filed, no step empties the list of groups, tears it     *)
(* unnoticed or sends another createGroup.                                 *)
THEOREM KnownGroupStays == Spec => KnownGroupIsKept
<1> DEFINE A == idsFile # << >> => idsFile' # << >> /\ creations' <= creations
<1>1. MirrorInv /\ [Next]_vars => [A]_vars
  BY MirrorStep DEF Keeps
<1> QED
  BY MirrorInvHolds, <1>1, PTL DEF Spec, KnownGroupIsKept

-----------------------------------------------------------------------------
(***************************************************************************)
(* A restart heals.  First, what handling an event does to the set of the  *)
(* commitments that are listed.                                            *)
(***************************************************************************)
LEMMA AppendedSet ==
  ASSUME NEW S, NEW list \in Seq(S), NEW c \in S
  PROVE  ToSet(Append(list, c)) = ToSet(list) \cup {c}
<1> DEFINE more == Append(list, c)
<1>1. /\ DOMAIN more = 1 .. Len(list) + 1 /\ DOMAIN list = 1 .. Len(list) /\ Len(list) \in Nat
      /\ \A i \in 1 .. Len(list) : more[i] = list[i]
      /\ more[Len(list) + 1] = c
  BY AppendProperties
<1> HIDE DEF more
<1>2. /\ \A i \in DOMAIN more : (i \in DOMAIN list /\ more[i] = list[i]) \/ more[i] = c
      /\ \A i \in DOMAIN list : i \in DOMAIN more /\ more[i] = list[i]
      /\ Len(list) + 1 \in DOMAIN more
  BY <1>1
<1>3. ToSet(more) = ToSet(list) \cup {c}
  BY <1>1, <1>2 DEF ToSet
<1> QED
  BY <1>3 DEF more

LEMMA FilteredSet ==
  ASSUME NEW S, NEW list \in Seq(S), NEW set
  PROVE  ToSet(Only(list, set)) = ToSet(list) \cap set
<1> DEFINE kept == Only(list, set)
<1>1. kept \in Seq(S) /\ Filters(list, set, Len(list), kept)
  BY OnlyFilters
<1> HIDE DEF kept
<1>2. DOMAIN kept = 1 .. Len(kept) /\ DOMAIN list = 1 .. Len(list)
  BY <1>1
<1>3. /\ \A i \in DOMAIN kept : kept[i] \in set /\ \E p \in DOMAIN list : list[p] = kept[i]
      /\ \A p \in DOMAIN list : list[p] \in set => \E i \in DOMAIN kept : kept[i] = list[p]
  BY <1>1, <1>2 DEF Filters
<1>4. ToSet(kept) = ToSet(list) \cap set
  BY <1>3 DEF ToSet
<1> QED
  BY <1>4 DEF kept

(* Array.indexOf.                                                          *)
Place(list, c) == SelectInSeq(list, LAMBDA x : x = c)

LEMMA PlaceFinds ==
  ASSUME NEW S, NEW list \in Seq(S), NEW c \in ToSet(list)
  PROVE  Place(list, c) \in DOMAIN list /\ list[Place(list, c)] = c
<1> DEFINE I == {i \in 1 .. Len(list) : list[i] = c}
           k == Place(list, c)
<1>1. DOMAIN list = 1 .. Len(list) /\ I \subseteq Nat /\ I # {} /\ I \subseteq DOMAIN list
  BY DEF ToSet
<1>2. k = Min(I)
  BY <1>1 DEF Place, SelectInSeq
<1>3. \A i \in I : list[i] = c
  OBVIOUS
<1> HIDE DEF I, k
<1>4. \E i \in I : \A j \in I : i <= j
  BY <1>1, LeastNumber
<1>5. k \in I
  BY <1>2, <1>4 DEF Min
<1>6. k \in DOMAIN list /\ list[k] = c
  BY <1>1, <1>3, <1>5
<1> QED
  BY <1>6 DEF k

(* Where a commitment is listed once, it is gone when it is replaced.      *)
LEMMA ReplacedSet ==
  ASSUME NEW list, NEW k \in DOMAIN list,
         \A i \in DOMAIN list : list[i] = list[k] => i = k,
         NEW new, DOMAIN new = DOMAIN list, \A i \in DOMAIN list : i # k => new[i] = list[i]
  PROVE  ToSet(new) = (ToSet(list) \ {list[k]}) \cup {new[k]}
BY DEF ToSet

LEMMA HandledSets ==
  ASSUME NEW L, L \subseteq Events, NEW m \in FaithfulTo(L), NEW e \in L, NEW g \in Groups
  PROVE  /\ e.name = "GroupCreated" \/ e.group # g => Handled(m, e)[g] = m[g]
         /\ e.name = "MemberAdded" /\ e.group = g =>
              ToSet(Handled(m, e)[g]) = ToSet(m[g]) \cup {e.member}
         /\ e.name = "MemberRemoved" /\ e.group = g =>
              ToSet(Handled(m, e)[g]) = ToSet(m[g]) \ {e.member}
         /\ /\ e.name = "MemberUpdated" /\ e.group = g
            /\ e.member \in ToSet(m[g]) /\ e.member \notin News(L, g)
            => ToSet(Handled(m, e)[g]) = (ToSet(m[g]) \ {e.member}) \cup {e.new}
<1>1. /\ e.group \in Groups
      /\ \/ e.name = "GroupCreated"
         \/ e.name = "MemberAdded" /\ e.member \in Leaves
         \/ e.name = "MemberRemoved" /\ e.member \in Leaves
         \/ e.name = "MemberUpdated" /\ e.member \in Leaves /\ e.new \in Leaves
  BY EventKinds
<1>2. /\ m \in Lists /\ m[g] \in Seq(Leaves) /\ DOMAIN m = Groups
      /\ RepeatsOnly(m[g], News(L, g))
  BY DEF FaithfulTo, Lists
<1>3. CASE e.name = "GroupCreated"
  BY <1>3 DEF Handled
<1>4. CASE e.name = "MemberAdded" /\ e.member \in Leaves
  <2>1. Handled(m, e) = addMember(m, e.group, e.member)
    BY <1>4 DEF Handled
  <2>2. CASE Contains(m[e.group], e.member)
    <3>1. Handled(m, e) = m
      BY <2>1, <2>2 DEF addMember
    <3>2. e.group = g => e.member \in ToSet(m[g])
      <4>1. ASSUME e.group = g PROVE \E i \in 1 .. Len(m[g]) : m[g][i] = e.member
        BY <2>2, <4>1 DEF Contains
      <4>2. DOMAIN m[g] = 1 .. Len(m[g])
        BY <1>2
      <4> QED
        BY <4>1, <4>2 DEF ToSet
    <3> QED
      BY <1>4, <3>1, <3>2
  <2>3. CASE ~ Contains(m[e.group], e.member)
    <3> DEFINE more == Append(m[e.group], e.member)
    <3>1. Handled(m, e) = [m EXCEPT ![e.group] = more]
      BY <2>1, <2>3 DEF addMember
    <3>2. e.group = g => ToSet(more) = ToSet(m[g]) \cup {e.member}
      BY <1>2, <1>4, AppendedSet
    <3> HIDE DEF more
    <3> QED
      BY <1>2, <1>4, <3>1, <3>2
  <2> QED
    BY <2>2, <2>3
<1>5. CASE e.name = "MemberRemoved" /\ e.member \in Leaves
  <2> DEFINE kept == Only(m[e.group], Leaves \ {e.member})
  <2>1. Handled(m, e) = [m EXCEPT ![e.group] = kept]
    BY <1>5 DEF Handled, removeMember
  <2>2. e.group = g => ToSet(kept) = ToSet(m[g]) \ {e.member}
    <3>1. ToSet(m[g]) \subseteq Leaves
      BY <1>2 DEF ToSet
    <3>2. ToSet(Only(m[g], Leaves \ {e.member})) = ToSet(m[g]) \cap (Leaves \ {e.member})
      BY <1>2, FilteredSet
    <3> QED
      BY <3>1, <3>2
  <2> HIDE DEF kept
  <2> QED
    BY <1>2, <1>5, <2>1, <2>2
<1>6. CASE e.name = "MemberUpdated" /\ e.member \in Leaves /\ e.new \in Leaves
  <2>1. Handled(m, e) = updateMember(m, e.group, e.member, e.new)
    BY <1>6 DEF Handled
  <2> DEFINE list == m[e.group]
             new  == [list EXCEPT ![Place(list, e.member)] = e.new]
  <2>2. CASE Contains(list, e.member)
    <3>1. Handled(m, e) = [m EXCEPT ![e.group] = new]
      <4>1. Handled(m, e) = [m EXCEPT ![e.group][Place(list, e.member)] = e.new]
        BY <2>1, <2>2 DEF updateMember, Place
      <4> QED
        BY <4>1
    <3>2. ASSUME e.group = g, e.member \in ToSet(m[g]), e.member \notin News(L, g)
          PROVE  ToSet(new) = (ToSet(m[g]) \ {e.member}) \cup {e.new}
      <4>1. /\ list \in Seq(Leaves) /\ e.member \in ToSet(list) /\ list = m[g]
            /\ \A i, j \in DOMAIN list : list[i] = e.member /\ list[j] = e.member => i = j
        BY <1>2, <3>2 DEF RepeatsOnly
      <4> HIDE DEF list
      <4> DEFINE k == Place(list, e.member)
      <4>2. k \in DOMAIN list /\ list[k] = e.member
        BY <4>1, PlaceFinds
      <4>3. new = [list EXCEPT ![k] = e.new]
        OBVIOUS
      <4> HIDE DEF k, new
      <4>4. /\ DOMAIN new = DOMAIN list /\ new[k] = e.new
            /\ \A i \in DOMAIN list : i # k => new[i] = list[i]
        BY <4>1, <4>2, <4>3
      <4>5. ToSet(new) = (ToSet(list) \ {list[k]}) \cup {new[k]}
        BY <4>1, <4>2, <4>4, ReplacedSet
      <4> QED
        BY <4>1, <4>2, <4>4, <4>5
    <3> HIDE DEF new
    <3> QED
      BY <1>2, <1>6, <3>1, <3>2
  <2>3. CASE ~ Contains(list, e.member)
    <3>1. Handled(m, e) = m
      BY <2>1, <2>3 DEF updateMember
    <3>2. e.group = g => e.member \notin ToSet(m[g])
      <4>1. e.group = g => \A i \in 1 .. Len(m[g]) : m[g][i] # e.member
        BY <2>3 DEF Contains
      <4>2. DOMAIN m[g] = 1 .. Len(m[g])
        BY <1>2
      <4> QED
        BY <4>1, <4>2 DEF ToSet
    <3> QED
      BY <1>6, <3>1, <3>2
  <2> QED
    BY <2>2, <2>3
<1> QED
  BY <1>1, <1>3, <1>4, <1>5, <1>6

-----------------------------------------------------------------------------
(***************************************************************************)
(* An ordinary log.  In a group of one, whoever was removed or replaced    *)
(* had been added, and the members are those who were added and did not    *)
(* leave, and those who came in place of another.                          *)
(***************************************************************************)
Adds(L, g)    == {c \in Leaves : Added(g, c) \in L}
Removes(L, g) == {c \in Leaves : Removed(g, c) \in L}
Olds(L, g)    == {c \in Leaves : \E d \in Leaves : Updated(g, c, d) \in L}

Remaining(L, g) == (Adds(L, g) \ (Removes(L, g) \cup Olds(L, g))) \cup News(L, g)

ReplacedOnce(g) ==
  \A i, j \in DOMAIN log :
    /\ log[i].name = "MemberUpdated" /\ log[j].name = "MemberUpdated"
    /\ log[i].group = g /\ log[j].group = g /\ log[i].member = log[j].member
    => i = j

PlainSets(L, g) ==
  /\ Removes(L, g) \cup Olds(L, g) \subseteq Adds(L, g)
  /\ Removes(L, g) \cap Olds(L, g) = {}
  /\ Adds(L, g) \cap News(L, g) = {}

Plain(g) ==
  /\ PlainSets(Range(log), g)
  /\ ChainMembers(g) = Remaining(Range(log), g)
  /\ ReplacedOnce(g)

LogInv == \A g \in Groups : Ordinary(g) => Plain(g)

LEMMA EventIs ==
  ASSUME NEW e \in Events, NEW g, NEW c, NEW d
  PROVE  /\ e = Added(g, c) <=> e.name = "MemberAdded" /\ e.group = g /\ e.member = c
         /\ e = Removed(g, c) <=> e.name = "MemberRemoved" /\ e.group = g /\ e.member = c
         /\ e = Updated(g, c, d)
              <=> e.name = "MemberUpdated" /\ e.group = g /\ e.member = c /\ e.new = d
<1>1. /\ Added(g, c).name = "MemberAdded" /\ Added(g, c).group = g /\ Added(g, c).member = c
      /\ Removed(g, c).name = "MemberRemoved" /\ Removed(g, c).group = g /\ Removed(g, c).member = c
      /\ Updated(g, c, d).name = "MemberUpdated" /\ Updated(g, c, d).group = g
      /\ Updated(g, c, d).member = c /\ Updated(g, c, d).new = d
  BY DEF Added, Removed, Updated
<1>2. /\ e.name = "MemberAdded" => e = Added(e.group, e.member)
      /\ e.name = "MemberRemoved" => e = Removed(e.group, e.member)
      /\ e.name = "MemberUpdated" => e = Updated(e.group, e.member, e.new)
  BY EventKinds
<1> QED
  BY <1>1, <1>2

LEMMA SetsGrow ==
  ASSUME NEW L, NEW e \in Events, NEW g, NEW M, M = L \cup {e}
  PROVE  /\ \A c : c \in Adds(M, g) <=>
              \/ c \in Adds(L, g)
              \/ e.group = g /\ e.name = "MemberAdded" /\ c = e.member
         /\ \A c : c \in Removes(M, g) <=>
              \/ c \in Removes(L, g)
              \/ e.group = g /\ e.name = "MemberRemoved" /\ c = e.member
         /\ \A c : c \in Olds(M, g) <=>
              \/ c \in Olds(L, g)
              \/ e.group = g /\ e.name = "MemberUpdated" /\ c = e.member
         /\ \A c : c \in News(M, g) <=>
              \/ c \in News(L, g)
              \/ e.group = g /\ e.name = "MemberUpdated" /\ c = e.new
<1>1. /\ e.name \in {"MemberAdded", "MemberRemoved", "MemberUpdated"} => e.member \in Leaves
      /\ e.name = "MemberUpdated" => e.new \in Leaves
  BY EventKinds
<1>2. \A c : c \in Adds(M, g) <=>
        \/ c \in Adds(L, g)
        \/ e.group = g /\ e.name = "MemberAdded" /\ c = e.member
  BY <1>1, EventIs DEF Adds
<1>3. \A c : c \in Removes(M, g) <=>
        \/ c \in Removes(L, g)
        \/ e.group = g /\ e.name = "MemberRemoved" /\ c = e.member
  BY <1>1, EventIs, SMTT(40) DEF Removes
<1>4. \A c : c \in Olds(M, g) <=>
        \/ c \in Olds(L, g)
        \/ e.group = g /\ e.name = "MemberUpdated" /\ c = e.member
  BY <1>1, EventIs DEF Olds
<1>5. \A c : c \in News(M, g) <=>
        \/ c \in News(L, g)
        \/ e.group = g /\ e.name = "MemberUpdated" /\ c = e.new
  BY <1>1, EventIs DEF News
<1> QED
  BY <1>2, <1>3, <1>4, <1>5

LEMMA MembersGrow ==
  ASSUME log \in Seq(Events), NEW e \in Events, log' = Append(log, e), NEW g
  PROVE  ChainMembers(g)' = MembersThen(g, ChainMembers(g), e)
<1> DEFINE X == SUBSET Leaves
<1>1. ASSUME NEW y \in X, NEW x \in Events PROVE MembersThen(g, y, x) \in X
  <2>1. \/ x.name = "GroupCreated"
        \/ x.name = "MemberAdded" /\ x.member \in Leaves
        \/ x.name = "MemberRemoved"
        \/ x.name = "MemberUpdated" /\ x.new \in Leaves
    BY EventKinds
  <2> QED
    BY <2>1 DEF MembersThen
<1> DEFINE none == {}
<1>2. none \in X
  OBVIOUS
<1>3. ChainMembers(g) = MembersIn(g, none, log) /\ ChainMembers(g)' = MembersIn(g, none, log')
  BY DEF ChainMembers, MembersIn
<1> HIDE DEF X, none
<1>4. MembersIn(g, none, Append(log, e)) = MembersThen(g, MembersIn(g, none, log), e)
  BY <1>1, <1>2, MembersInAppend
<1> QED
  BY <1>3, <1>4, Zenon

(* What an event that leaves its group ordinary cannot be.                 *)
LEMMA OrdinaryGrows ==
  ASSUME log \in Seq(Events), NEW e \in Events, log' = Append(log, e),
         NEW g \in Groups, Ordinary(g)'
  PROVE  /\ Ordinary(g)
         /\ e.group = g /\ e.name = "MemberAdded" =>
              e.member \notin Adds(Range(log), g) \cup News(Range(log), g)
         /\ e.group = g /\ e.name = "MemberUpdated" =>
              e.new \notin Adds(Range(log), g) \cup News(Range(log), g) /\ e.new # e.member
         /\ e.group = g /\ e.name \in {"MemberRemoved", "MemberUpdated"} =>
              e.member \notin News(Range(log), g)
<1> DEFINE n == Len(log)
<1>1. /\ DOMAIN log = 1 .. n /\ DOMAIN log' = 1 .. n + 1 /\ n \in Nat
      /\ \A i \in DOMAIN log : i \in DOMAIN log' /\ log'[i] = log[i] /\ i # n + 1
      /\ log'[n + 1] = e /\ n + 1 \in DOMAIN log'
  BY AppendProperties
<1> HIDE DEF n
<1>0. PICK k : k = n + 1
  OBVIOUS
<1>2. /\ \A c, i : Enters(g, c, i)' <=> /\ log'[i].group = g
                                        /\ \/ log'[i] = Added(g, c)
                                           \/ \E d \in Leaves : log'[i] = Updated(g, d, c)
      /\ \A c, i : Enters(g, c, i) <=> /\ log[i].group = g
                                       /\ \/ log[i] = Added(g, c)
                                          \/ \E d \in Leaves : log[i] = Updated(g, d, c)
  BY DEF Enters
<1>3. \A c, i : i \in DOMAIN log => (Enters(g, c, i)' <=> Enters(g, c, i))
  BY <1>1, <1>2
<1>4. \A c \in Leaves, i, j \in DOMAIN log' : Enters(g, c, i)' /\ Enters(g, c, j)' => i = j
  BY DEF Ordinary
<1>5. \A i, j \in DOMAIN log' :
        log'[i].name = "MemberUpdated" /\ log'[j].name \in {"MemberRemoved", "MemberUpdated"}
        /\ log'[i].group = g /\ log'[j].group = g => log'[j].member # log'[i].new
  BY DEF Ordinary
<1>6. Ordinary(g)
  <2>1. \A c \in Leaves, i, j \in DOMAIN log : Enters(g, c, i) /\ Enters(g, c, j) => i = j
    BY <1>1, <1>3, <1>4
  <2>2. \A i, j \in DOMAIN log :
          log[i].name = "MemberUpdated" /\ log[j].name \in {"MemberRemoved", "MemberUpdated"}
          /\ log[i].group = g /\ log[j].group = g => log[j].member # log[i].new
    BY <1>1, <1>5
  <2> QED
    BY <2>1, <2>2 DEF Ordinary
<1>7. ASSUME NEW c \in Adds(Range(log), g) \cup News(Range(log), g)
      PROVE  c \in Leaves /\ \E i \in DOMAIN log : Enters(g, c, i)
  <2>1. CASE Added(g, c) \in Range(log) /\ c \in Leaves
    <3>1. PICK i \in DOMAIN log : log[i] = Added(g, c)
      BY <2>1 DEF Range
    <3>2. log[i].group = g
      BY <3>1 DEF Added
    <3> QED
      BY <1>2, <2>1, <3>1, <3>2
  <2>2. CASE c \in Leaves /\ \E d \in Leaves : Updated(g, d, c) \in Range(log)
    <3>1. PICK d \in Leaves, i \in DOMAIN log : log[i] = Updated(g, d, c)
      BY <2>2 DEF Range
    <3>2. log[i].group = g
      BY <3>1 DEF Updated
    <3> QED
      BY <1>2, <2>2, <3>1, <3>2
  <2> QED
    BY <1>7, <2>1, <2>2 DEF Adds, News
<1>8. ASSUME NEW c, Enters(g, c, k)'
      PROVE  c \notin Adds(Range(log), g) \cup News(Range(log), g)
  <2> SUFFICES ASSUME c \in Adds(Range(log), g) \cup News(Range(log), g) PROVE FALSE
    OBVIOUS
  <2>1. c \in Leaves
    BY <1>7
  <2>2. PICK i \in DOMAIN log : Enters(g, c, i)
    BY <1>7
  <2> QED
    BY <1>0, <1>1, <1>3, <1>4, <1>8, <2>1, <2>2
<1>9. ASSUME e.group = g, e.name = "MemberAdded"
      PROVE  e.member \notin Adds(Range(log), g) \cup News(Range(log), g)
  <2>1. e = Added(g, e.member)
    BY <1>9, EventIs
  <2>2. Enters(g, e.member, k)'
    BY <1>0, <1>1, <1>2, <1>9, <2>1
  <2> QED
    BY <1>8, <2>2
<1>10. ASSUME e.group = g, e.name = "MemberUpdated"
       PROVE  e.new \notin Adds(Range(log), g) \cup News(Range(log), g) /\ e.new # e.member
  <2>1. e = Updated(g, e.member, e.new) /\ e.member \in Leaves
    BY <1>10, EventIs, EventKinds
  <2>2. Enters(g, e.new, k)'
    BY <1>0, <1>1, <1>2, <1>10, <2>1
  <2>3. e.new # e.member
    BY <1>1, <1>5, <1>10
  <2> QED
    BY <1>8, <2>2, <2>3
<1>11. ASSUME e.group = g, e.name \in {"MemberRemoved", "MemberUpdated"},
              e.member \in News(Range(log), g)
       PROVE  FALSE
  <2>1. PICK d \in Leaves, i \in DOMAIN log : log[i] = Updated(g, d, e.member)
    BY <1>11 DEF News, Range
  <2>2. /\ log'[i].name = "MemberUpdated" /\ log'[i].group = g /\ log'[i].new = e.member
        /\ i \in DOMAIN log'
    BY <1>1, <2>1 DEF Updated
  <2> QED
    BY <1>1, <1>5, <1>11, <2>2
<1> QED
  BY <1>6, <1>9, <1>10, <1>11

(* Only members leave.                                                     *)
LEMMA MemberEventIs ==
  ASSUME NEW e \in MemberEvents
  PROVE  e.name \in {"MemberRemoved", "MemberUpdated"} => e.member \in ChainMembers(e.group)
BY DEF MemberEvents, Added, Removed, Updated

LEMMA LogKeeps ==
  ASSUME log \in Seq(Events), LogInv, NEW e \in Events, log' = Append(log, e),
         e.name \in {"MemberRemoved", "MemberUpdated"} => e.member \in ChainMembers(e.group)
  PROVE  LogInv'
<1> SUFFICES ASSUME NEW g \in Groups, Ordinary(g)' PROVE Plain(g)'
  BY DEF LogInv
<1> DEFINE L == Range(log)
           M == Range(log')
           n == Len(log)
<1>1. /\ DOMAIN log = 1 .. n /\ DOMAIN log' = 1 .. n + 1 /\ n \in Nat
      /\ \A i \in DOMAIN log' : (i \in DOMAIN log /\ log'[i] = log[i]) \/ (i = n + 1 /\ log'[i] = e)
      /\ \A i \in DOMAIN log : i \in DOMAIN log' /\ log'[i] = log[i]
      /\ n + 1 \in DOMAIN log' /\ log'[n + 1] = e
  BY AppendProperties
<1>2. M = L \cup {e}
  <2> HIDE DEF n
  <2> QED
    BY <1>1 DEF Range
<1>3. Plain(g) /\ Ordinary(g)
  BY OrdinaryGrows DEF LogInv
<1>4. ChainMembers(g)' = MembersThen(g, ChainMembers(g), e)
  BY MembersGrow
<1>5. /\ e.group = g /\ e.name = "MemberAdded" => e.member \notin Adds(L, g) \cup News(L, g)
      /\ e.group = g /\ e.name = "MemberUpdated" =>
           e.new \notin Adds(L, g) \cup News(L, g) /\ e.new # e.member
      /\ e.group = g /\ e.name \in {"MemberRemoved", "MemberUpdated"} => e.member \notin News(L, g)
  BY OrdinaryGrows
<1>6. \/ e.name = "GroupCreated"
      \/ e.name = "MemberAdded" /\ e.member \in Leaves
      \/ e.name = "MemberRemoved" /\ e.member \in Leaves
      \/ e.name = "MemberUpdated" /\ e.member \in Leaves /\ e.new \in Leaves
  BY EventKinds
<1> HIDE DEF L, M, n
<1>7. /\ \A c : c \in Adds(M, g) <=>
           \/ c \in Adds(L, g)
           \/ e.group = g /\ e.name = "MemberAdded" /\ c = e.member
      /\ \A c : c \in Removes(M, g) <=>
           \/ c \in Removes(L, g)
           \/ e.group = g /\ e.name = "MemberRemoved" /\ c = e.member
      /\ \A c : c \in Olds(M, g) <=>
           \/ c \in Olds(L, g)
           \/ e.group = g /\ e.name = "MemberUpdated" /\ c = e.member
      /\ \A c : c \in News(M, g) <=>
           \/ c \in News(L, g)
           \/ e.group = g /\ e.name = "MemberUpdated" /\ c = e.new
  BY <1>2, SetsGrow
<1>8. PlainSets(L, g) /\ ChainMembers(g) = Remaining(L, g) /\ ReplacedOnce(g)
  BY <1>3 DEF Plain, L
<1>9. e.group = g /\ e.name \in {"MemberRemoved", "MemberUpdated"} =>
        e.member \in Adds(L, g) /\ e.member \notin Removes(L, g) /\ e.member \notin Olds(L, g)
  BY <1>5, <1>8 DEF Remaining
<1>10. PlainSets(M, g)
  <2>1. CASE e.group # g \/ e.name = "GroupCreated"
    BY <1>7, <1>8, <2>1 DEF PlainSets
  <2>2. CASE e.group = g /\ e.name = "MemberAdded"
    BY <1>5, <1>6, <1>7, <1>8, <2>2 DEF PlainSets
  <2>3. CASE e.group = g /\ e.name = "MemberRemoved"
    BY <1>6, <1>7, <1>8, <1>9, <2>3 DEF PlainSets
  <2>4. CASE e.group = g /\ e.name = "MemberUpdated"
    BY <1>5, <1>6, <1>7, <1>8, <1>9, <2>4 DEF PlainSets
  <2> QED
    BY <1>6, <2>1, <2>2, <2>3, <2>4
<1>11. MembersThen(g, ChainMembers(g), e) = Remaining(M, g)
  <2> DEFINE then == MembersThen(g, ChainMembers(g), e)
  <2>1. \A c : c \in Remaining(M, g) <=>
          (c \in Adds(M, g) /\ c \notin Removes(M, g) /\ c \notin Olds(M, g)) \/ c \in News(M, g)
    BY DEF Remaining
  <2>2. \A c : c \in ChainMembers(g) <=>
          (c \in Adds(L, g) /\ c \notin Removes(L, g) /\ c \notin Olds(L, g)) \/ c \in News(L, g)
    BY <1>8 DEF Remaining
  <2>3. /\ Removes(L, g) \subseteq Adds(L, g) /\ Olds(L, g) \subseteq Adds(L, g)
        /\ \A c : ~ (c \in Adds(L, g) /\ c \in News(L, g))
    BY <1>8 DEF PlainSets
  <2>4. \A c : c \in then <=> c \in Remaining(M, g)
    <3>1. CASE e.group # g \/ e.name = "GroupCreated"
      <4>1. then = ChainMembers(g)
        BY <3>1 DEF MembersThen
      <4>2. \A c : c \in Remaining(M, g) <=> c \in ChainMembers(g)
        <5>1. ~ (e.group = g /\ e.name \in {"MemberAdded", "MemberRemoved", "MemberUpdated"})
          BY <3>1
        <5>2. \A c : /\ c \in Adds(M, g) <=> c \in Adds(L, g)
                     /\ c \in Removes(M, g) <=> c \in Removes(L, g)
                     /\ c \in Olds(M, g) <=> c \in Olds(L, g)
                     /\ c \in News(M, g) <=> c \in News(L, g)
          BY <1>7, <5>1
        <5> QED
          BY <2>1, <2>2, <5>2
      <4> HIDE DEF then
      <4> QED
        BY <4>1, <4>2
    <3>2. CASE e.group = g /\ e.name = "MemberAdded"
      <4>1. then = ChainMembers(g) \cup {e.member}
        BY <3>2 DEF MembersThen
      <4> HIDE DEF then
      <4> QED
        BY <1>5, <1>7, <2>1, <2>2, <2>3, <3>2, <4>1
    <3>3. CASE e.group = g /\ e.name = "MemberRemoved"
      <4>1. then = ChainMembers(g) \ {e.member}
        BY <3>3 DEF MembersThen
      <4> HIDE DEF then
      <4> QED
        BY <1>5, <1>7, <2>1, <2>2, <2>3, <3>3, <4>1
    <3>4. CASE e.group = g /\ e.name = "MemberUpdated"
      <4>1. then = (ChainMembers(g) \ {e.member}) \cup {e.new}
        BY <3>4 DEF MembersThen
      <4> HIDE DEF then
      <4> QED
        BY <1>5, <1>7, <1>9, <2>1, <2>2, <2>3, <3>4, <4>1
    <3> QED
      BY <1>6, <3>1, <3>2, <3>3, <3>4
  <2> HIDE DEF then
  <2>5. then = Remaining(M, g)
    BY <2>4
  <2> QED
    BY <2>5 DEF then
<1>12. ReplacedOnce(g)'
  <2> SUFFICES ASSUME NEW i \in DOMAIN log', NEW j \in DOMAIN log',
                      log'[i].name = "MemberUpdated", log'[j].name = "MemberUpdated",
                      log'[i].group = g, log'[j].group = g, log'[i].member = log'[j].member
               PROVE  i = j
    BY DEF ReplacedOnce
  <2>1. ASSUME NEW k \in DOMAIN log, log[k].name = "MemberUpdated", log[k].group = g,
               e.name = "MemberUpdated", e.group = g
        PROVE  log[k].member # e.member
    <3>1. log[k] \in Events /\ log[k] \in L
      BY DEF L, Range
    <3>2. log[k] = Updated(g, log[k].member, log[k].new)
      BY <2>1, <3>1, EventIs
    <3>3. log[k].member \in Leaves /\ log[k].new \in Leaves
      BY <2>1, <3>1, EventKinds
    <3>4. log[k].member \in Olds(L, g)
      BY <3>1, <3>2, <3>3 DEF Olds
    <3> QED
      BY <1>9, <2>1, <3>4
  <2>2. CASE i \in DOMAIN log /\ j \in DOMAIN log
    BY <1>1, <1>8, <2>2 DEF ReplacedOnce
  <2>3. CASE i = n + 1 \/ j = n + 1
    BY <1>1, <2>1, <2>3
  <2> QED
    BY <1>1, <2>2, <2>3
<1>13. Range(log)' = M
  BY DEF M, Range
<1> QED
  BY <1>4, <1>10, <1>11, <1>12, <1>13 DEF Plain

-----------------------------------------------------------------------------
(***************************************************************************)
(* What replaying the events of one type does to the set of the            *)
(* commitments that are listed under a group.                              *)
(***************************************************************************)
Past(list, name) == Only(list, {e \in Range(list) : e.name = name})

LEMMA PastEvents ==
  ASSUME NEW list \in Seq(Events), NEW name, NEW es, es = Past(list, name)
  PROVE  /\ es \in Seq(Range(list)) /\ Len(es) \in Nat /\ DOMAIN es = 1 .. Len(es)
         /\ \A k \in 1 .. Len(es) : es[k] \in Range(list) /\ es[k].name = name
         /\ \A e \in Range(list) : e.name = name => \E k \in 1 .. Len(es) : es[k] = e
         /\ \A i, j \in 1 .. Len(es) : i # j =>
              \E p, q \in DOMAIN list : p # q /\ list[p] = es[i] /\ list[q] = es[j]
<1> DEFINE set == {e \in Range(list) : e.name = name}
<1>1. list \in Seq(Range(list)) /\ DOMAIN list = 1 .. Len(list)
  BY DEF Range
<1>2. es = Only(list, set)
  BY DEF Past
<1>3. \A e : e \in set <=> e \in Range(list) /\ e.name = name
  OBVIOUS
<1> HIDE DEF set
<1>4. es \in Seq(Range(list)) /\ Filters(list, set, Len(list), es)
  BY <1>1, <1>2, OnlyFilters
<1>5. Len(es) \in Nat /\ DOMAIN es = 1 .. Len(es)
  BY <1>4
<1>6. \A e \in Range(list) : \E p \in 1 .. Len(list) : list[p] = e
  BY <1>1 DEF Range
<1>7. \A k \in 1 .. Len(es) : es[k] \in Range(list) /\ es[k].name = name
  BY <1>3, <1>4 DEF Filters
<1>8. \A e \in Range(list) : e.name = name => \E k \in 1 .. Len(es) : es[k] = e
  BY <1>3, <1>4, <1>6, SMTT(40) DEF Filters
<1>9. \A i, j \in 1 .. Len(es) : i # j =>
        \E p, q \in DOMAIN list : p # q /\ list[p] = es[i] /\ list[q] = es[j]
  <2> SUFFICES ASSUME NEW i \in 1 .. Len(es), NEW j \in 1 .. Len(es), i # j
               PROVE  \E p, q \in DOMAIN list : p # q /\ list[p] = es[i] /\ list[q] = es[j]
    OBVIOUS
  <2>1. PICK p \in 1 .. Len(list), q \in 1 .. Len(list) :
          p # q /\ list[p] = es[i] /\ list[q] = es[j]
    BY <1>4 DEF Filters
  <2> QED
    BY <1>1, <2>1
<1> QED
  BY <1>4, <1>5, <1>7, <1>8, <1>9

LEMMA ReplayCreations ==
  ASSUME NEW m, NEW S, NEW es \in Seq(S), \A k \in 1 .. Len(es) : es[k].name = "GroupCreated"
  PROVE  MembersAfter(m, es) = m
<1> DEFINE E == {e \in S : e.name = "GroupCreated"}
           X == {m}
<1>1. es \in Seq(E)
  <2>1. /\ Len(es) \in Nat /\ es = [k \in 1 .. Len(es) |-> es[k]]
        /\ \A k \in 1 .. Len(es) : es[k] \in E
    OBVIOUS
  <2> HIDE DEF E
  <2>2. es \in [1 .. Len(es) -> E]
    BY <2>1
  <2> QED
    BY <2>1, <2>2, SeqDef
<1>2. \A y \in X, e \in E : Handled(y, e) \in X
  BY DEF Handled
<1>3. m \in X /\ \A y \in X : y = m
  OBVIOUS
<1> HIDE DEF X, E
<1>4. MembersAfter(m, es) \in X
  BY <1>1, <1>2, <1>3, MembersAfterIn
<1> QED
  BY <1>3, <1>4

(* Who was added is listed.                                                *)
LEMMA ReplayAdds ==
  ASSUME NEW list \in Seq(Events), NEW m \in FaithfulTo(Range(list)), NEW g \in Groups,
         NEW es, es = Past(list, "MemberAdded")
  PROVE  Adds(Range(list), g) \subseteq ToSet(MembersAfter(m, es)[g])
<1> DEFINE L == Range(list)
           X == FaithfulTo(L)
           P == [k \in 0 .. Len(es) |->
                  {x \in X : \A i \in 1 .. k : es[i].group = g => es[i].member \in ToSet(x[g])}]
<1>1. /\ es \in Seq(L) /\ Len(es) \in Nat
      /\ \A k \in 1 .. Len(es) : es[k] \in L /\ es[k].name = "MemberAdded"
      /\ \A e \in L : e.name = "MemberAdded" => \E k \in 1 .. Len(es) : es[k] = e
  BY PastEvents
<1>2. L \subseteq Events
  BY DEF Range
<1> HIDE DEF L
<1>3. \A y \in X, e \in L : Handled(y, e) \in X
  BY <1>2, HandledFaithful
<1>4. \A k \in 0 .. Len(es) : \A x : x \in P[k] <=>
        x \in X /\ \A i \in 1 .. k : es[i].group = g => es[i].member \in ToSet(x[g])
  OBVIOUS
<1>5. m \in X
  BY DEF L
<1>6. \A y \in X, e \in L :
        /\ e.group # g => Handled(y, e)[g] = y[g]
        /\ e.name = "MemberAdded" /\ e.group = g =>
             ToSet(Handled(y, e)[g]) = ToSet(y[g]) \cup {e.member}
  BY <1>2, HandledSets
<1> HIDE DEF X, P
<1>7. m \in P[0]
  BY <1>1, <1>4, <1>5
<1>8. ASSUME NEW k \in 1 .. Len(es), NEW y \in P[k - 1] PROVE Handled(y, es[k]) \in P[k]
  <2> DEFINE z == Handled(y, es[k])
  <2>1. k \in 0 .. Len(es) /\ k - 1 \in 0 .. Len(es) /\ \A i \in 1 .. k : i = k \/ i \in 1 .. k - 1
    BY <1>1
  <2>2. y \in X /\ \A i \in 1 .. k - 1 : es[i].group = g => es[i].member \in ToSet(y[g])
    BY <1>4, <2>1
  <2>3. z \in X /\ es[k].name = "MemberAdded"
    BY <1>1, <1>3, <2>2
  <2>4. /\ es[k].group # g => ToSet(z[g]) = ToSet(y[g])
        /\ es[k].group = g => ToSet(z[g]) = ToSet(y[g]) \cup {es[k].member}
    BY <1>1, <1>6, <2>2
  <2> HIDE DEF z
  <2>5. \A i \in 1 .. k : es[i].group = g => es[i].member \in ToSet(z[g])
    BY <2>1, <2>2, <2>4
  <2>6. z \in P[k]
    BY <1>4, <2>1, <2>3, <2>5
  <2> QED
    BY <2>6 DEF z
<1>9. MembersAfter(m, es) \in P[Len(es)]
  BY <1>1, <1>3, <1>5, <1>7, <1>8, MembersAfterReaches
<1>10. \A i \in 1 .. Len(es) : es[i].group = g => es[i].member \in ToSet(MembersAfter(m, es)[g])
  BY <1>1, <1>4, <1>9
<1>11. ASSUME NEW c \in Adds(L, g) PROVE c \in ToSet(MembersAfter(m, es)[g])
  <2>1. /\ Added(g, c) \in L /\ Added(g, c).name = "MemberAdded"
        /\ Added(g, c).group = g /\ Added(g, c).member = c
    BY DEF Adds, Added
  <2> QED
    BY <1>1, <1>10, <2>1
<1> QED
  BY <1>11 DEF L

(* Who was removed is not, and nobody else is struck.                      *)
LEMMA ReplayRemoves ==
  ASSUME NEW list \in Seq(Events), NEW m \in FaithfulTo(Range(list)), NEW g \in Groups,
         NEW es, es = Past(list, "MemberRemoved")
  PROVE  /\ ToSet(m[g]) \ Removes(Range(list), g) \subseteq ToSet(MembersAfter(m, es)[g])
         /\ ToSet(MembersAfter(m, es)[g]) \cap Removes(Range(list), g) = {}
<1> DEFINE L == Range(list)
           X == FaithfulTo(L)
           old == ToSet(m[g])
           gone == Removes(L, g)
           P == [k \in 0 .. Len(es) |->
                  {x \in X : /\ old \ gone \subseteq ToSet(x[g])
                             /\ \A i \in 1 .. k : es[i].group = g => es[i].member \notin ToSet(x[g])}]
<1>1. /\ es \in Seq(L) /\ Len(es) \in Nat
      /\ \A k \in 1 .. Len(es) : es[k] \in L /\ es[k].name = "MemberRemoved"
      /\ \A e \in L : e.name = "MemberRemoved" => \E k \in 1 .. Len(es) : es[k] = e
  BY PastEvents
<1>2. L \subseteq Events
  BY DEF Range
<1> HIDE DEF L
<1>3. \A y \in X, e \in L : Handled(y, e) \in X
  BY <1>2, HandledFaithful
<1>4. \A k \in 0 .. Len(es) : \A x : x \in P[k] <=>
        /\ x \in X /\ old \ gone \subseteq ToSet(x[g])
        /\ \A i \in 1 .. k : es[i].group = g => es[i].member \notin ToSet(x[g])
  OBVIOUS
<1>5. m \in X
  BY DEF L
<1>6. \A y \in X, e \in L :
        /\ e.group # g => Handled(y, e)[g] = y[g]
        /\ e.name = "MemberRemoved" /\ e.group = g =>
             ToSet(Handled(y, e)[g]) = ToSet(y[g]) \ {e.member}
  BY <1>2, HandledSets
<1>a. \A e \in L : e.name = "MemberRemoved" /\ e.group = g => e.member \in gone
  <2>1. ASSUME NEW e \in L, e.name = "MemberRemoved", e.group = g PROVE e.member \in gone
    <3>1. e = Removed(g, e.member) /\ e.member \in Leaves
      BY <1>2, <2>1, EventKinds
    <3> QED
      BY <3>1 DEF Removes
  <2> QED
    BY <2>1
<1> HIDE DEF X, P, gone, old
<1>7. m \in P[0]
  <2>1. old \ gone \subseteq ToSet(m[g])
    BY DEF old
  <2> QED
    BY <1>1, <1>4, <1>5, <2>1
<1>8. ASSUME NEW k \in 1 .. Len(es), NEW y \in P[k - 1] PROVE Handled(y, es[k]) \in P[k]
  <2> DEFINE z == Handled(y, es[k])
  <2>1. k \in 0 .. Len(es) /\ k - 1 \in 0 .. Len(es) /\ \A i \in 1 .. k : i = k \/ i \in 1 .. k - 1
    BY <1>1
  <2>2. /\ y \in X /\ old \ gone \subseteq ToSet(y[g])
        /\ \A i \in 1 .. k - 1 : es[i].group = g => es[i].member \notin ToSet(y[g])
    BY <1>4, <2>1
  <2>3. z \in X /\ es[k].name = "MemberRemoved" /\ es[k] \in L
    BY <1>1, <1>3, <2>2
  <2>4. /\ es[k].group # g => ToSet(z[g]) = ToSet(y[g])
        /\ es[k].group = g => ToSet(z[g]) = ToSet(y[g]) \ {es[k].member} /\ es[k].member \in gone
    BY <1>1, <1>6, <1>a, <2>2
  <2> HIDE DEF z
  <2>5. \A i \in 1 .. k : es[i].group = g => es[i].member \notin ToSet(z[g])
    BY <2>1, <2>2, <2>4
  <2>6. old \ gone \subseteq ToSet(z[g])
    BY <2>2, <2>4
  <2>7. z \in P[k]
    BY <1>4, <2>1, <2>3, <2>5, <2>6
  <2> QED
    BY <2>7 DEF z
<1>9. MembersAfter(m, es) \in P[Len(es)]
  BY <1>1, <1>3, <1>5, <1>7, <1>8, MembersAfterReaches
<1>10. /\ old \ gone \subseteq ToSet(MembersAfter(m, es)[g])
       /\ \A i \in 1 .. Len(es) : es[i].group = g => es[i].member \notin ToSet(MembersAfter(m, es)[g])
  BY <1>1, <1>4, <1>9
<1>11. ASSUME NEW c \in gone PROVE c \notin ToSet(MembersAfter(m, es)[g])
  <2>1. /\ Removed(g, c) \in L /\ Removed(g, c).name = "MemberRemoved"
        /\ Removed(g, c).group = g /\ Removed(g, c).member = c
    BY DEF gone, Removes, Removed
  <2> QED
    BY <1>1, <1>10, <2>1
<1> QED
  BY <1>10, <1>11 DEF L, old, gone

(* Who was replaced is not listed, and who came in its place is: every     *)
(* update finds its old member listed, once.                               *)
LEMMA ReplayUpdates ==
  ASSUME NEW list \in Seq(Events), NEW m \in FaithfulTo(Range(list)), NEW g \in Groups,
         NEW es, es = Past(list, "MemberUpdated"),
         PlainSets(Range(list), g),
         \A i, j \in DOMAIN list :
           /\ list[i].name = "MemberUpdated" /\ list[j].name = "MemberUpdated"
           /\ list[i].group = g /\ list[j].group = g /\ list[i].member = list[j].member
           => i = j,
         Olds(Range(list), g) \subseteq ToSet(m[g])
  PROVE  ToSet(MembersAfter(m, es)[g]) =
           (ToSet(m[g]) \ Olds(Range(list), g)) \cup News(Range(list), g)
<1> DEFINE L == Range(list)
           X == FaithfulTo(L)
           n == Len(es)
           start == ToSet(m[g])
           olds == Olds(L, g)
           news == News(L, g)
           mine == {i \in 1 .. n : es[i].group = g}
           done(k, now) ==
             /\ now \subseteq start \cup news /\ start \ olds \subseteq now
             /\ \A i \in mine : i <= k => es[i].member \notin now /\ es[i].new \in now
             /\ \A i \in mine : i > k => es[i].member \in now
           P == [k \in 0 .. n |-> {x \in X : done(k, ToSet(x[g]))}]
<1>1. /\ es \in Seq(L) /\ n \in Nat
      /\ \A k \in 1 .. n : es[k] \in L /\ es[k].name = "MemberUpdated"
      /\ \A e \in L : e.name = "MemberUpdated" => \E k \in 1 .. n : es[k] = e
  BY PastEvents
<1>2. \A i, j \in mine : es[i].member = es[j].member => i = j
  <2> SUFFICES ASSUME NEW i \in 1 .. n, NEW j \in 1 .. n, es[i].group = g, es[j].group = g,
                      es[i].member = es[j].member, i # j
               PROVE  FALSE
    OBVIOUS
  <2>1. PICK p \in DOMAIN list, q \in DOMAIN list : p # q /\ list[p] = es[i] /\ list[q] = es[j]
    <3> HIDE DEF mine, P, X, L, olds, news, start
    <3> QED
      BY PastEvents DEF n
  <2> QED
    BY <1>1, <2>1
<1>3. L \subseteq Events
  BY DEF Range
<1>4. m \in X /\ olds \subseteq start
  OBVIOUS
<1>5. olds \cap news = {}
  BY DEF PlainSets
<1> HIDE DEF L
<1>6. \A y \in X, e \in L : Handled(y, e) \in X
  BY <1>3, HandledFaithful
<1>7. \A y \in X, e \in L :
        /\ e.group # g => Handled(y, e)[g] = y[g]
        /\ /\ e.name = "MemberUpdated" /\ e.group = g
           /\ e.member \in ToSet(y[g]) /\ e.member \notin news
           => ToSet(Handled(y, e)[g]) = (ToSet(y[g]) \ {e.member}) \cup {e.new}
  BY <1>3, HandledSets
<1>8. \A i \in mine : es[i].member \in olds /\ es[i].new \in news
  <2>1. ASSUME NEW i \in mine PROVE es[i].member \in olds /\ es[i].new \in news
    <3>1. es[i] \in Events /\ es[i] \in L /\ es[i].name = "MemberUpdated" /\ es[i].group = g
      BY <1>1, <1>3
    <3>2. /\ es[i] = Updated(g, es[i].member, es[i].new)
          /\ es[i].member \in Leaves /\ es[i].new \in Leaves
      BY <3>1, EventKinds
    <3> QED
      BY <3>1, <3>2 DEF Olds, News
  <2> QED
    BY <2>1
<1>9. /\ \A c \in olds : \E i \in mine : es[i].member = c
      /\ \A c \in news : \E i \in mine : es[i].new = c
  <2>1. ASSUME NEW c, NEW d, Updated(g, c, d) \in L
        PROVE  \E i \in mine : es[i].member = c /\ es[i].new = d
    <3>1. /\ Updated(g, c, d).name = "MemberUpdated" /\ Updated(g, c, d).group = g
          /\ Updated(g, c, d).member = c /\ Updated(g, c, d).new = d
      BY DEF Updated
    <3> QED
      BY <1>1, <2>1, <3>1
  <2> HIDE DEF mine
  <2> QED
    BY <2>1 DEF Olds, News
<1>10. \A k \in 0 .. n : \A x : x \in P[k] <=> x \in X /\ done(k, ToSet(x[g]))
  OBVIOUS
<1>11. mine \subseteq 1 .. n /\ \A i \in 1 .. n : i \in mine <=> es[i].group = g
  OBVIOUS
<1> HIDE DEF X, P, n, olds, news, mine
<1>12. m \in P[0]
  <2>1. done(0, start)
    BY <1>1, <1>4, <1>8, <1>11
  <2> HIDE DEF done
  <2> QED
    BY <1>1, <1>4, <1>10, <2>1 DEF start
<1>13. ASSUME NEW k \in 1 .. n, NEW y \in P[k - 1] PROVE Handled(y, es[k]) \in P[k]
  <2> DEFINE z == Handled(y, es[k])
             was == ToSet(y[g])
             is == ToSet(z[g])
  <2>1. k \in 0 .. n /\ k - 1 \in 0 .. n /\ k \in Nat
    BY <1>1
  <2>2. y \in X /\ done(k - 1, was)
    <3> HIDE DEF done
    <3> QED
      BY <1>10, <2>1
  <2>3. z \in X /\ es[k] \in L /\ es[k].name = "MemberUpdated"
    BY <1>1, <1>6, <2>2
  <2>4. done(k, is)
    <3>1. CASE es[k].group # g
      <4>1. is = was
        BY <1>7, <2>2, <2>3, <3>1
      <4>2. k \notin mine
        BY <1>11, <3>1
      <4> HIDE DEF is, was, start
      <4>3. \A i \in mine : (i <= k => i <= k - 1) /\ (i > k => i > k - 1)
        BY <1>1, <1>11, <2>1, <4>2
      <4> QED
        BY <2>2, <4>1, <4>3
    <3>2. CASE es[k].group = g
      <4>1. k \in mine
        BY <1>11, <3>2
      <4> DEFINE old == es[k].member
                 new == es[k].new
      <4>2. old \in olds /\ new \in news /\ old \notin news /\ new \notin olds
        BY <1>5, <1>8, <4>1
      <4>3. old \in was
        BY <2>1, <2>2, <4>1
      <4>4. is = (was \ {old}) \cup {new}
        BY <1>7, <2>2, <2>3, <3>2, <4>2, <4>3
      <4>5. \A i \in mine : /\ i <= k => i <= k - 1 \/ i = k
                            /\ i > k => i > k - 1 /\ i # k
        BY <1>1, <1>11, <2>1
      <4>6. \A i \in mine : es[i].member \in olds /\ es[i].new \in news
                            /\ (i # k => es[i].member # old)
        BY <1>2, <1>8, <4>1
      <4> HIDE DEF is, was, start
      <4>7. is \subseteq start \cup news /\ start \ olds \subseteq is
        BY <2>2, <4>2, <4>4
      <4>8. \A i \in mine : i <= k => es[i].member \notin is /\ es[i].new \in is
        BY <2>2, <4>2, <4>4, <4>5, <4>6
      <4>9. \A i \in mine : i > k => es[i].member \in is
        BY <2>2, <4>2, <4>4, <4>5, <4>6
      <4> QED
        BY <4>7, <4>8, <4>9
    <3> QED
      BY <3>1, <3>2
  <2> HIDE DEF done
  <2>5. z \in P[k]
    BY <1>10, <2>1, <2>3, <2>4
  <2> QED
    BY <2>5
<1>14. MembersAfter(m, es) \in P[n]
  <2>1. n = Len(es)
    BY DEF n
  <2> HIDE DEF done, start
  <2> QED
    BY <1>1, <1>4, <1>6, <1>12, <1>13, <2>1, MembersAfterReaches
<1> DEFINE end == ToSet(MembersAfter(m, es)[g])
<1>15. done(n, end)
  <2> HIDE DEF done, start
  <2> QED
    BY <1>1, <1>10, <1>14
<1> HIDE DEF end, start
<1>16. \A i \in mine : i <= n
  BY <1>1, <1>11
<1>17. olds \cap end = {} /\ news \subseteq end
  BY <1>9, <1>15, <1>16
<1>18. end = (start \ olds) \cup news
  BY <1>5, <1>15, <1>17
<1> QED
  BY <1>18 DEF end, start, olds, news, L

-----------------------------------------------------------------------------
(***************************************************************************)
(* The inductive invariant of the healing.  While nothing is mined, every  *)
(* answer is all the past of its type, and each type that was replayed has *)
(* brought the members object one stage closer to the contract: those who  *)
(* were added are listed, then those who were removed are not, and at last *)
(* the updates are made.  A type whose query failed stays off, and that    *)
(* start promises nothing.                                                 *)
(***************************************************************************)
Heard == \A i \in 1 .. 4 : i < turn => subscription[EventNames[i]].state # Off

Stage(g) ==
  /\ turn \in {3, 4} => Adds(Range(log), g) \ Removes(Range(log), g) \subseteq ToSet(members[g])
  /\ turn > 3 => ToSet(members[g]) \cap Removes(Range(log), g) = {}
  /\ turn > 4 => ToSet(members[g]) = Remaining(Range(log), g)

HealInv ==
  /\ up => members = membersFile
  /\ ~ up => answer = << >>
  /\ up /\ calm => \A n \in Names : subscription[n].queue = << >>
  /\ up /\ calm /\ turn < Done /\ answer # << >> => answer[1] = Past(log, EventNames[turn])
  /\ up /\ calm /\ Heard => \A g \in Groups : Ordinary(g) => Stage(g)

(* Whatever is handled, the file says the same as the object.              *)
LEMMA HandleSaves ==
  ASSUME NEW S, NEW es \in Seq(S), Handle(es), members = membersFile
  PROVE  members' = membersFile'
<1>1. members' = MembersAfter(members, es)
  BY DEF Handle
<1>2. CASE \E e \in Range(es) : e.name # "GroupCreated"
  BY <1>2 DEF Handle, saveMembers
<1>3. CASE ~ \E e \in Range(es) : e.name # "GroupCreated"
  <2>1. \A k \in 1 .. Len(es) : es[k] \in Range(es)
    BY DEF Range
  <2>2. \A k \in 1 .. Len(es) : es[k].name = "GroupCreated"
    BY <1>3, <2>1
  <2>3. MembersAfter(members, es) = members
    BY <2>2, ReplayCreations
  <2> QED
    BY <1>1, <1>3, <2>3 DEF Handle
<1> QED
  BY <1>2, <1>3

(* Replaying the events of one type leads to the next stage.               *)
LEMMA StageSteps ==
  ASSUME MirrorInv, LogInv, NEW g \in Groups, Ordinary(g), Stage(g), log' = log,
         turn \in 1 .. 4, turn' = turn + 1,
         members' = MembersAfter(members, Past(log, EventNames[turn]))
  PROVE  Stage(g)'
<1> DEFINE L == Range(log)
           old == ToSet(members[g])
           new == ToSet(members'[g])
           es == Past(log, EventNames[turn])
<1>1. log \in Seq(Events) /\ members \in FaithfulTo(L) /\ members' = MembersAfter(members, es)
  BY DEF MirrorInv, ProcessInv
<1>2. /\ EventNames[1] = "GroupCreated" /\ EventNames[2] = "MemberAdded"
      /\ EventNames[3] = "MemberRemoved" /\ EventNames[4] = "MemberUpdated"
  BY DEF EventNames
<1>3. PlainSets(L, g) /\ ReplacedOnce(g)
  BY DEF LogInv, Plain
<1>4. turn \in {3, 4} => Adds(L, g) \ Removes(L, g) \subseteq old
  BY DEF Stage
<1>5. turn > 3 => old \cap Removes(L, g) = {}
  BY DEF Stage
<1>6. CASE turn = 1
  BY <1>6 DEF Stage
<1>7. CASE turn = 2
  <2>1. es = Past(log, "MemberAdded")
    BY <1>2, <1>7
  <2> HIDE DEF es
  <2>2. Adds(L, g) \subseteq new
    BY <1>1, <2>1, ReplayAdds
  <2>3. turn' = 3
    BY <1>7
  <2> QED
    BY <2>2, <2>3 DEF Stage
<1>8. CASE turn = 3
  <2>1. es = Past(log, "MemberRemoved")
    BY <1>2, <1>8
  <2> HIDE DEF es
  <2>2. old \ Removes(L, g) \subseteq new /\ new \cap Removes(L, g) = {}
    BY <1>1, <2>1, ReplayRemoves
  <2>3. turn' = 4
    BY <1>8
  <2> HIDE DEF old, new, L
  <2>4. Adds(L, g) \ Removes(L, g) \subseteq new
    BY <1>4, <1>8, <2>2
  <2> QED
    BY <2>2, <2>3, <2>4 DEF Stage, L, new
<1>9. CASE turn = 4
  <2>1. es = Past(log, "MemberUpdated") /\ turn' = 5
    BY <1>2, <1>9
  <2>2. old \subseteq Adds(L, g) \cup News(L, g)
    <3>1. \A c : Entered(L, g, c) /\ c \in Leaves => c \in Adds(L, g) \cup News(L, g)
      BY DEF Entered, Adds, News
    <3>2. members[g] \in Seq(Leaves) /\ \A i \in DOMAIN members[g] : Entered(L, g, members[g][i])
      BY <1>1 DEF FaithfulTo, Lists
    <3>3. \A i \in DOMAIN members[g] : members[g][i] \in Leaves
      BY <3>2
    <3> HIDE DEF L
    <3> QED
      BY <3>1, <3>2, <3>3 DEF ToSet
  <2>3. Olds(L, g) \subseteq old
    <3>1. Olds(L, g) \subseteq Adds(L, g) /\ Removes(L, g) \cap Olds(L, g) = {}
      BY <1>3 DEF PlainSets
    <3> HIDE DEF L, old
    <3> QED
      BY <1>4, <1>9, <3>1
  <2> HIDE DEF es
  <2>4. new = (old \ Olds(L, g)) \cup News(L, g)
    BY <1>1, <1>3, <2>1, <2>3, ReplayUpdates DEF ReplacedOnce
  <2>5. new = Remaining(L, g) /\ new \cap Removes(L, g) = {}
    <3>1. Removes(L, g) \subseteq Adds(L, g) /\ Adds(L, g) \cap News(L, g) = {}
      BY <1>3 DEF PlainSets
    <3>2. Remaining(L, g) = (Adds(L, g) \ (Removes(L, g) \cup Olds(L, g))) \cup News(L, g)
      BY DEF Remaining
    <3> HIDE DEF L, old, new
    <3>3. Adds(L, g) \ Removes(L, g) \subseteq old /\ old \cap Removes(L, g) = {}
      BY <1>4, <1>5, <1>9
    <3>4. \A c : c \in new <=> c \in Remaining(L, g)
      BY <2>2, <2>4, <3>2, <3>3
    <3>5. \A c : ~ (c \in new /\ c \in Removes(L, g))
      BY <2>4, <3>1, <3>3
    <3> QED
      BY <3>4, <3>5
  <2> HIDE DEF L, old, new
  <2> QED
    BY <2>1, <2>5 DEF Stage, L, new
<1> QED
  BY <1>6, <1>7, <1>8, <1>9

LEMMA HealReplay ==
  ASSUME MirrorInv, LogInv, HealInv, NEW n \in Names, Replay(n)
  PROVE  HealInv'
<1>1. /\ log' = log /\ calm' = calm /\ up = TRUE /\ up' = TRUE /\ answer' = << >>
      /\ turn' = turn + 1 /\ turn < Done /\ turn \in 1 .. Done /\ n = EventNames[turn]
      /\ answer # << >> /\ Handle(answer[1])
      /\ subscription' = [subscription EXCEPT ![n].state = Starting]
  BY DEF Replay, Replaying, chain, MirrorInv, ProcessInv
<1>2. turn \in 1 .. 4
  BY <1>1, FourNames
<1>3. members' = membersFile'
  <2>1. answer[1] \in Seq(Range(log)) /\ members = membersFile
    BY <1>1 DEF MirrorInv, ProcessInv, HealInv
  <2> QED
    BY <1>1, <2>1, HandleSaves
<1>4. /\ DOMAIN subscription = Names
      /\ \A m \in Names : subscription[m] \in [state : {Off, Starting, On}, queue : Seq(Range(log))]
  BY DEF MirrorInv, SubscriptionsInv
<1>5. /\ \A m \in Names : subscription'[m].queue = subscription[m].queue
      /\ \A m \in Names : m # n => subscription'[m].state = subscription[m].state
  BY <1>1, <1>4
<1>6. calm => \A m \in Names : subscription'[m].queue = << >>
  BY <1>1, <1>5 DEF HealInv
<1>7. ASSUME calm, Heard', NEW g \in Groups, Ordinary(g)' PROVE Stage(g)'
  <2>1. Ordinary(g)
    BY <1>1, <1>7 DEF Ordinary, Enters
  <2>2. Heard
    BY <1>1, <1>2, <1>5, <1>7, FourNames DEF Heard
  <2>3. Stage(g) /\ answer[1] = Past(log, EventNames[turn])
    BY <1>1, <1>7, <2>1, <2>2 DEF HealInv
  <2>4. members' = MembersAfter(members, Past(log, EventNames[turn]))
    BY <1>1, <2>3 DEF Handle
  <2> QED
    BY <1>1, <1>2, <2>1, <2>3, <2>4, StageSteps
<1> QED
  BY <1>1, <1>3, <1>6, <1>7 DEF HealInv

(* What is mined ends the calm; what else happens to the process moves it  *)
(* between stages or starts it anew.                                       *)
LEMMA HealMine ==
  ASSUME MirrorInv, LogInv, HealInv, NEW e \in Events, Mine(e),
         e.name \in {"MemberRemoved", "MemberUpdated"} => e.member \in ChainMembers(e.group)
  PROVE  LogInv' /\ HealInv'
<1>1. /\ log \in Seq(Events) /\ log' = Append(log, e) /\ up \in BOOLEAN
      /\ up' = up /\ calm' = ~ up /\ answer' = answer /\ members' = members
      /\ membersFile' = membersFile
  BY DEF Mine, files, MirrorInv, ProcessInv
<1>2. LogInv'
  BY <1>1, LogKeeps
<1>3. HealInv'
  BY <1>1 DEF HealInv
<1> QED
  BY <1>2, <1>3

LEMMA HealStart ==
  ASSUME MirrorInv, HealInv, Start
  PROVE  HealInv'
<1>1. /\ up = FALSE /\ up' = TRUE /\ turn' = 1 /\ answer' = answer /\ answer = << >>
      /\ subscription' = subscription /\ members' = membersFile /\ membersFile' = membersFile
  BY DEF Start, loadMembers, files, HealInv
<1>2. \A n \in Names : subscription[n].queue = << >>
  <2>1. Off # On
    BY DEF Off, On
  <2> QED
    BY <1>1, <2>1 DEF MirrorInv, SubscriptionsInv
<1>3. \A g \in Groups : Stage(g)'
  BY <1>1 DEF Stage
<1> QED
  BY <1>1, <1>2, <1>3 DEF HealInv

LEMMA HealStop ==
  ASSUME Stop
  PROVE  HealInv' /\ log' = log
BY DEF Stop, HealInv

LEMMA SameLog ==
  ASSUME log' = log
  PROVE  (LogInv => LogInv') /\ \A g : Ordinary(g)' <=> Ordinary(g)
<1>1. \A g : ChainMembers(g)' = ChainMembers(g)
  BY DEF ChainMembers
<1>2. \A g : Ordinary(g)' <=> Ordinary(g)
  BY DEF Ordinary, Enters
<1>3. \A g : Plain(g) => Plain(g)'
  BY <1>1 DEF Plain, ReplacedOnce
<1> QED
  BY <1>2, <1>3 DEF LogInv

(* Where the turn and the object stay, so does the stage.                  *)
LEMMA SameStage ==
  ASSUME HealInv, log' = log, up' = up, calm' = calm, turn' = turn, members' = members,
         \A n \in Names : subscription'[n].state # Off => subscription[n].state # Off
  PROVE  up' /\ calm' /\ Heard' => \A g \in Groups : Ordinary(g)' => Stage(g)'
<1>1. Heard' => Heard
  BY FourNames DEF Heard
<1>2. \A g \in Groups : Stage(g) => Stage(g)'
  BY DEF Stage
<1>3. \A g : Ordinary(g)' <=> Ordinary(g)
  BY SameLog
<1> QED
  BY <1>1, <1>2, <1>3 DEF HealInv

LEMMA HealTurn ==
  ASSUME MirrorInv, LogInv, HealInv, NEW n \in Names, Turn(n)
  PROVE  HealInv' /\ log' = log
<1>1. CASE Answer(n)
  <2>1. /\ log' = log /\ up' = up /\ calm' = calm /\ turn' = turn /\ members' = members
        /\ membersFile' = membersFile /\ subscription' = subscription
        /\ up /\ n = EventNames[turn] /\ answer' = <<Past(log, n)>>
    BY <1>1 DEF Answer, Querying, chain, files, Past
  <2>2. up' /\ calm' /\ Heard' => \A g \in Groups : Ordinary(g)' => Stage(g)'
    BY <2>1, SameStage
  <2>3. answer'[1] = Past(log', EventNames[turn'])
    BY <2>1
  <2> QED
    BY <2>1, <2>2, <2>3 DEF HealInv
<1>2. CASE Fail(n)
  <2>1. /\ log' = log /\ up' = up /\ calm' = calm /\ turn' = turn + 1 /\ members' = members
        /\ membersFile' = membersFile /\ subscription' = subscription
        /\ up /\ turn < Done /\ turn \in 1 .. Done /\ answer = << >> /\ answer' = << >>
    BY <1>2 DEF Fail, Querying, chain, files, MirrorInv, ProcessInv
  <2>2. ~ Heard'
    <3>1. turn \in 1 .. 4 /\ turn < turn'
      BY <2>1, FourNames
    <3>2. subscription'[EventNames[turn]].state = Off
      BY <2>1, <3>1, FourNames DEF MirrorInv, SubscriptionsInv
    <3> QED
      BY <3>1, <3>2 DEF Heard
  <2> QED
    BY <2>1, <2>2 DEF HealInv
<1>3. CASE Replay(n)
  BY <1>3, HealReplay DEF Replay, chain
<1> QED
  BY <1>1, <1>2, <1>3 DEF Turn

LEMMA HealSubscribe ==
  ASSUME MirrorInv, HealInv, NEW n \in Names, Subscribe(n)
  PROVE  HealInv' /\ log' = log
<1>1. /\ log' = log /\ up' = up /\ calm' = calm /\ turn' = turn /\ members' = members
      /\ membersFile' = membersFile /\ answer' = answer /\ up
      /\ subscription[n].state = Starting
      /\ subscription' = [subscription EXCEPT ![n].state = On]
  BY DEF Subscribe, chain, files
<1>2. /\ DOMAIN subscription = Names
      /\ \A m \in Names : subscription[m] \in [state : {Off, Starting, On}, queue : Seq(Range(log))]
  BY DEF MirrorInv, SubscriptionsInv
<1>3. /\ \A m \in Names : subscription'[m].queue = subscription[m].queue
      /\ \A m \in Names : m # n => subscription'[m].state = subscription[m].state
  BY <1>1, <1>2
<1>4. Starting # Off
  BY DEF Starting, Off
<1>5. up' /\ calm' /\ Heard' => \A g \in Groups : Ordinary(g)' => Stage(g)'
  BY <1>1, <1>3, <1>4, SameStage
<1> QED
  BY <1>1, <1>3, <1>5 DEF HealInv

(* Nothing is delivered in the calm.                                       *)
LEMMA HealDeliver ==
  ASSUME MirrorInv, HealInv, NEW n \in Names, Deliver(n)
  PROVE  HealInv' /\ log' = log
<1>1. /\ log' = log /\ up /\ up' = up /\ calm' = calm /\ subscription[n].queue # << >>
      /\ Handle(<<Head(subscription[n].queue)>>)
  BY DEF Deliver, chain
<1>2. ~ calm
  BY <1>1 DEF HealInv
<1>3. members' = membersFile'
  <2> DEFINE h == Head(subscription[n].queue)
  <2>1. <<h>> \in Seq({h}) /\ Handle(<<h>>) /\ members = membersFile
    BY <1>1 DEF HealInv
  <2> HIDE DEF h
  <2> QED
    BY <2>1, HandleSaves
<1> QED
  BY <1>1, <1>2, <1>3 DEF HealInv

LEMMA HealInit == Init => LogInv /\ HealInv
<1> SUFFICES ASSUME Init PROVE LogInv /\ HealInv
  OBVIOUS
<1>1. log = << >> /\ up = FALSE /\ answer = << >>
  BY DEF Init
<1>2. ASSUME NEW g PROVE Plain(g)
  <2> DEFINE none == {}
             X == {none}
  <2>1. log \in Seq(none) /\ DOMAIN log = {} /\ Range(log) = {}
    BY <1>1, EmptySeq DEF Range
  <2>2. ChainMembers(g) = {}
    <3>1. ChainMembers(g) \in X
      BY <2>1, ChainMembersIn
    <3> QED
      BY <3>1
  <2>3. /\ Adds(Range(log), g) = {} /\ Removes(Range(log), g) = {}
        /\ Olds(Range(log), g) = {} /\ News(Range(log), g) = {}
    BY <2>1 DEF Adds, Removes, Olds, News
  <2> QED
    BY <2>1, <2>2, <2>3 DEF Plain, PlainSets, Remaining, ReplacedOnce
<1> QED
  BY <1>1, <1>2 DEF LogInv, HealInv

LEMMA HealStep ==
  ASSUME MirrorInv, LogInv, HealInv, [Next]_vars
  PROVE  LogInv' /\ HealInv'
<1>0. log \in Seq(Events)
  BY DEF MirrorInv
<1>1. CASE MineGroup
  <2> DEFINE e == Created(Cardinality(ChainGroups))
  <2>1. Mine(e) /\ e.name = "GroupCreated" /\ e \in Events
    BY <1>0, <1>1, ChainGroupsAreGroups DEF MineGroup, Created, Events
  <2> HIDE DEF e
  <2> QED
    BY <2>1, HealMine
<1>2. CASE MineMember
  <2>1. PICK e \in MemberEvents : Mine(e)
    BY <1>2 DEF MineMember
  <2>2. e \in Events
    BY <1>0, MemberEventsAreEvents
  <2> QED
    BY <2>1, <2>2, MemberEventIs, HealMine
<1>3. CASE Start
  BY <1>3, HealStart, SameLog DEF Start
<1>4. CASE Crash
  BY <1>4, HealStop, SameLog DEF Crash
<1>5. ASSUME NEW n \in Names, Turn(n) \/ Subscribe(n) \/ Deliver(n) \/ CrashInHandler(n)
      PROVE  LogInv' /\ HealInv'
  <2>1. CASE Turn(n)
    BY <2>1, HealTurn, SameLog
  <2>2. CASE Subscribe(n)
    BY <2>2, HealSubscribe, SameLog
  <2>3. CASE Deliver(n)
    BY <2>3, HealDeliver, SameLog
  <2>4. CASE CrashInHandler(n)
    <3>1. Stop
      BY <2>4 DEF CrashInHandler, CrashHandling
    <3> QED
      BY <3>1, HealStop, SameLog
  <2> QED
    BY <1>5, <2>1, <2>2, <2>3, <2>4
<1>6. CASE UNCHANGED vars
  <2>1. /\ log' = log /\ calm' = calm /\ up' = up /\ turn' = turn /\ answer' = answer
        /\ subscription' = subscription /\ members' = members /\ membersFile' = membersFile
    BY <1>6 DEF vars, chain, process, files
  <2>2. up' /\ calm' /\ Heard' => \A g \in Groups : Ordinary(g)' => Stage(g)'
    BY <2>1, SameStage
  <2>3. HealInv'
    BY <2>1, <2>2 DEF HealInv
  <2> QED
    BY <2>1, <2>3, SameLog
<1> QED
  BY <1>1, <1>2, <1>3, <1>4, <1>5, <1>6 DEF Next

(* Whenever a run has replayed all four types, every query answered and    *)
(* nothing mined since it started, members.json lists, for every group     *)
(* whose history is ordinary, exactly the members the contract has,        *)
(* whatever was lost, torn or handled out of order before.                 *)
THEOREM RestartsHeal == Spec => []RestartHeals
<1>1. ASSUME MirrorInv, LogInv, HealInv PROVE RestartHeals
  <2> SUFFICES ASSUME up, turn = Done, calm, \A n \in Names : subscription[n].state # Off,
                      NEW g \in Groups, Ordinary(g)
               PROVE  ToSet(membersFile[g]) = ChainMembers(g)
    BY DEF RestartHeals
  <2>1. Heard
    BY FourNames DEF Heard
  <2>2. Stage(g) /\ members = membersFile
    BY <1>1, <2>1 DEF HealInv
  <2>3. ToSet(members[g]) = Remaining(Range(log), g)
    BY <2>2, FourNames DEF Stage
  <2>4. ChainMembers(g) = Remaining(Range(log), g)
    BY <1>1 DEF LogInv, Plain
  <2> QED
    BY <2>2, <2>3, <2>4
<1>2. MirrorInv /\ LogInv /\ HealInv /\ [Next]_vars => LogInv' /\ HealInv'
  BY HealStep
<1> QED
  BY MirrorInvHolds, HealInit, <1>1, <1>2, PTL DEF Spec

=============================================================================
