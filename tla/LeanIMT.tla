------------------------------ MODULE LeanIMT ------------------------------
(***************************************************************************)
(* The lean incremental Merkle tree that SemaphoreGroups.sol keeps per     *)
(* subgroup.  The library (@zk-kit/lean-imt.sol) is not part of this       *)
(* repository: the operators below say what the contract relies on when it *)
(* calls _insert, _update, _remove, _indexOf and _root.                    *)
(*                                                                         *)
(* A tree is the list of its leaves: the library's side nodes and the      *)
(* paths that callers pass follow from it.  The map from a leaf to its     *)
(* place is kept, because the library answers _has and _indexOf from it    *)
(* and not from the list.                                                  *)
(***************************************************************************)
EXTENDS Naturals, Sequences

CONSTANTS
  Keys,    (* public keys of identities: somebody knows the secret         *)
  Others   (* the other field elements that an admin enrols                *)

(***************************************************************************)
(* Field elements.  Poseidon is taken to be injective, so what it makes of *)
(* its inputs is as good as the list of them.  Leaves and inner nodes are  *)
(* of one kind: an admin may enrol what is the hash of two nodes, or a     *)
(* number that is no identity's commitment.  (A commitment is the hash of  *)
(* the two coordinates of a key; a key's coordinates are not enrolled      *)
(* here: nobody's commitment equals one.)                                  *)
(***************************************************************************)
Zero == << >>
IdentityCommitment(key) == <<key>>
Hash(left, right) == <<left, right>>

ASSUME ZeroIsNoOther == Zero \notin Others

Identities  == {IdentityCommitment(key) : key \in Keys}
Commitments == Identities \cup Others
Leaves      == Commitments \cup {Zero}

(* nodes: the leaves in order of insertion.  leaves: a leaf's place plus   *)
(* one, 0 when the tree does not hold it (LeanIMTData.leaves).             *)
Tree == [nodes : Seq(Leaves), leaves : [Commitments -> Nat]]

EmptyTree == [nodes |-> << >>, leaves |-> [c \in Commitments |-> 0]]

Size(tree) == Len(tree.nodes)

(* The library never records 0 in the map, so 0 is never "in" the tree.    *)
Has(tree, leaf) == leaf \in Commitments /\ tree.leaves[leaf] # 0

IndexOf(tree, leaf) == tree.leaves[leaf] - 1

(* The nodes of the next level: two neighbours are hashed, a last one that *)
(* has no neighbour moves up as it is.                                     *)
Above(level) ==
  [i \in 1 .. (Len(level) + 1) \div 2 |->
     IF 2 * i <= Len(level) THEN Hash(level[2 * i - 1], level[2 * i]) ELSE level[2 * i - 1]]

(* The levels from the leaves up.  The last of these has one node, however *)
(* many leaves there are, and so have those above it.                      *)
Levels(nodes) ==
  LET level[k \in 0 .. Len(nodes)] == IF k = 0 THEN nodes ELSE Above(level[k - 1])
  IN  level

(* So a lone leaf is its own root.  The root of the empty tree is 0.       *)
RootOf(nodes) == IF nodes = << >> THEN Zero ELSE Levels(nodes)[Len(nodes)][1]

Root(tree) == RootOf(tree.nodes)

(* _insert reverts for 0 and for a leaf the tree already holds.            *)
Insertable(tree, leaf) == leaf # Zero /\ ~ Has(tree, leaf)

Insert(tree, leaf) ==
  [ nodes  |-> Append(tree.nodes, leaf),
    leaves |-> [tree.leaves EXCEPT ![leaf] = Len(tree.nodes) + 1] ]

(* _update reverts unless the tree holds the old leaf and not the new one. *)
Updatable(tree, old, new) == Has(tree, old) /\ ~ Has(tree, new)

(* The map is overwritten for the new leaf first (unless it is 0), then    *)
(* cleared for the old one.  _remove is _update with 0 as the new leaf.    *)
Update(tree, old, new) ==
  LET moved == IF new = Zero THEN tree.leaves
               ELSE [tree.leaves EXCEPT ![new] = tree.leaves[old]]
  IN  [ nodes  |-> [tree.nodes EXCEPT ![tree.leaves[old]] = new],
        leaves |-> [moved EXCEPT ![old] = 0] ]

Remove(tree, leaf) == Update(tree, leaf, Zero)

(* The library's own consistency: the map and the list agree.              *)
Consistent(tree) ==
  /\ tree \in Tree
  /\ \A c \in Commitments :
       /\ tree.leaves[c] \in 0 .. Len(tree.nodes)
       /\ \A i \in 1 .. Len(tree.nodes) :
            tree.nodes[i] = c <=> tree.leaves[c] = i
=============================================================================
