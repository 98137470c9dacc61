------------------------------ MODULE MerkleTree ------------------------------
(***************************************************************************)
(* The Merkle tree, in the three forms in which the system computes it:    *)
(*                                                                         *)
(*   on chain   contracts/mixer_pool/src/merkle.rs: a map of nodes, in     *)
(*              which an insertion recomputes the path above the new leaf; *)
(*   mirrors    indexer/src/merkle.rs and client/src/crypto/merkle.ts:     *)
(*              all layers, rebuilt from the leaves at each insertion;     *)
(*   circuit    circuits/merkle.circom: the fold of a leaf with a path.    *)
(*                                                                         *)
(* The hash is free: Poseidon(l, r) is the pair <<l, r>>, equal to another *)
(* only if both arguments are.  Leaves are words, which every              *)
(* implementation reduces to field elements before it hashes them.         *)
(*                                                                         *)
(* The variants that nothing uses are faults the properties would show.    *)
(***************************************************************************)
EXTENDS PowersOfTwo, Sequences

CONSTANTS Commitment,  \* 32-byte words submitted as commitments
          Fr,          \* the scalar field
          BytesToFr,   \* word -> field element
          ZeroLeaf     \* Poseidon(0)

\* A word that is the canonical form of a field element is read as that element.
ASSUME TreeAssumption ==
  /\ \A x \in Commitment : BytesToFr[x] \in Fr
  /\ \A x \in Commitment \cap Fr : BytesToFr[x] = x
  /\ ZeroLeaf \in Fr

\* What a node of a level is as an input of the hash; hashes are canonical already.
ToFr(level, x) == IF level = 0 /\ x \in Commitment THEN BytesToFr[x] ELSE x

\* The node above two nodes of a level.
HashPair(level, l, r) == <<ToFr(level, l), ToFr(level, r)>>

ZeroHash[level \in Nat] ==
  IF level = 0 THEN ZeroLeaf
  ELSE HashPair(level - 1, ZeroHash[level - 1], ZeroHash[level - 1])

\* The index, at a level, of the node above leaf i.
Above(i, level) == i \div Pow2[level]
-----------------------------------------------------------------------------
(***************************************************************************)
(* On chain.                                                               *)
(***************************************************************************)
NodeAt(nodes, level, i) ==
  IF <<level, i>> \in DOMAIN nodes THEN nodes[<<level, i>>] ELSE ZeroHash[level]

PathAlwaysLeft(nodes, leaf, index, depth) ==
  LET current[level \in 0 .. depth] ==
        IF level = 0 THEN leaf
        ELSE HashPair(level - 1, current[level - 1],
                      NodeAt(nodes, level - 1, Above(index, level - 1) + 1))
  IN  current

\* The hashes insert_leaf computes on its way up, one for each level.
PathHashes(nodes, leaf, index, depth) ==
  LET current[level \in 0 .. depth] ==
        IF level = 0 THEN leaf
        ELSE LET i == Above(index, level - 1)
                 child == current[level - 1]
             IN  IF i % 2 = 0
                 THEN HashPair(level - 1, child, NodeAt(nodes, level - 1, i + 1))
                 ELSE HashPair(level - 1, NodeAt(nodes, level - 1, i - 1), child)
  IN  current

InsertUnhalved(nodes, leaf, index, depth) ==
  LET path == PathHashes(nodes, leaf, index, depth)
      written == {<<level, index>> : level \in 0 .. depth}
  IN  [p \in DOMAIN nodes \cup written |->
         IF p \in written THEN path[p[1]] ELSE nodes[p]]

InsertLeaf(nodes, leaf, index, depth) ==
  LET path == PathHashes(nodes, leaf, index, depth)
      written == {<<level, Above(index, level)>> : level \in 0 .. depth}
  IN  [p \in DOMAIN nodes \cup written |->
         IF p \in written THEN path[p[1]] ELSE nodes[p]]

GetCurrentRoot(nodes, depth) == NodeAt(nodes, depth, 0)
-----------------------------------------------------------------------------
(***************************************************************************)
(* The mirrors.  layers[0] is the sequence of leaves; a missing node is    *)
(* the zero hash of its level.                                             *)
(***************************************************************************)
LayerNode(layers, level, i) ==
  IF i < Len(layers[level]) THEN layers[level][i + 1] ELSE ZeroHash[level]

RebuildPairsOnly(leaves, depth) ==
  LET layers[level \in 0 .. depth] ==
        IF level = 0 THEN leaves
        ELSE [k \in 1 .. Len(layers[level - 1]) \div 2 |->
                HashPair(level - 1, LayerNode(layers, level - 1, 2 * (k - 1)),
                         LayerNode(layers, level - 1, 2 * (k - 1) + 1))]
  IN  layers

Rebuild(leaves, depth) ==
  LET layers[level \in 0 .. depth] ==
        IF level = 0 THEN leaves
        ELSE [k \in 1 .. (Len(layers[level - 1]) + 1) \div 2 |->
                HashPair(level - 1, LayerNode(layers, level - 1, 2 * (k - 1)),
                         LayerNode(layers, level - 1, 2 * (k - 1) + 1))]
  IN  layers

MirrorRoot(layers, depth) == LayerNode(layers, depth, 0)

PathBitsLate(layers, index, depth) ==
  [level \in 0 .. depth - 1 |->
     LET i == Above(index, level)
     IN  [element |-> LayerNode(layers, level, IF i % 2 = 0 THEN i + 1 ELSE i - 1),
          bit |-> Above(index, level + 1) % 2]]

\* The sibling of each node on the way up, and on which side the path is.
MerklePath(layers, index, depth) ==
  [level \in 0 .. depth - 1 |->
     LET i == Above(index, level)
     IN  [element |-> LayerNode(layers, level, IF i % 2 = 0 THEN i + 1 ELSE i - 1),
          bit |-> i % 2]]
-----------------------------------------------------------------------------
(***************************************************************************)
(* The circuit.                                                            *)
(***************************************************************************)
FoldUnordered(leaf, path, depth) ==
  LET hashes[level \in 0 .. depth] ==
        IF level = 0 THEN leaf
        ELSE HashPair(level - 1, hashes[level - 1], path[level - 1].element)
  IN  hashes[depth]

FoldPath(leaf, path, depth) ==
  LET hashes[level \in 0 .. depth] ==
        IF level = 0 THEN leaf
        ELSE LET p == path[level - 1]
             IN  IF p.bit = 0
                 THEN HashPair(level - 1, hashes[level - 1], p.element)
                 ELSE HashPair(level - 1, p.element, hashes[level - 1])
  IN  hashes[depth]

\* The leaf index a path leads from.
PathIndex(path, depth) ==
  LET sum[level \in 0 .. depth] ==
        IF level = 0 THEN 0 ELSE sum[level - 1] + path[level - 1].bit * Pow2[level - 1]
  IN  sum[depth]
-----------------------------------------------------------------------------
\* The nodes on the way down from a root to leaf i, read off the root itself.
Descend(root, i, depth) ==
  LET node[level \in 0 .. depth] ==
        IF level = depth THEN root ELSE node[level + 1][1 + (Above(i, level) % 2)]
  IN  node

\* The row of leaves, as field elements, that a root commits to.
RowOf(root, depth) == [i \in 0 .. Pow2[depth] - 1 |-> Descend(root, i, depth)[0]]
=============================================================================
