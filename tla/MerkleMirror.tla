----------------------------- MODULE MerkleMirror -----------------------------
(***************************************************************************)
(* One tree kept twice: the contract's node map, changed one path at a     *)
(* time, and a mirror's layers (the indexer's or the client's), rebuilt    *)
(* from the leaves.  A deposit reaches both.  A client may hold on to a    *)
(* path it was given and to the root that path was given for.              *)
(***************************************************************************)
EXTENDS MerkleTree, FiniteSets

CONSTANTS MaxDepth,     \* bound on the depth of the trees explored
          MaxPathDepth  \* bound on the depth for which every path is tried

ASSUME DepthAssumption == MaxDepth \in Nat /\ MaxPathDepth \in Nat

VARIABLES depth,          \* TreeDepth, the same on both sides
          merkleNode,     \* MerkleNode(level, index)
          nextLeafIndex,  \* NextLeafIndex
          layers,         \* the mirror's layers
          held            \* a path a client fetched, with its root and leaf

vars == <<depth, merkleNode, nextLeafIndex, layers, held>>

NoPath == [root |-> ZeroLeaf, index |-> 0, leaf |-> ZeroLeaf, path |-> <<>>]

Init ==
  /\ depth \in 1 .. MaxDepth
  /\ merkleNode = [p \in {} |-> ZeroLeaf]
  /\ nextLeafIndex = 0
  /\ layers = Rebuild(<<>>, depth)
  /\ held = NoPath

Insert(commitment) ==
  /\ nextLeafIndex < Pow2[depth]
  /\ merkleNode' = InsertLeaf(merkleNode, commitment, nextLeafIndex, depth)
  /\ nextLeafIndex' = nextLeafIndex + 1
  /\ layers' = Rebuild(Append(layers[0], commitment), depth)
  /\ UNCHANGED <<depth, held>>

\* getProof / MerkleTree::proof answers with the root of the moment.
Fetch(index) ==
  /\ index < Len(layers[0])
  /\ held' = [root |-> MirrorRoot(layers, depth), index |-> index,
              leaf |-> layers[0][index + 1], path |-> MerklePath(layers, index, depth)]
  /\ UNCHANGED <<depth, merkleNode, nextLeafIndex, layers>>

Next ==
  \/ \E commitment \in Commitment : Insert(commitment)
  \/ \E index \in 0 .. Pow2[depth] - 1 : Fetch(index)

Spec == Init /\ [][Next]_vars
-----------------------------------------------------------------------------
(***************************************************************************)
(* Properties.                                                             *)
(***************************************************************************)

\* The type invariant, the shape of the layers with it: each has half as many
\* nodes as the one below, rounded up.
TypeOK ==
  /\ depth \in 1 .. MaxDepth
  /\ nextLeafIndex \in 0 .. Pow2[depth]
  /\ DOMAIN merkleNode =
       {<<level, Above(i, level)>> : level \in 0 .. depth, i \in 0 .. nextLeafIndex - 1}
  /\ DOMAIN layers = 0 .. depth
  /\ \A level \in 0 .. depth :
       Len(layers[level]) = (nextLeafIndex + Pow2[level] - 1) \div Pow2[level]

\* indexer/src/merkle.rs:3 "Mirrors the on-chain tree exactly": every node, on
\* every level, is the same in both after any sequence of insertions.
MirrorsChain ==
  \A level \in 0 .. depth : \A i \in 0 .. Pow2[depth - level] - 1 :
    NodeAt(merkleNode, level, i) = LayerNode(layers, level, i)

\* The incremental root commits to the leaves inserted, each in its place, and
\* to zero leaves after them: what MixerPool takes a root to be.
RootCommitsToLeaves ==
  RowOf(GetCurrentRoot(merkleNode, depth), depth) =
    [i \in 0 .. Pow2[depth] - 1 |->
       IF i < nextLeafIndex THEN BytesToFr[merkleNode[<<0, i>>]] ELSE ZeroLeaf]

\* A path the mirror gives out, whatever the number of leaves and their parities,
\* leads by the circuit's fold from the leaf's own place to the root given with it.
PathsVerify ==
  held # NoPath =>
    /\ FoldPath(held.leaf, held.path, depth) = held.root
    /\ PathIndex(held.path, depth) = held.index

\* The circuit admits no other leaf: if a path, of the nodes of the tree in any
\* order, leads from a commitment to the current root, the commitment is a leaf,
\* and at the index the path says.
NoForeignLeaf ==
  LET elements == {ToFr(level, LayerNode(layers, level, i)) :
                     level \in 0 .. depth, i \in 0 .. Pow2[depth] - 1}
  IN  depth <= MaxPathDepth =>
        \A path \in [0 .. depth - 1 -> [element : elements, bit : {0, 1}]],
           c \in Commitment :
          FoldPath(c, path, depth) = GetCurrentRoot(merkleNode, depth)
            => ToFr(0, NodeAt(merkleNode, 0, PathIndex(path, depth))) = BytesToFr[c]
=============================================================================
