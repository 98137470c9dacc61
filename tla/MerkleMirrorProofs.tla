-------------------------- MODULE MerkleMirrorProofs --------------------------
(***************************************************************************)
(* The contract's tree and its mirrors are one tree, for every depth and   *)
(* every sequence of insertions.  The argument is that both hang together  *)
(* over the same leaves, and that such a tree is determined by its leaves. *)
(***************************************************************************)
EXTENDS MerkleMirror, MerkleTreeProofs

\* The inductive invariant: the layers are those of the leaves, the node map hangs
\* together over the same leaves, and what was fetched verifies.
LeavesInv ==
  /\ depth \in 1 .. MaxDepth
  /\ layers[0] \in Seq(Commitment)
  /\ nextLeafIndex = Len(layers[0])
  /\ nextLeafIndex \in 0 .. Pow2[depth]

LayersInv == Layered(layers, layers[0], depth)

NodesOver(n, d) == {<<level, Above(i, level)>> : level \in 0 .. d, i \in 0 .. n - 1}

NodesInv ==
  /\ HangsTogether(ChainTree(merkleNode, depth), depth)
  /\ \A i \in Nat : NodeAt(merkleNode, 0, i) = LayerNode(layers, 0, i)
  /\ DOMAIN merkleNode = NodesOver(nextLeafIndex, depth)

IInv == LeavesInv /\ LayersInv /\ NodesInv /\ PathsVerify
-----------------------------------------------------------------------------
\* A rebuilt mirror has the layers of its leaves.
LEMMA RebuildLayered ==
  ASSUME NEW d \in Nat, NEW leaves
  PROVE  /\ Rebuild(leaves, d)[0] = leaves
         /\ Layered(Rebuild(leaves, d), Rebuild(leaves, d)[0], d)
<1>1. PICK table : /\ table = [level \in 0 .. d |-> LayerRound(table, leaves, level)]
                   /\ Rebuild(leaves, d) = table
  BY LayerTable
<1>2. table[0] = leaves
  <2>1. 0 \in 0 .. d
    OBVIOUS
  <2> QED
    BY <1>1, <2>1, Zenon DEF LayerRound
<1>3. Layered(table, leaves, d)
  BY <1>1, Zenon DEF Layered
<1> QED
  BY <1>1, <1>2, <1>3, Zenon

\* The leaves of a mirror before and after an insertion.
LEMMA AppendedLeaves ==
  ASSUME NEW d \in Nat, NEW ls \in Seq(Commitment), NEW c \in Commitment, NEW old, NEW new,
         Layered(old, ls, d), Layered(new, Append(ls, c), d), NEW i \in Nat
  PROVE  LayerNode(new, 0, i) = IF i = Len(ls) THEN c ELSE LayerNode(old, 0, i)
<1>1. Len(ls) \in Nat /\ Len(Append(ls, c)) \in Nat
  OBVIOUS
<1>2. LayerNode(old, 0, i) = IF i < Len(ls) THEN ls[i + 1] ELSE ZeroLeaf
  BY <1>1, RebuildHangs, Zenon
<1>3. LayerNode(new, 0, i) = IF i < Len(Append(ls, c)) THEN Append(ls, c)[i + 1] ELSE ZeroLeaf
  BY <1>1, RebuildHangs, Zenon
<1>4. Len(Append(ls, c)) = Len(ls) + 1
  OBVIOUS
<1>5. CASE i < Len(ls)
  <2>1. Append(ls, c)[i + 1] = ls[i + 1]
    BY <1>5
  <2> QED
    BY <1>1, <1>2, <1>3, <1>4, <1>5, <2>1
<1>6. CASE i = Len(ls)
  <2>1. Append(ls, c)[Len(ls) + 1] = c
    OBVIOUS
  <2> QED
    BY <1>1, <1>3, <1>4, <1>6, <2>1
<1>7. CASE i > Len(ls)
  BY <1>1, <1>2, <1>3, <1>4, <1>7
<1> QED
  BY <1>1, <1>5, <1>6, <1>7

LEMMA Initially == Init => IInv
<1> SUFFICES ASSUME Init PROVE IInv
  OBVIOUS
<1>1. PICK d \in Nat : d = depth /\ d \in 1 .. MaxDepth
  BY DepthAssumption DEF Init
<1>2. PICK table : table = layers /\ table[0] = << >> /\ Layered(table, table[0], d)
  <2>1. layers = Rebuild(<< >>, d)
    BY <1>1 DEF Init
  <2> QED
    BY <2>1, RebuildLayered, Zenon
<1>3. PICK nodes : nodes = merkleNode /\ DOMAIN nodes = {}
  BY DEF Init
<1>4. LeavesInv
  <2>1. << >> \in Seq(Commitment) /\ Len(<< >>) = 0
    OBVIOUS
  <2>2. 0 \in 0 .. Pow2[d]
    BY Pow2Step
  <2> QED
    BY <1>1, <1>2, <2>1, <2>2 DEF Init, LeavesInv
<1>5. LayersInv
  BY <1>1, <1>2, Zenon DEF LayersInv
<1>6. NodesInv
  <2>1. HangsTogether(ChainTree(nodes, d), d)
    BY <1>3, EmptyTree
  <2>2. ASSUME NEW i \in Nat
        PROVE  NodeAt(nodes, 0, i) = LayerNode(table, 0, i)
    <3>1. NodeAt(nodes, 0, i) = ZeroHash[0]
      BY <1>3, EmptyTree, Zenon
    <3>2. Len(table[0]) = 0 /\ ~(i < 0)
      BY <1>2
    <3> QED
      BY <3>1, <3>2, Zenon DEF LayerNode
  <2>3. DOMAIN nodes = NodesOver(nextLeafIndex, d)
    <3>1. 0 .. nextLeafIndex - 1 = {}
      BY DEF Init
    <3> QED
      BY <1>3, <3>1 DEF NodesOver
  <2> QED
    BY <1>1, <1>2, <1>3, <2>1, <2>2, <2>3, Zenon DEF NodesInv
<1>7. PathsVerify
  BY Zenon DEF Init, PathsVerify
<1> QED
  BY <1>4, <1>5, <1>6, <1>7 DEF IInv

LEMMA InsertStep ==
  ASSUME IInv, NEW c \in Commitment, Insert(c)
  PROVE  IInv'
<1>1. PICK d \in Nat : d = depth /\ d \in 1 .. MaxDepth /\ depth' = d
  BY DepthAssumption DEF IInv, LeavesInv, Insert
<1>2. PICK n \in Nat, ls \in Seq(Commitment) :
        /\ n = nextLeafIndex /\ ls = layers[0] /\ n = Len(ls) /\ n < Pow2[d]
        /\ nextLeafIndex' = n + 1
  BY <1>1 DEF IInv, LeavesInv, Insert
<1>3. PICK old, new : /\ old = layers /\ Layered(old, ls, d)
                      /\ new = layers' /\ new[0] = Append(ls, c) /\ Layered(new, new[0], d)
  <2>1. Layered(layers, ls, d)
    BY <1>1, <1>2, Zenon DEF IInv, LayersInv
  <2>2. layers' = Rebuild(Append(ls, c), d)
    BY <1>1, <1>2, Zenon DEF Insert
  <2>3. /\ Rebuild(Append(ls, c), d)[0] = Append(ls, c)
        /\ Layered(Rebuild(Append(ls, c), d), Rebuild(Append(ls, c), d)[0], d)
    BY RebuildLayered
  <2> QED
    BY <2>1, <2>2, <2>3, Zenon
<1>4. PICK nodes, after : nodes = merkleNode /\ after = merkleNode' /\ after = InsertLeaf(nodes, c, n, d)
  BY <1>1, <1>2, Zenon DEF Insert
<1>5. LeavesInv'
  <2>1. Append(ls, c) \in Seq(Commitment) /\ Len(Append(ls, c)) = n + 1
    BY <1>2
  <2>2. n + 1 \in 0 .. Pow2[d]
    <3>1. PICK m \in Nat : m = Pow2[d]
      BY Pow2Step
    <3> QED
      BY <1>2, <3>1
  <2> QED
    BY <1>1, <1>2, <1>3, <2>1, <2>2, Zenon DEF LeavesInv
<1>6. LayersInv'
  BY <1>1, <1>3, Zenon DEF LayersInv
<1>7. NodesInv'
  <2>1. HangsTogether(ChainTree(nodes, d), d)
    BY <1>1, <1>4, Zenon DEF IInv, NodesInv
  <2>2. /\ HangsTogether(ChainTree(after, d), d)
        /\ \A i \in Nat : NodeAt(after, 0, i) = IF i = n THEN c ELSE NodeAt(nodes, 0, i)
    <3>1. LET tree == InsertLeaf(nodes, c, n, d)
          IN  /\ HangsTogether(ChainTree(tree, d), d)
              /\ \A i \in Nat : NodeAt(tree, 0, i) = IF i = n THEN c ELSE NodeAt(nodes, 0, i)
      BY <2>1, InsertKeeps
    <3> QED
      BY <1>4, <3>1, Zenon
  <2>3. ASSUME NEW i \in Nat
        PROVE  NodeAt(after, 0, i) = LayerNode(new, 0, i)
    <3>1. NodeAt(nodes, 0, i) = LayerNode(old, 0, i)
      BY <1>3, <1>4, Zenon DEF IInv, NodesInv
    <3>2. LayerNode(new, 0, i) = IF i = n THEN c ELSE LayerNode(old, 0, i)
      <4>1. Layered(old, ls, d) /\ Layered(new, Append(ls, c), d)
        BY <1>3, Zenon
      <4>2. LayerNode(new, 0, i) = IF i = Len(ls) THEN c ELSE LayerNode(old, 0, i)
        BY <4>1, AppendedLeaves
      <4> QED
        BY <1>2, <4>2, Zenon
    <3> QED
      BY <2>2, <3>1, <3>2, Zenon
  <2>4. DOMAIN after = NodesOver(n + 1, d)
    <3>1. DOMAIN nodes = NodesOver(n, d)
      BY <1>1, <1>2, <1>4, Zenon DEF IInv, NodesInv
    <3>2. DOMAIN after = DOMAIN nodes \cup {<<level, Above(n, level)>> : level \in 0 .. d}
      <4>1. PICK path : Writes(path, after, nodes, c, n, d)
        BY <1>4, InsertedNodes, Zenon
      <4> QED
        BY <4>1, Zenon DEF Writes
    <3>3. 0 .. (n + 1) - 1 = 0 .. n - 1 \cup {n}
      OBVIOUS
    <3> QED
      BY <3>1, <3>2, <3>3 DEF NodesOver
  <2> QED
    BY <1>1, <1>2, <1>3, <1>4, <2>2, <2>3, <2>4, Zenon DEF NodesInv
<1>8. PathsVerify'
  <2>1. held' = held /\ depth' = depth
    BY DEF Insert
  <2> QED
    BY <2>1, Zenon DEF IInv, PathsVerify
<1> QED
  BY <1>5, <1>6, <1>7, <1>8 DEF IInv

\* The path of a leaf, as the mirror gives it out.
LEMMA FetchedPath ==
  ASSUME NEW d \in Nat, NEW ls \in Seq(Commitment), NEW table, Layered(table, ls, d),
         NEW index \in 0 .. Pow2[d] - 1, index < Len(ls)
  PROVE  /\ FoldPath(ls[index + 1], MerklePath(table, index, d), d) = MirrorRoot(table, d)
         /\ PathIndex(MerklePath(table, index, d), d) = index
<1>1. index \in Nat /\ Above(index, d) = 0 /\ Len(ls) \in Nat
  <2>1. Above(index, d) = 0
    BY AboveRoot
  <2> QED
    BY <2>1, Pow2Step
<1>2. PICK t : t = LayerTree(table, d)
  OBVIOUS
<1>3. HangsTogether(t, d) /\ LayerNode(table, 0, index) = ls[index + 1]
  BY <1>1, <1>2, RebuildHangs, Zenon
<1>4. PICK path : path = MerklePath(table, index, d)
  OBVIOUS
<1>5. ASSUME NEW level \in 0 .. d - 1
      PROVE  /\ path[level].bit = Above(index, level) % 2
             /\ path[level].element =
                  t[level][IF Above(index, level) % 2 = 0 THEN Above(index, level) + 1
                           ELSE Above(index, level) - 1]
  <2>1. level \in Nat /\ level \in 0 .. d
    OBVIOUS
  <2>2. PICK a \in Nat : a = Above(index, level)
    BY <1>1, <2>1, AboveHalves, Zenon
  <2>3. PICK k \in Nat : k = IF a % 2 = 0 THEN a + 1 ELSE a - 1
    <3>1. (IF a % 2 = 0 THEN a + 1 ELSE a - 1) \in Nat
      OBVIOUS
    <3> QED
      BY <3>1, Zenon
  <2>4. path[level] = [element |-> LayerNode(table, level, k), bit |-> a % 2]
    BY <1>4, <2>2, <2>3 DEF MerklePath
  <2>5. t[level][k] = LayerNode(table, level, k)
    BY <1>2, <2>1, Zenon DEF LayerTree
  <2> QED
    BY <2>2, <2>3, <2>4, <2>5
<1>6. Siblings(path, t, index, d)
  BY <1>5, Zenon DEF Siblings
<1>7. FoldPath(t[0][index], path, d) = t[d][0]
  BY <1>1, <1>3, <1>6, FoldTree, Zenon
<1>8. PathIndex(path, d) = index
  BY <1>1, <1>5, PathIndexOf
<1>9. t[0][index] = LayerNode(table, 0, index) /\ t[d][0] = MirrorRoot(table, d)
  <2>1. 0 \in 0 .. d /\ d \in 0 .. d /\ 0 \in Nat
    OBVIOUS
  <2> QED
    BY <1>1, <1>2, <2>1, Zenon DEF LayerTree, MirrorRoot
<1> QED
  BY <1>3, <1>4, <1>7, <1>8, <1>9, Zenon

LEMMA FetchStep ==
  ASSUME IInv, NEW index \in 0 .. Pow2[depth] - 1, Fetch(index)
  PROVE  IInv'
<1>1. PICK d, ls, table :
        /\ d \in Nat /\ ls \in Seq(Commitment)
        /\ d = depth /\ ls = layers[0] /\ table = layers /\ Layered(table, ls, d)
  BY DepthAssumption DEF IInv, LeavesInv, LayersInv
<1>2. /\ held' = [root |-> MirrorRoot(table, d), index |-> index, leaf |-> ls[index + 1],
                  path |-> MerklePath(table, index, d)]
      /\ index < Len(ls)
      /\ UNCHANGED <<depth, merkleNode, nextLeafIndex, layers>>
  BY <1>1 DEF Fetch
<1>3. /\ FoldPath(ls[index + 1], MerklePath(table, index, d), d) = MirrorRoot(table, d)
      /\ PathIndex(MerklePath(table, index, d), d) = index
  BY <1>1, <1>2, FetchedPath
<1>4. PathsVerify'
  <2>1. /\ held'.root = MirrorRoot(table, d) /\ held'.index = index /\ held'.leaf = ls[index + 1]
        /\ held'.path = MerklePath(table, index, d) /\ depth' = d
    BY <1>1, <1>2
  <2> QED
    BY <1>3, <2>1, Zenon DEF PathsVerify
<1>5. LeavesInv' /\ LayersInv' /\ NodesInv'
  BY <1>2 DEF IInv, LeavesInv, LayersInv, NodesInv
<1> QED
  BY <1>4, <1>5 DEF IInv

LEMMA Inductive == IInv /\ [Next]_vars => IInv'
<1> SUFFICES ASSUME IInv, [Next]_vars PROVE IInv'
  OBVIOUS
<1>1. ASSUME NEW c \in Commitment, Insert(c) PROVE IInv'
  BY <1>1, InsertStep
<1>2. ASSUME NEW index \in 0 .. Pow2[depth] - 1, Fetch(index) PROVE IInv'
  BY <1>2, FetchStep
<1>3. CASE UNCHANGED vars
  BY <1>3 DEF vars, IInv, LeavesInv, LayersInv, NodesInv, PathsVerify
<1> QED
  BY <1>1, <1>2, <1>3 DEF Next

\* The invariant holds in every state.
THEOREM Invariance == Spec => []IInv
<1>1. Init => IInv
  BY Initially
<1>2. IInv /\ [Next]_vars => IInv'
  BY Inductive
<1> QED
  BY <1>1, <1>2, PTL DEF Spec

-----------------------------------------------------------------------------
(***************************************************************************)
(* What follows from the invariant.                                        *)
(***************************************************************************)

\* The node map and the layers of a state, over the same n leaves.
TwoTrees(d, n, ls, nodes, table) ==
  /\ d \in Nat /\ d # 0
  /\ n \in Nat /\ ls \in Seq(Commitment) /\ n = Len(ls)
  /\ Layered(table, ls, d)
  /\ HangsTogether(ChainTree(nodes, d), d)
  /\ \A i \in Nat : NodeAt(nodes, 0, i) = LayerNode(table, 0, i)

LEMMA Parts ==
  ASSUME IInv
  PROVE  \E d, n, ls, nodes, table :
           /\ d = depth /\ n = nextLeafIndex /\ ls = layers[0]
           /\ nodes = merkleNode /\ table = layers
           /\ TwoTrees(d, n, ls, nodes, table)
<1>1. PICK d, n, ls, nodes, table : /\ d = depth /\ n = nextLeafIndex /\ ls = layers[0]
                                    /\ nodes = merkleNode /\ table = layers
  OBVIOUS
<1>2. d \in Nat /\ d # 0
  BY <1>1, DepthAssumption DEF IInv, LeavesInv
<1>3. n \in Nat /\ ls \in Seq(Commitment) /\ n = Len(ls)
  BY <1>1 DEF IInv, LeavesInv
<1>4. Layered(table, ls, d)
  BY <1>1, Zenon DEF IInv, LayersInv
<1>5. /\ HangsTogether(ChainTree(nodes, d), d)
      /\ \A i \in Nat : NodeAt(nodes, 0, i) = LayerNode(table, 0, i)
  BY <1>1, Zenon DEF IInv, NodesInv
<1>6. TwoTrees(d, n, ls, nodes, table)
  BY <1>2, <1>3, <1>4, <1>5, Zenon DEF TwoTrees
<1> QED
  BY <1>1, <1>6, Zenon

\* The leaves are the layer 0, and zero leaves beyond.
LEMMA LeafNodes ==
  ASSUME NEW d, NEW n, NEW ls, NEW nodes, NEW table, TwoTrees(d, n, ls, nodes, table), NEW i \in Nat
  PROVE  NodeAt(nodes, 0, i) = IF i < n THEN ls[i + 1] ELSE ZeroLeaf
<1>1. d \in Nat /\ Len(ls) \in Nat /\ Layered(table, ls, d)
  BY Zenon DEF TwoTrees
<1>2. LayerNode(table, 0, i) = IF i < Len(ls) THEN ls[i + 1] ELSE ZeroLeaf
  BY <1>1, RebuildHangs
<1> QED
  BY <1>2, Zenon DEF TwoTrees

\* Every node is the same in both.
LEMMA OneTree ==
  ASSUME NEW d, NEW n, NEW ls, NEW nodes, NEW table, TwoTrees(d, n, ls, nodes, table)
  PROVE  \A level \in 0 .. d, i \in Nat : NodeAt(nodes, level, i) = LayerNode(table, level, i)
<1>1. PICK t, u : t = ChainTree(nodes, d) /\ u = LayerTree(table, d)
  OBVIOUS
<1>2. ASSUME NEW level \in 0 .. d, NEW i \in Nat
      PROVE  t[level][i] = NodeAt(nodes, level, i) /\ u[level][i] = LayerNode(table, level, i)
  BY <1>1, Zenon DEF ChainTree, LayerTree
<1>3. d \in Nat /\ HangsTogether(t, d) /\ HangsTogether(u, d)
  <2>1. d \in Nat /\ Len(ls) \in Nat /\ Layered(table, ls, d)
    BY Zenon DEF TwoTrees
  <2>2. HangsTogether(LayerTree(table, d), d)
    BY <2>1, RebuildHangs
  <2> QED
    BY <1>1, <2>1, <2>2, Zenon DEF TwoTrees
<1>4. \A i \in Nat : ToFr(0, t[0][i]) = ToFr(0, u[0][i])
  <2>1. 0 \in 0 .. d
    BY <1>3
  <2> QED
    BY <1>2, <2>1, Zenon DEF TwoTrees
<1>5. \A level \in 1 .. d, i \in Nat : t[level][i] = u[level][i]
  BY <1>3, <1>4, SameTree
<1>6. ASSUME NEW level \in 0 .. d, NEW i \in Nat
      PROVE  NodeAt(nodes, level, i) = LayerNode(table, level, i)
  <2>1. level = 0 \/ level \in 1 .. d
    BY <1>3
  <2> QED
    BY <1>2, <1>5, <2>1, Zenon DEF TwoTrees
<1> QED
  BY <1>6, Zenon

\* The node map's own tree: its root, its leaves.
LEMMA ChainLeaves ==
  ASSUME NEW d \in Nat, NEW nodes
  PROVE  /\ \A i \in Nat : ChainTree(nodes, d)[0][i] = NodeAt(nodes, 0, i)
         /\ ChainTree(nodes, d)[d][0] = GetCurrentRoot(nodes, d)
<1>1. 0 \in 0 .. d /\ d \in 0 .. d /\ 0 \in Nat
  OBVIOUS
<1> QED
  BY <1>1, Zenon DEF ChainTree, GetCurrentRoot

\* The types, the domain of the node map and the lengths of the layers.
THEOREM TypeCorrect == Spec => []TypeOK
<1>1. ASSUME IInv
      PROVE  TypeOK
  <2>1. PICK d, n, ls, nodes, table : /\ d = depth /\ n = nextLeafIndex /\ ls = layers[0]
                                      /\ nodes = merkleNode /\ table = layers
                                      /\ TwoTrees(d, n, ls, nodes, table)
    BY <1>1, Parts
  <2>2. d \in Nat /\ Len(ls) \in Nat /\ Layered(table, ls, d) /\ n = Len(ls)
    BY <2>1, Zenon DEF TwoTrees
  <2>3. DOMAIN table = 0 .. d
    BY <2>2 DEF Layered
  <2>4. ASSUME NEW level \in 0 .. d
        PROVE  Len(table[level]) = (Len(ls) + Pow2[level] - 1) \div Pow2[level]
    <3>1. Lengths(table, ls, d)
      BY <2>2, LayerLengths
    <3> QED
      BY <3>1, Zenon DEF Lengths
  <2>5. DOMAIN merkleNode =
          {<<level, Above(i, level)>> : level \in 0 .. depth, i \in 0 .. nextLeafIndex - 1}
    <3>1. DOMAIN merkleNode = NodesOver(nextLeafIndex, depth)
      BY <1>1 DEF IInv, NodesInv
    <3> QED
      BY <3>1 DEF NodesOver
  <2>6. depth \in 1 .. MaxDepth /\ nextLeafIndex \in 0 .. Pow2[depth]
    BY <1>1 DEF IInv, LeavesInv
  <2>7. /\ DOMAIN layers = 0 .. depth
        /\ \A level \in 0 .. depth :
             Len(layers[level]) = (nextLeafIndex + Pow2[level] - 1) \div Pow2[level]
    BY <2>1, <2>2, <2>3, <2>4, Zenon
  <2> QED
    BY <2>5, <2>6, <2>7 DEF TypeOK
<1> QED
  BY <1>1, Invariance, PTL

\* "Mirrors the on-chain tree exactly": rebuilt layers and incremental nodes agree
\* on every level, for every depth and sequence of leaves.
THEOREM Mirrored == Spec => []MirrorsChain
<1>1. ASSUME IInv
      PROVE  MirrorsChain
  <2>1. PICK d, n, ls, nodes, table : /\ d = depth /\ n = nextLeafIndex /\ ls = layers[0]
                                      /\ nodes = merkleNode /\ table = layers
                                      /\ TwoTrees(d, n, ls, nodes, table)
    BY <1>1, Parts
  <2>2. \A level \in 0 .. d, i \in Nat : NodeAt(nodes, level, i) = LayerNode(table, level, i)
    BY <2>1, OneTree
  <2>3. ASSUME NEW level \in 0 .. depth, NEW i \in 0 .. Pow2[depth - level] - 1
        PROVE  NodeAt(merkleNode, level, i) = LayerNode(layers, level, i)
    <3>1. i \in Nat
      OBVIOUS
    <3> QED
      BY <2>1, <2>2, <3>1, Zenon
  <2> QED
    BY <2>3, Zenon DEF MirrorsChain
<1> QED
  BY <1>1, Invariance, PTL

\* The contract's root commits to the leaves inserted, in order, then zero leaves.
THEOREM RootsCommit == Spec => []RootCommitsToLeaves
<1>1. ASSUME IInv
      PROVE  RootCommitsToLeaves
  <2>1. PICK d, n, ls, nodes, table : /\ d = depth /\ n = nextLeafIndex /\ ls = layers[0]
                                      /\ nodes = merkleNode /\ table = layers
                                      /\ TwoTrees(d, n, ls, nodes, table)
    BY <1>1, Parts
  <2>2. /\ d \in Nat \ {0} /\ d \in Nat /\ n \in Nat /\ ls \in Seq(Commitment) /\ n = Len(ls)
        /\ HangsTogether(ChainTree(nodes, d), d)
    BY <2>1 DEF TwoTrees
  <2>3. DOMAIN nodes = NodesOver(n, d)
    BY <1>1, <2>1, Zenon DEF IInv, NodesInv
  <2>4. PICK root : root = GetCurrentRoot(nodes, d)
    OBVIOUS
  <2>5. ASSUME NEW i \in 0 .. Pow2[d] - 1
        PROVE  Descend(root, i, d)[0] = IF i < n THEN BytesToFr[nodes[<<0, i>>]] ELSE ZeroLeaf
    <3>1. i \in Nat /\ Above(i, d) = 0
      <4>1. i \in Nat
        BY <2>2, Pow2Step
      <4> QED
        BY <2>2, <4>1, AboveRoot
    <3>2. Descend(root, i, d)[0] = ToFr(0, NodeAt(nodes, 0, i))
      <4>1. PICK t : t = ChainTree(nodes, d)
        OBVIOUS
      <4>2. /\ HangsTogether(t, d)
            /\ t[0][i] = NodeAt(nodes, 0, i) /\ t[d][0] = root
        BY <2>2, <2>4, <3>1, <4>1, ChainLeaves, Zenon
      <4>3. Descend(t[d][0], i, d)[0] = ToFr(0, t[0][i])
        BY <2>2, <3>1, <4>2, DescendTree
      <4> QED
        BY <4>2, <4>3, Zenon
    <3>3. NodeAt(nodes, 0, i) = IF i < n THEN ls[i + 1] ELSE ZeroLeaf
      BY <2>1, <3>1, LeafNodes
    <3>4. CASE i < n
      <4>1. ls[i + 1] \in Commitment
        BY <2>2, <3>1, <3>4
      <4>2. nodes[<<0, i>>] = NodeAt(nodes, 0, i)
        <5>1. <<0, i>> \in NodesOver(n, d)
          <6>1. 0 \in 0 .. d /\ i \in 0 .. n - 1
            BY <2>2, <3>1, <3>4
          <6>2. Above(i, 0) = i
            BY <3>1, AboveHalves
          <6> QED
            BY <6>1, <6>2 DEF NodesOver
        <5> QED
          BY <2>3, <5>1, Zenon DEF NodeAt
      <4> QED
        BY <3>2, <3>3, <3>4, <4>1, <4>2, Zenon DEF ToFr
    <3>5. CASE ~(i < n)
      <4>1. ToFr(0, ZeroLeaf) = ZeroLeaf
        BY TreeAssumption DEF ToFr
      <4> QED
        BY <3>2, <3>3, <3>5, <4>1, Zenon
    <3> QED
      BY <3>4, <3>5
  <2>6. RowOf(root, d) =
          [i \in 0 .. Pow2[d] - 1 |-> IF i < n THEN BytesToFr[nodes[<<0, i>>]] ELSE ZeroLeaf]
    BY <2>5 DEF RowOf
  <2> QED
    BY <2>1, <2>4, <2>6 DEF RootCommitsToLeaves
<1> QED
  BY <1>1, Invariance, PTL

\* A path given out leads from the leaf's place to the root it was given with,
\* for good.
THEOREM PathsLead == Spec => []PathsVerify
<1>1. IInv => PathsVerify
  BY DEF IInv
<1> QED
  BY <1>1, Invariance, PTL

\* No choice of siblings and sides leads from a commitment that is not the leaf
\* at the index the sides say to the current root.
THEOREM LeavesBound == Spec => []NoForeignLeaf
<1>1. ASSUME IInv
      PROVE  NoForeignLeaf
  <2>1. PICK d, n, ls, nodes, table : /\ d = depth /\ n = nextLeafIndex /\ ls = layers[0]
                                      /\ nodes = merkleNode /\ table = layers
                                      /\ TwoTrees(d, n, ls, nodes, table)
    BY <1>1, Parts
  <2>2. d \in Nat \ {0} /\ d \in Nat /\ HangsTogether(ChainTree(nodes, d), d)
    BY <2>1 DEF TwoTrees
  <2>3. ASSUME NEW elements, NEW path \in [0 .. d - 1 -> [element : elements, bit : {0, 1}]],
               NEW c \in Commitment, FoldPath(c, path, d) = GetCurrentRoot(nodes, d)
        PROVE  ToFr(0, NodeAt(nodes, 0, PathIndex(path, d))) = BytesToFr[c]
    <3>1. \A level \in 0 .. d - 1 : path[level].bit \in {0, 1}
      OBVIOUS
    <3>2. PICK j \in Nat : j = PathIndex(path, d)
      <4>1. PathIndex(path, d) \in 0 .. Pow2[d] - 1
        BY <2>2, <3>1, PathBits
      <4>2. PathIndex(path, d) \in Nat
        BY <2>2, <4>1, Pow2Step
      <4> QED
        BY <4>2, Zenon
    <3>3. PICK t : t = ChainTree(nodes, d)
      OBVIOUS
    <3>4. HangsTogether(t, d) /\ t[0][j] = NodeAt(nodes, 0, j) /\ FoldPath(c, path, d) = t[d][0]
      BY <2>2, <2>3, <3>3, ChainLeaves, Zenon
    <3>5. ToFr(0, c) = ToFr(0, t[0][PathIndex(path, d)])
      BY <2>2, <3>1, <3>4, FoldAdmits
    <3>6. ToFr(0, c) = BytesToFr[c]
      BY DEF ToFr
    <3> QED
      BY <3>2, <3>4, <3>5, <3>6, Zenon
  <2> DEFINE elements == {ToFr(level, LayerNode(layers, level, i)) :
                            level \in 0 .. depth, i \in 0 .. Pow2[depth] - 1}
  <2> HIDE DEF elements
  <2>4. ASSUME NEW path \in [0 .. depth - 1 -> [element : elements, bit : {0, 1}]],
               NEW c \in Commitment,
               FoldPath(c, path, depth) = GetCurrentRoot(merkleNode, depth)
        PROVE  ToFr(0, NodeAt(merkleNode, 0, PathIndex(path, depth))) = BytesToFr[c]
    BY <2>1, <2>3, <2>4, Zenon
  <2> QED
    BY <2>4 DEF NoForeignLeaf, elements
<1> QED
  BY <1>1, Invariance, PTL
=============================================================================
