------------------------ MODULE MixerPoolStorageProofs ------------------------
(***************************************************************************)
(* Proofs about the contract with its tree as merkle.rs stores it, for     *)
(* every value of the constants: it implements MixerPool.                  *)
(***************************************************************************)
EXTENDS MixerPoolStorage, MerkleTreeProofs, FiniteSetTheorems

(***************************************************************************)
(* Roots and the rows of leaves they commit to.                            *)
(***************************************************************************)

\* The root of a mirror of these leaves.
TreeRoot(ls, depth) == MirrorRoot(Rebuild(ls, depth), depth)

\* Reducing a word to a field element leaves a field element.
LEMMA ToFrTwice == \A x : ToFr(0, ToFr(0, x)) = ToFr(0, x)
<1> SUFFICES ASSUME NEW x PROVE ToFr(0, ToFr(0, x)) = ToFr(0, x)
  OBVIOUS
<1>1. CASE x \in Commitment
  <2>1. ToFr(0, x) = BytesToFr[x]
    BY <1>1, Zenon DEF ToFr
  <2>2. BytesToFr[x] \in Fr /\ (BytesToFr[x] \in Commitment => BytesToFr[BytesToFr[x]] = BytesToFr[x])
    BY <1>1, TreeAssumption
  <2> QED
    BY <2>1, <2>2, Zenon DEF ToFr
<1>2. CASE x \notin Commitment
  BY <1>2, Zenon DEF ToFr
<1> QED
  BY <1>1, <1>2, Zenon

\* A field element is its own reduction.
LEMMA ToFrOfFr ==
  ASSUME NEW x \in Fr
  PROVE  ToFr(0, x) = x
BY TreeAssumption DEF ToFr

\* The tree over the reduced leaves.
Reduced(t, depth) == [level \in 0 .. depth |-> [i \in Nat |-> ToFr(level, t[level][i])]]

\* It has the same nodes above the leaves.
LEMMA ReducedHangs ==
  ASSUME NEW depth \in Nat \ {0}, NEW t, HangsTogether(t, depth)
  PROVE  /\ HangsTogether(Reduced(t, depth), depth)
         /\ Reduced(t, depth)[depth][0] = t[depth][0]
         /\ \A level \in 0 .. depth, i \in Nat : Reduced(t, depth)[level][i] = ToFr(level, t[level][i])
<1>1. \A level \in 0 .. depth, i \in Nat : Reduced(t, depth)[level][i] = ToFr(level, t[level][i])
  BY Zenon DEF Reduced
<1>2. Reduced(t, depth)[depth][0] = t[depth][0]
  <2>1. depth \in 0 .. depth /\ 0 \in Nat /\ depth # 0
    OBVIOUS
  <2> QED
    BY <1>1, <2>1, Zenon DEF ToFr
<1>3. ASSUME NEW level \in 0 .. depth - 1, NEW i \in Nat
      PROVE  Reduced(t, depth)[level + 1][i] =
               HashPair(level, Reduced(t, depth)[level][2 * i], Reduced(t, depth)[level][2 * i + 1])
  <2>1. /\ level \in 0 .. depth /\ level + 1 \in 0 .. depth /\ level + 1 # 0
        /\ 2 * i \in Nat /\ 2 * i + 1 \in Nat
    OBVIOUS
  <2>2. Reduced(t, depth)[level + 1][i] = HashPair(level, t[level][2 * i], t[level][2 * i + 1])
    <3>1. Reduced(t, depth)[level + 1][i] = t[level + 1][i]
      BY <1>1, <2>1, Zenon DEF ToFr
    <3> QED
      BY <3>1, Zenon DEF HangsTogether
  <2>3. \A x : ToFr(level, ToFr(level, x)) = ToFr(level, x)
    <3>1. CASE level = 0
      BY <3>1, ToFrTwice, Zenon
    <3>2. CASE level # 0
      BY <3>2, Zenon DEF ToFr
    <3> QED
      BY <3>1, <3>2, Zenon
  <2> QED
    BY <1>1, <2>1, <2>2, <2>3, Zenon DEF HashPair
<1> QED
  BY <1>1, <1>2, <1>3, Zenon DEF HangsTogether

\* The row a root commits to: its tree's leaves, as field elements.
LEMMA RowOfTree ==
  ASSUME NEW depth \in Nat \ {0}, NEW t, HangsTogether(t, depth)
  PROVE  RowOf(t[depth][0], depth) = [i \in 0 .. Pow2[depth] - 1 |-> ToFr(0, t[0][i])]
<1>1. ASSUME NEW i \in 0 .. Pow2[depth] - 1
      PROVE  Descend(t[depth][0], i, depth)[0] = ToFr(0, t[0][i])
  <2>1. i \in Nat /\ Above(i, depth) = 0
    <3>1. i \in Nat
      <4>1. PICK m \in Nat : m = Pow2[depth]
        BY Pow2Step
      <4> QED
        BY <4>1
    <3> QED
      BY <3>1, AboveRoot
  <2> QED
    BY <2>1, DescendTree
<1> QED
  BY <1>1, Zenon DEF RowOf

\* t is a tree of that depth over the sequence ls of leaves.
TreeOver(t, ls, depth) ==
  /\ HangsTogether(t, depth)
  /\ t[depth][0] = TreeRoot(ls, depth)
  /\ \A i \in Nat : t[0][i] = IF i < Len(ls) THEN ls[i + 1] ELSE ZeroLeaf

\* A tree rebuilt from a sequence, of words or of field elements.
LEMMA RebuiltTree ==
  ASSUME NEW depth \in Nat, NEW ls, Len(ls) \in Nat
  PROVE  \E t : TreeOver(t, ls, depth)
<1>1. PICK layers : Layered(layers, ls, depth) /\ Rebuild(ls, depth) = layers
  BY LayerTable, Zenon DEF Layered
<1>2. /\ HangsTogether(LayerTree(layers, depth), depth)
      /\ \A i \in Nat :
           LayerNode(layers, 0, i) = IF i < Len(ls) THEN ls[i + 1] ELSE ZeroLeaf
  BY <1>1, RebuildHangs
<1>3. 0 \in 0 .. depth /\ depth \in 0 .. depth /\ 0 \in Nat
  OBVIOUS
<1>4. LayerTree(layers, depth)[depth][0] = TreeRoot(ls, depth)
  BY <1>1, <1>3, Zenon DEF LayerTree, TreeRoot, MirrorRoot
<1>5. \A i \in Nat : LayerTree(layers, depth)[0][i] = LayerNode(layers, 0, i)
  BY <1>3, Zenon DEF LayerTree
<1> QED
  <2>1. TreeOver(LayerTree(layers, depth), ls, depth)
    BY <1>2, <1>4, <1>5, Zenon DEF TreeOver
  <2> QED
    BY <2>1, Zenon

\* The tree of a mirror.
LEMMA MirrorTree ==
  ASSUME NEW depth \in Nat, NEW ls \in Seq(Commitment)
  PROVE  \E t : TreeOver(t, ls, depth)
<1>1. Len(ls) \in Nat
  OBVIOUS
<1> QED
  BY <1>1, RebuiltTree, Zenon

\* The row of the leaves so far, which MixerPool takes for the root.
LEMMA MirrorRow ==
  ASSUME NEW depth \in Nat \ {0}, NEW ls \in Seq(Commitment)
  PROVE  RowOf(TreeRoot(ls, depth), depth) = Promise!RootOf(ls, Len(ls), depth)
<1>1. PICK t : /\ HangsTogether(t, depth)
               /\ t[depth][0] = TreeRoot(ls, depth)
               /\ \A i \in Nat : t[0][i] = IF i < Len(ls) THEN ls[i + 1] ELSE ZeroLeaf
  <2>1. depth \in Nat
    OBVIOUS
  <2>2. \E x : TreeOver(x, ls, depth)
    BY <2>1, MirrorTree, Zenon
  <2> QED
    BY <2>2, Zenon DEF TreeOver
<1>2. RowOf(TreeRoot(ls, depth), depth) = [i \in 0 .. Pow2[depth] - 1 |-> ToFr(0, t[0][i])]
  BY <1>1, RowOfTree
<1>3. ASSUME NEW i \in 0 .. Pow2[depth] - 1
      PROVE  ToFr(0, t[0][i]) = IF i < Len(ls) THEN BytesToFr[ls[i + 1]] ELSE ZeroLeaf
  <2>1. i \in Nat
    <3>1. PICK m \in Nat : m = Pow2[depth]
      BY Pow2Step
    <3> QED
      BY <3>1
  <2>2. i < Len(ls) => ls[i + 1] \in Commitment
    BY <2>1
  <2>3. ToFr(0, ZeroLeaf) = ZeroLeaf
    BY ToFrOfFr, TreeAssumption
  <2> QED
    BY <1>1, <2>1, <2>2, <2>3, Zenon DEF ToFr
<1>4. Promise!RootOf(ls, Len(ls), depth) =
        [i \in 0 .. Pow2[depth] - 1 |-> IF i < Len(ls) THEN BytesToFr[ls[i + 1]] ELSE ZeroLeaf]
  BY DEF Promise!RootOf, Promise!Pow2, Pow2
<1> QED
  BY <1>2, <1>3, <1>4

\* Roots of trees with the same row are the same.
LEMMA RowDetermines ==
  ASSUME NEW depth \in Nat \ {0}, NEW ls \in Seq(Commitment), NEW ms \in Seq(Commitment),
         Len(ls) <= Pow2[depth], Len(ms) <= Pow2[depth],
         RowOf(TreeRoot(ls, depth), depth) = RowOf(TreeRoot(ms, depth), depth)
  PROVE  TreeRoot(ls, depth) = TreeRoot(ms, depth)
<1>1. PICK t : /\ HangsTogether(t, depth)
               /\ t[depth][0] = TreeRoot(ls, depth)
               /\ \A i \in Nat : t[0][i] = IF i < Len(ls) THEN ls[i + 1] ELSE ZeroLeaf
  <2>1. depth \in Nat
    OBVIOUS
  <2>2. \E x : TreeOver(x, ls, depth)
    BY <2>1, MirrorTree, Zenon
  <2> QED
    BY <2>2, Zenon DEF TreeOver
<1>2. PICK u : /\ HangsTogether(u, depth)
               /\ u[depth][0] = TreeRoot(ms, depth)
               /\ \A i \in Nat : u[0][i] = IF i < Len(ms) THEN ms[i + 1] ELSE ZeroLeaf
  <2>1. depth \in Nat
    OBVIOUS
  <2>2. \E x : TreeOver(x, ms, depth)
    BY <2>1, MirrorTree, Zenon
  <2> QED
    BY <2>2, Zenon DEF TreeOver
<1>3. \A i \in Nat : ToFr(0, t[0][i]) = ToFr(0, u[0][i])
  <2>1. PICK m \in Nat : m = Pow2[depth]
    BY Pow2Step
  <2>2. ASSUME NEW i \in Nat, i < m
        PROVE  ToFr(0, t[0][i]) = ToFr(0, u[0][i])
    <3>1. [k \in 0 .. m - 1 |-> ToFr(0, t[0][k])] = [k \in 0 .. m - 1 |-> ToFr(0, u[0][k])]
      <4>1. RowOf(t[depth][0], depth) = [k \in 0 .. Pow2[depth] - 1 |-> ToFr(0, t[0][k])]
        BY <1>1, RowOfTree
      <4>2. RowOf(u[depth][0], depth) = [k \in 0 .. Pow2[depth] - 1 |-> ToFr(0, u[0][k])]
        BY <1>2, RowOfTree
      <4> QED
        BY <1>1, <1>2, <2>1, <4>1, <4>2
    <3>2. i \in 0 .. m - 1
      BY <2>2
    <3>3. /\ [k \in 0 .. m - 1 |-> ToFr(0, t[0][k])][i] = ToFr(0, t[0][i])
          /\ [k \in 0 .. m - 1 |-> ToFr(0, u[0][k])][i] = ToFr(0, u[0][i])
      BY <3>2, Zenon
    <3> QED
      BY <3>1, <3>3, Zenon
  <2>3. ASSUME NEW i \in Nat, ~(i < m)
        PROVE  t[0][i] = ZeroLeaf /\ u[0][i] = ZeroLeaf
    <3>1. ~(i < Len(ls)) /\ ~(i < Len(ms))
      BY <2>1, <2>3
    <3> QED
      BY <1>1, <1>2, <3>1, Zenon
  <2> QED
    BY <2>2, <2>3, Zenon
<1>4. \A level \in 1 .. depth, i \in Nat : t[level][i] = u[level][i]
  BY <1>1, <1>2, <1>3, SameTree
<1>5. depth \in 1 .. depth /\ 0 \in Nat
  OBVIOUS
<1> QED
  BY <1>1, <1>2, <1>4, <1>5, Zenon

\* The root in a node map that holds these leaves.
LEMMA NodesRoot ==
  ASSUME NEW depth \in Nat \ {0}, NEW nodes, NEW ls \in Seq(Commitment),
         HangsTogether(ChainTree(nodes, depth), depth),
         \A i \in Nat : NodeAt(nodes, 0, i) = IF i < Len(ls) THEN ls[i + 1] ELSE ZeroLeaf
  PROVE  GetCurrentRoot(nodes, depth) = TreeRoot(ls, depth)
<1>1. PICK t : /\ HangsTogether(t, depth)
               /\ t[depth][0] = TreeRoot(ls, depth)
               /\ \A i \in Nat : t[0][i] = IF i < Len(ls) THEN ls[i + 1] ELSE ZeroLeaf
  <2>1. depth \in Nat
    OBVIOUS
  <2>2. \E x : TreeOver(x, ls, depth)
    BY <2>1, MirrorTree, Zenon
  <2> QED
    BY <2>2, Zenon DEF TreeOver
<1>2. 0 \in 0 .. depth /\ depth \in 0 .. depth /\ depth \in 1 .. depth /\ 0 \in Nat
  OBVIOUS
<1>3. PICK u : u = ChainTree(nodes, depth)
  OBVIOUS
<1>4. /\ u[depth][0] = GetCurrentRoot(nodes, depth)
      /\ \A i \in Nat : u[0][i] = NodeAt(nodes, 0, i)
  BY <1>2, <1>3, Zenon DEF ChainTree, GetCurrentRoot
<1>5. \A i \in Nat : ToFr(0, u[0][i]) = ToFr(0, t[0][i])
  BY <1>1, <1>4, Zenon
<1>6. \A level \in 1 .. depth, i \in Nat : u[level][i] = t[level][i]
  BY <1>1, <1>3, <1>5, SameTree
<1> QED
  BY <1>1, <1>2, <1>4, <1>6, Zenon

(***************************************************************************)
(* The circuit: folding a path, and opening a leaf of the row.             *)
(***************************************************************************)

\* A path read off a root leads from a leaf of its row to the root, and from
\* nothing else.
LEMMA PathOpens ==
  ASSUME NEW t, HangsTogether(t, CircuitDepth), NEW leaf \in Fr,
         NEW i \in 0 .. Pow2[CircuitDepth] - 1
  PROVE  FoldPath(leaf, PathTo(t[CircuitDepth][0], i), CircuitDepth) = t[CircuitDepth][0]
           <=> ToFr(0, t[0][i]) = leaf
<1>1. PICK depth \in Nat \ {0} : depth = CircuitDepth
  BY StorageAssumption
<1>2. i \in Nat /\ Above(i, depth) = 0
  <2>1. PICK m \in Nat : m = Pow2[depth]
    BY Pow2Step
  <2>2. i \in Nat
    BY <1>1, <2>1
  <2> QED
    BY <1>1, <2>2, AboveRoot
<1>3. PICK path : path = PathTo(t[depth][0], i)
  OBVIOUS
<1>4. PICK u : u = Reduced(t, depth)
  OBVIOUS
<1>5. /\ HangsTogether(u, depth)
      /\ u[depth][0] = t[depth][0]
      /\ \A level \in 0 .. depth, k \in Nat : u[level][k] = ToFr(level, t[level][k])
  BY <1>1, <1>4, ReducedHangs
<1>6. Siblings(path, u, i, depth)
  <2>1. ASSUME NEW level \in 0 .. depth - 1
        PROVE  /\ path[level].bit = Above(i, level) % 2
               /\ path[level].element =
                    u[level][IF Above(i, level) % 2 = 0 THEN Above(i, level) + 1
                             ELSE Above(i, level) - 1]
    <3>1. level \in Nat /\ level \in 0 .. depth /\ level + 1 \in 0 .. depth /\ level + 1 # 0
      OBVIOUS
    <3>2. PICK a \in Nat, up \in Nat :
            /\ a = Above(i, level) /\ up = Above(i, level + 1)
            /\ a % 2 \in {0, 1} /\ a = 2 * up + (a % 2)
      BY <1>2, <3>1, UpOne
    <3>3. PICK b \in {0, 1} : b = a % 2
      BY <3>2
    <3>4. path[level] = [element |-> Descend(t[depth][0], i, depth)[level + 1][2 - b], bit |-> b]
      BY <1>1, <1>3, <3>2, <3>3 DEF PathTo
    <3>5. Descend(t[depth][0], i, depth)[level + 1] = t[level + 1][up]
      <4>1. Descend(t[depth][0], i, depth)[level + 1] = ToFr(level + 1, t[level + 1][Above(i, level + 1)])
        BY <1>1, <1>2, <3>1, DescendTree
      <4> QED
        BY <3>1, <3>2, <4>1, Zenon DEF ToFr
    <3>6. t[level + 1][up] = <<ToFr(level, t[level][2 * up]), ToFr(level, t[level][2 * up + 1])>>
      <4>1. t[level + 1][up] = HashPair(level, t[level][2 * up], t[level][2 * up + 1])
        BY <1>1, Zenon DEF HangsTogether
      <4> QED
        BY <4>1, Zenon DEF HashPair
    <3>7. 2 * up \in Nat /\ 2 * up + 1 \in Nat
      OBVIOUS
    <3>8. <<u[level][2 * up], u[level][2 * up + 1]>>[2 - b] =
            u[level][IF b = 0 THEN a + 1 ELSE a - 1]
      <4>1. CASE b = 0
        <5>1. a + 1 = 2 * up + 1 /\ 2 - b = 2
          BY <3>2, <3>3, <4>1
        <5>2. <<u[level][2 * up], u[level][2 * up + 1]>>[2] = u[level][2 * up + 1]
          OBVIOUS
        <5> QED
          BY <4>1, <5>1, <5>2, Zenon
      <4>2. CASE b = 1
        <5>1. a - 1 = 2 * up /\ 2 - b = 1 /\ b # 0
          BY <3>2, <3>3, <4>2
        <5>2. <<u[level][2 * up], u[level][2 * up + 1]>>[1] = u[level][2 * up]
          OBVIOUS
        <5> QED
          BY <5>1, <5>2, Zenon
      <4> QED
        BY <3>3, <4>1, <4>2
    <3>9. <<u[level][2 * up], u[level][2 * up + 1]>> = Descend(t[depth][0], i, depth)[level + 1]
      BY <1>5, <3>1, <3>5, <3>6, <3>7, Zenon
    <3>10. path[level].bit = b /\ path[level].element = Descend(t[depth][0], i, depth)[level + 1][2 - b]
      BY <3>4
    <3> QED
      BY <3>2, <3>3, <3>8, <3>9, <3>10, Zenon
  <2> QED
    BY <2>1, Zenon DEF Siblings
<1>7. ASSUME ToFr(0, t[0][i]) = leaf
      PROVE  FoldPath(leaf, path, depth) = t[depth][0]
  <2>1. FoldPath(u[0][i], path, depth) = u[depth][0]
    BY <1>2, <1>5, <1>6, FoldTree
  <2>2. 0 \in 0 .. depth
    OBVIOUS
  <2> QED
    BY <1>2, <1>5, <1>7, <2>1, <2>2, Zenon
<1>8. ASSUME FoldPath(leaf, path, depth) = t[depth][0]
      PROVE  ToFr(0, t[0][i]) = leaf
  <2>1. ASSUME NEW level \in 0 .. depth - 1
        PROVE  path[level].bit = Above(i, level) % 2 /\ path[level].bit \in {0, 1}
    <3>1. path[level].bit = Above(i, level) % 2
      BY <1>6, Zenon DEF Siblings
    <3>2. level \in Nat
      OBVIOUS
    <3> QED
      BY <1>2, <3>1, <3>2, AboveHalves
  <2>2. PathIndex(path, depth) = i
    <3>1. depth \in Nat
      OBVIOUS
    <3>2. \A level \in 0 .. depth - 1 : path[level].bit = Above(i, level) % 2
      BY <2>1, Zenon
    <3> QED
      BY <1>2, <3>1, <3>2, PathIndexOf, Zenon
  <2>3. ToFr(0, leaf) = ToFr(0, t[0][PathIndex(path, depth)])
    <3>1. HangsTogether(t, depth)
      BY <1>1, Zenon
    <3>2. \A level \in 0 .. depth - 1 : path[level].bit \in {0, 1}
      BY <2>1, Zenon
    <3>3. depth \in Nat \ {0}
      OBVIOUS
    <3> QED
      BY <1>8, <3>1, <3>2, <3>3, FoldAdmits
  <2> QED
    BY <2>2, <2>3, ToFrOfFr, Zenon
<1> QED
  BY <1>1, <1>3, <1>7, <1>8, Zenon

(***************************************************************************)
(* The inductive invariant.                                                *)
(***************************************************************************)

\* The contract before and after initialize.
Setup ==
  /\ initialized \in BOOLEAN
  /\ nextLeafIndex \in Nat
  /\ DOMAIN rootHashes \subseteq Nat
  /\ ~initialized =>
       /\ config = Promise!Unset
       /\ nextLeafIndex = 0
       /\ rootHistoryIndex = 0
       /\ DOMAIN merkleNode = {}
       /\ DOMAIN rootHashes = {}
  /\ initialized =>
       /\ config.treeDepth \in 1 .. WordBits
       /\ config.rootHistorySize \in Nat \ {0}
       /\ nextLeafIndex <= Pow2[config.treeDepth]
       /\ rootHistoryIndex \in 0 .. config.rootHistorySize - 1

\* The nodes are a tree over the leaves: a map that holds the words of the leaves
\* at level 0, in which each node is the hash of the two below it.
Grown(nodes, ls, n, depth) ==
  /\ HangsTogether(ChainTree(nodes, depth), depth)
  /\ \A i \in Nat : NodeAt(nodes, 0, i) = IF i < n THEN ls[i + 1] ELSE ZeroLeaf
  /\ \A i \in 0 .. n - 1 : <<0, i>> \in DOMAIN nodes
  /\ \A p \in DOMAIN nodes :
       p[1] \in 0 .. depth /\ p[2] \in 0 .. Pow2[depth - p[1]] - 1

Nodes ==
  /\ leavesBar \in Seq(Commitment)
  /\ Grown(merkleNode, leavesBar, nextLeafIndex, config.treeDepth)

\* Each entry of the history is a root the tree has had.
Roots ==
  \A p \in DOMAIN rootHashes :
    \E k \in 0 .. nextLeafIndex :
      rootHashes[p] = TreeRoot(SubSeq(leavesBar, 1, k), config.treeDepth)

\* The entry written last is the root of the tree as it is.
Newest ==
  initialized =>
    \E w \in 0 .. config.rootHistorySize - 1 :
      /\ rootHistoryIndex = (w + 1) % config.rootHistorySize
      /\ w \in DOMAIN rootHashes
      /\ rootHashes[w] = GetCurrentRoot(merkleNode, config.treeDepth)

IInv == Setup /\ Nodes /\ Roots /\ Newest

\* The steps that leave tree and history alone.
Kept ==
  UNCHANGED <<initialized, config, rootHistoryIndex, merkleNode, nextLeafIndex, rootHashes>>

LEMMA StepCases ==
  ASSUME [Next]_vars
  PROVE  \/ Kept
         \/ \E denomination \in Denominations, maxFee \in MaxFees,
               depth \in Depths, size \in HistorySizes :
              InitializeOk(denomination, maxFee, depth, size)
         \/ \E depositor \in Promise!Users, c \in Commitment : DepositOk(depositor, c)
<1>1. CASE UNCHANGED vars
  BY <1>1 DEF vars, Kept
<1>2. ASSUME NEW op, NEW outcome, Fail(op, outcome)
      PROVE  Kept
  BY <1>2 DEF Fail, contractVars, Kept
<1>6. ASSUME NEW op, NEW outcome, TokenRefuses(op, outcome)
      PROVE  Kept
  BY <1>6 DEF TokenRefuses, contractVars, Kept
<1>3. ASSUME NEW root \in SeenRoots, NEW nh \in NullifierHash,
             NEW recipient \in Address, NEW relayer \in Address, NEW fee \in Fees,
             NEW proof \in ProofsAgainst(PublicInputs(root, nh, recipient, relayer, fee)),
             WithdrawOk(proof, root, nh, recipient, relayer, fee)
      PROVE  Kept
  BY <1>3 DEF WithdrawOk, Kept
<1>4. ASSUME NEW from \in Promise!Users, NEW to \in Address, NEW amount \in 1 .. balance[from],
             TokenTransfer(from, to, amount)
      PROVE  Kept
  BY <1>4 DEF TokenTransfer, Kept
<1>5. CASE Next
  BY <1>2, <1>3, <1>4, <1>5, <1>6, Zenon DEF Next
<1> QED
  BY <1>1, <1>5

\* The leaves, as a function of the nodes.
LeavesOf(nodes, n) == [i \in 1 .. n |-> nodes[<<0, i - 1>>]]

LEMMA LeavesBarIs == leavesBar = LeavesOf(merkleNode, nextLeafIndex)
BY DEF leavesBar, LeavesOf

\* An insertion appends a leaf.
LEMMA GrownBy ==
  ASSUME NEW depth \in Nat \ {0}, NEW n \in Nat, n < Pow2[depth], NEW nodes, NEW c \in Commitment,
         LeavesOf(nodes, n) \in Seq(Commitment),
         Grown(nodes, LeavesOf(nodes, n), n, depth)
  PROVE  /\ LeavesOf(InsertLeaf(nodes, c, n, depth), n + 1) = Append(LeavesOf(nodes, n), c)
         /\ Append(LeavesOf(nodes, n), c) \in Seq(Commitment)
         /\ Len(LeavesOf(nodes, n)) = n
         /\ Grown(InsertLeaf(nodes, c, n, depth), Append(LeavesOf(nodes, n), c), n + 1, depth)
         /\ GetCurrentRoot(InsertLeaf(nodes, c, n, depth), depth) =
              TreeRoot(Append(LeavesOf(nodes, n), c), depth)
<1>1. PICK after : after = InsertLeaf(nodes, c, n, depth)
  OBVIOUS
<1>2. PICK ls \in Seq(Commitment) : ls = LeavesOf(nodes, n)
  OBVIOUS
<1>3. Len(ls) = n /\ \A i \in 1 .. n : ls[i] = nodes[<<0, i - 1>>]
  BY <1>2 DEF LeavesOf
<1>4. PICK more \in Seq(Commitment) :
        /\ more = Append(ls, c) /\ Len(more) = n + 1 /\ more[n + 1] = c
        /\ \A i \in 1 .. n : more[i] = ls[i]
  <2>1. Append(ls, c) \in Seq(Commitment)
    OBVIOUS
  <2>2. Len(Append(ls, c)) = n + 1 /\ Append(ls, c)[n + 1] = c
    BY <1>3
  <2>3. \A i \in 1 .. n : Append(ls, c)[i] = ls[i]
    BY <1>3
  <2> QED
    BY <2>1, <2>2, <2>3, Zenon
<1>5. PICK path : Writes(path, after, nodes, c, n, depth)
  BY <1>1, InsertedNodes
<1>6. /\ HangsTogether(ChainTree(after, depth), depth)
      /\ \A i \in Nat : NodeAt(after, 0, i) = IF i = n THEN c ELSE NodeAt(nodes, 0, i)
  <2>1. HangsTogether(ChainTree(nodes, depth), depth)
    BY Zenon DEF Grown
  <2> QED
    BY <1>1, <2>1, InsertKeeps
<1>7. \A i \in 0 .. n : <<0, i>> \in DOMAIN after
  <2>1. DOMAIN after = DOMAIN nodes \cup {<<level, Above(n, level)>> : level \in 0 .. depth}
    BY <1>5, Zenon DEF Writes
  <2>2. 0 \in 0 .. depth /\ Above(n, 0) = n
    BY AboveHalves
  <2>3. <<0, n>> \in DOMAIN after
    BY <2>1, <2>2, Zenon
  <2>4. \A i \in 0 .. n - 1 : <<0, i>> \in DOMAIN after
    BY <2>1, Zenon DEF Grown
  <2>5. \A i \in 0 .. n : i = n \/ i \in 0 .. n - 1
    OBVIOUS
  <2> QED
    BY <2>3, <2>4, <2>5, Zenon
<1>8. ASSUME NEW i \in 0 .. n
      PROVE  after[<<0, i>>] = more[i + 1]
  <2>1. i \in Nat
    OBVIOUS
  <2>2. NodeAt(after, 0, i) = after[<<0, i>>]
    BY <1>7, Zenon DEF NodeAt
  <2>3. CASE i = n
    BY <1>4, <1>6, <2>1, <2>2, <2>3, Zenon
  <2>4. CASE i # n
    <3>1. i \in 0 .. n - 1 /\ i + 1 \in 1 .. n /\ i < n
      BY <2>4
    <3>2. NodeAt(nodes, 0, i) = ls[i + 1]
      BY <1>2, <2>1, <3>1, Zenon DEF Grown
    <3> QED
      BY <1>4, <1>6, <2>1, <2>2, <2>4, <3>1, <3>2, Zenon
  <2> QED
    BY <2>3, <2>4, Zenon
<1>9. LeavesOf(after, n + 1) = more
  <2>1. ASSUME NEW i \in 1 .. n + 1
        PROVE  after[<<0, i - 1>>] = more[i]
    <3>1. i - 1 \in 0 .. n /\ (i - 1) + 1 = i
      OBVIOUS
    <3> QED
      BY <1>8, <3>1, Zenon
  <2>2. more = [i \in 1 .. n + 1 |-> more[i]]
    <3>1. more = [i \in 1 .. Len(more) |-> more[i]]
      OBVIOUS
    <3> QED
      BY <1>4, <3>1
  <2>3. [i \in 1 .. n + 1 |-> after[<<0, i - 1>>]] = [i \in 1 .. n + 1 |-> more[i]]
    BY <2>1, Zenon
  <2> QED
    BY <2>2, <2>3, Zenon DEF LeavesOf
<1>10. ASSUME NEW i \in Nat
       PROVE  NodeAt(after, 0, i) = IF i < n + 1 THEN more[i + 1] ELSE ZeroLeaf
  <2>1. CASE i < n + 1
    <3>1. i \in 0 .. n
      BY <2>1
    <3>2. NodeAt(after, 0, i) = after[<<0, i>>]
      BY <1>7, <3>1, Zenon DEF NodeAt
    <3> QED
      BY <1>8, <2>1, <3>1, <3>2, Zenon
  <2>2. CASE ~(i < n + 1)
    <3>1. i # n /\ ~(i < n)
      BY <2>2
    <3> QED
      BY <1>6, <2>2, <3>1, Zenon DEF Grown
  <2> QED
    BY <2>1, <2>2, Zenon
<1>11. ASSUME NEW p \in DOMAIN after
       PROVE  p[1] \in 0 .. depth /\ p[2] \in 0 .. Pow2[depth - p[1]] - 1
  <2>1. DOMAIN after = DOMAIN nodes \cup {<<level, Above(n, level)>> : level \in 0 .. depth}
    BY <1>5, Zenon DEF Writes
  <2>2. CASE p \in DOMAIN nodes
    BY <2>2, Zenon DEF Grown
  <2>3. CASE p \notin DOMAIN nodes
    <3>1. PICK level \in 0 .. depth : p = <<level, Above(n, level)>>
      BY <2>1, <2>3, Zenon
    <3>2. p[1] = level /\ p[2] = Above(n, level)
      BY <3>1
    <3>3. n \in 0 .. Pow2[depth] - 1
      <4>1. PICK m \in Nat : m = Pow2[depth]
        BY Pow2Step
      <4> QED
        BY <4>1
    <3> QED
      BY <3>2, <3>3, AboveInside, Zenon
  <2> QED
    BY <2>2, <2>3
<1>12. Grown(after, more, n + 1, depth)
  <2>1. \A i \in 0 .. (n + 1) - 1 : <<0, i>> \in DOMAIN after
    <3>1. (n + 1) - 1 = n
      OBVIOUS
    <3> QED
      BY <1>7, <3>1
  <2> QED
    BY <1>6, <1>10, <1>11, <2>1, Zenon DEF Grown
<1>13. GetCurrentRoot(after, depth) = TreeRoot(more, depth)
  BY <1>4, <1>6, <1>10, NodesRoot
<1> QED
  BY <1>1, <1>2, <1>3, <1>4, <1>9, <1>12, <1>13, Zenon

\* Before the first deposit.
LEMMA GrownEmpty ==
  ASSUME NEW depth \in Nat, NEW nodes, DOMAIN nodes = {}
  PROVE  /\ LeavesOf(nodes, 0) = << >>
         /\ Grown(nodes, << >>, 0, depth)
         /\ depth # 0 => GetCurrentRoot(nodes, depth) = TreeRoot(<< >>, depth)
<1>1. LeavesOf(nodes, 0) = << >>
  BY DEF LeavesOf
<1>2. /\ HangsTogether(ChainTree(nodes, depth), depth)
      /\ \A i \in Nat : NodeAt(nodes, 0, i) = ZeroLeaf
  BY EmptyTree, ZeroStep, Zenon
<1>3. \A i \in Nat : ~(i < 0)
  OBVIOUS
<1>4. 0 .. 0 - 1 = {}
  OBVIOUS
<1>5. Grown(nodes, << >>, 0, depth)
  BY <1>2, <1>3, <1>4, Zenon DEF Grown
<1>6. ASSUME depth # 0
      PROVE  GetCurrentRoot(nodes, depth) = TreeRoot(<< >>, depth)
  <2>1. << >> \in Seq(Commitment) /\ Len(<< >>) = 0 /\ depth \in Nat \ {0}
    BY <1>6
  <2>2. \A i \in Nat : NodeAt(nodes, 0, i) = IF i < Len(<< >>) THEN << >>[i + 1] ELSE ZeroLeaf
    BY <1>2, <1>3, <2>1, Zenon
  <2> QED
    BY <1>2, <2>1, <2>2, NodesRoot
<1> QED
  BY <1>1, <1>5, <1>6

\* Prefixes of a sequence that grows.
LEMMA Prefixes ==
  ASSUME NEW ls \in Seq(Commitment), NEW k \in 0 .. Len(ls), NEW c \in Commitment
  PROVE  /\ SubSeq(ls, 1, k) \in Seq(Commitment)
         /\ Len(SubSeq(ls, 1, k)) = k
         /\ SubSeq(Append(ls, c), 1, k) = SubSeq(ls, 1, k)
         /\ SubSeq(ls, 1, Len(ls)) = ls
         /\ SubSeq(Append(ls, c), 1, Len(ls) + 1) = Append(ls, c)
<1>1. SubSeq(ls, 1, k) \in Seq(Commitment) /\ Len(SubSeq(ls, 1, k)) = k
  OBVIOUS
<1>2. SubSeq(ls, 1, Len(ls)) = ls
  OBVIOUS
<1>3. Append(ls, c) \in Seq(Commitment) /\ Len(Append(ls, c)) = Len(ls) + 1
  OBVIOUS
<1>4. SubSeq(Append(ls, c), 1, Len(ls) + 1) = Append(ls, c)
  BY <1>3
<1>5. SubSeq(Append(ls, c), 1, k) = SubSeq(ls, 1, k)
  <2>1. SubSeq(Append(ls, c), 1, k) \in Seq(Commitment) /\ Len(SubSeq(Append(ls, c), 1, k)) = k
    BY <1>3
  <2>2. \A i \in 1 .. k : SubSeq(Append(ls, c), 1, k)[i] = ls[i] /\ SubSeq(ls, 1, k)[i] = ls[i]
    BY <1>3
  <2> QED
    BY <1>1, <2>1, <2>2
<1> QED
  BY <1>1, <1>2, <1>4, <1>5

\* The place after a place of the ring buffer.
LEMMA NextPlace ==
  ASSUME NEW size \in Nat \ {0}, NEW w \in 0 .. size - 1
  PROVE  /\ (w + 1) % size \in 0 .. size - 1
         /\ (((w + 1) % size) + size - 1) % size = w
<1>1. CASE w + 1 = size
  <2>1. (w + 1) % size = 0
    BY <1>1
  <2>2. (0 + size - 1) % size = w
    BY <1>1
  <2> QED
    BY <2>1, <2>2
<1>2. CASE w + 1 # size
  <2>1. (w + 1) % size = w + 1
    BY <1>2
  <2>2. (w + 1 + size - 1) % size = w
    BY <1>2
  <2> QED
    BY <1>2, <2>1, <2>2
<1> QED
  BY <1>1, <1>2

LEMMA IInvInit == Init => IInv
<1> SUFFICES ASSUME Init PROVE IInv
  OBVIOUS
<1>1. /\ initialized = FALSE /\ config = Promise!Unset /\ nextLeafIndex = 0 /\ rootHistoryIndex = 0
      /\ DOMAIN merkleNode = {} /\ DOMAIN rootHashes = {}
  BY DEF Init
<1>2. config.treeDepth = 0
  BY <1>1 DEF Promise!Unset
<1>3. LeavesOf(merkleNode, 0) = << >> /\ Grown(merkleNode, << >>, 0, 0)
  BY <1>1, GrownEmpty
<1>4. Nodes
  <2>1. leavesBar = << >>
    BY <1>1, <1>3, LeavesBarIs
  <2>2. << >> \in Seq(Commitment)
    OBVIOUS
  <2> QED
    BY <1>1, <1>2, <1>3, <2>1, <2>2, Zenon DEF Nodes
<1>5. Setup /\ Roots /\ Newest
  BY <1>1 DEF Setup, Roots, Newest
<1> QED
  BY <1>4, <1>5 DEF IInv

LEMMA KeptStep ==
  ASSUME IInv, Kept
  PROVE  IInv'
<1>1. /\ initialized' = initialized /\ config' = config /\ rootHistoryIndex' = rootHistoryIndex
      /\ merkleNode' = merkleNode /\ nextLeafIndex' = nextLeafIndex /\ rootHashes' = rootHashes
  BY DEF Kept
<1>2. leavesBar' = leavesBar
  BY <1>1 DEF leavesBar
<1>3. Setup'
  BY <1>1 DEF IInv, Setup, Promise!Unset
<1>4. Nodes'
  BY <1>1, <1>2, Zenon DEF IInv, Nodes
<1>5. Roots'
  BY <1>1, <1>2, Zenon DEF IInv, Roots
<1>6. Newest'
  BY <1>1, Zenon DEF IInv, Newest
<1> QED
  BY <1>3, <1>4, <1>5, <1>6, Zenon DEF IInv

LEMMA InitializeStep ==
  ASSUME IInv, NEW denomination, NEW maxFee, NEW depth \in Depths, NEW size \in HistorySizes,
         InitializeOk(denomination, maxFee, depth, size)
  PROVE  IInv'
<1>1. /\ ~initialized /\ depth \in 1 .. WordBits /\ depth \in Nat \ {0} /\ size \in Nat \ {0}
  BY StorageAssumption DEF InitializeOk, InitializeOutcome
<1>2. /\ initialized' = TRUE /\ config'.treeDepth = depth /\ config'.rootHistorySize = size
      /\ nextLeafIndex' = 0 /\ merkleNode' = merkleNode
  BY DEF InitializeOk
<1>3. DOMAIN merkleNode = {} /\ DOMAIN rootHashes = {} /\ rootHistoryIndex = 0
  BY <1>1 DEF IInv, Setup
<1>4. /\ rootHistoryIndex' = (0 + 1) % size
      /\ rootHashes' = [p \in {0} |-> GetCurrentRoot(merkleNode, depth)]
  BY <1>3 DEF InitializeOk, PushRootHistory
<1>5. PICK nodes : nodes = merkleNode
  OBVIOUS
<1>6. /\ LeavesOf(nodes, 0) = << >> /\ Grown(nodes, << >>, 0, depth)
      /\ GetCurrentRoot(nodes, depth) = TreeRoot(<< >>, depth)
  BY <1>1, <1>3, <1>5, GrownEmpty
<1>7. leavesBar' = << >>
  <2>1. leavesBar' = LeavesOf(nodes, 0)
    BY <1>2, <1>5 DEF leavesBar, LeavesOf
  <2> QED
    BY <1>6, <2>1
<1>8. 0 \in 0 .. size - 1 /\ (0 + 1) % size \in 0 .. size - 1
  BY <1>1, NextPlace
<1>9. DOMAIN rootHashes' = {0} /\ rootHashes'[0] = GetCurrentRoot(nodes, depth)
  BY <1>4, <1>5
<1>10. Setup'
  <2>1. PICK m \in Nat : m = Pow2[depth]
    BY <1>1, Pow2Step
  <2> QED
    BY <1>1, <1>2, <1>4, <1>8, <1>9, <2>1 DEF Setup
<1>11. Nodes'
  <2>1. << >> \in Seq(Commitment)
    OBVIOUS
  <2> QED
    BY <1>2, <1>5, <1>6, <1>7, <2>1, Zenon DEF Nodes
<1>12. Roots'
  <2>1. SubSeq(<< >>, 1, 0) = << >> /\ 0 \in 0 .. 0
    OBVIOUS
  <2> QED
    BY <1>2, <1>6, <1>7, <1>9, <2>1 DEF Roots
<1>13. Newest'
  <2>1. \E w \in 0 .. size - 1 :
          /\ rootHistoryIndex' = (w + 1) % size
          /\ w \in DOMAIN rootHashes'
          /\ rootHashes'[w] = GetCurrentRoot(merkleNode', depth)
    BY <1>2, <1>4, <1>5, <1>8, <1>9
  <2> QED
    BY <1>2, <2>1, Zenon DEF Newest
<1> QED
  BY <1>10, <1>11, <1>12, <1>13, Zenon DEF IInv

\* What a deposit does to leaves and nodes.
DepositFacts(c, d, n, ls, size) ==
  /\ initialized /\ initialized' = TRUE
  /\ d = config.treeDepth /\ config' = config /\ d \in 1 .. WordBits
  /\ size = config.rootHistorySize
  /\ n = nextLeafIndex /\ n < Pow2[d] /\ nextLeafIndex' = n + 1
  /\ ls = leavesBar /\ Len(ls) = n /\ leavesBar' = Append(ls, c)
  /\ Append(ls, c) \in Seq(Commitment)
  /\ Grown(merkleNode', Append(ls, c), n + 1, d)
  /\ GetCurrentRoot(merkleNode', d) = TreeRoot(Append(ls, c), d)
  /\ rootHistoryIndex \in 0 .. size - 1 /\ rootHistoryIndex' = (rootHistoryIndex + 1) % size
  /\ rootHashes' = [p \in DOMAIN rootHashes \cup {rootHistoryIndex} |->
                      IF p = rootHistoryIndex THEN GetCurrentRoot(merkleNode', d)
                      ELSE rootHashes[p]]

LEMMA DepositDoes ==
  ASSUME IInv, NEW depositor, NEW c \in Commitment, DepositOk(depositor, c)
  PROVE  \E d \in Nat \ {0}, n \in Nat, ls \in Seq(Commitment), size \in Nat \ {0} :
           DepositFacts(c, d, n, ls, size)
<1>1. initialized /\ ~(nextLeafIndex >= Promise!MaxLeaves(config.treeDepth))
  BY DEF DepositOk, DepositOutcome
<1>2. /\ config.treeDepth \in 1 .. WordBits
      /\ config.rootHistorySize \in Nat \ {0}
      /\ rootHistoryIndex \in 0 .. config.rootHistorySize - 1
      /\ nextLeafIndex \in Nat
  BY <1>1 DEF IInv, Setup
<1>3. /\ initialized' = initialized /\ config' = config
      /\ nextLeafIndex' = nextLeafIndex + 1
      /\ merkleNode' = InsertLeaf(merkleNode, c, nextLeafIndex, config.treeDepth)
      /\ rootHistoryIndex' = (rootHistoryIndex + 1) % config.rootHistorySize
      /\ rootHashes' = [p \in DOMAIN rootHashes \cup {rootHistoryIndex} |->
                          IF p = rootHistoryIndex THEN GetCurrentRoot(merkleNode', config.treeDepth)
                          ELSE rootHashes[p]]
  BY Zenon DEF DepositOk, PushRootHistory
<1>4. PICK d \in Nat \ {0} : d = config.treeDepth
  BY <1>2, StorageAssumption
<1>5. PICK n \in Nat : n = nextLeafIndex
  BY <1>2
<1>6. n < Pow2[d]
  <2>1. PICK m \in Nat, full \in Nat : m = Pow2[d] /\ full = Pow2[WordBits]
    BY Pow2Step, StorageAssumption
  <2>2. Promise!Pow2[d] = m /\ Promise!Pow2[WordBits] = full
    BY <2>1 DEF Promise!Pow2, Pow2
  <2>3. ~(n >= IF d < WordBits THEN m ELSE full - 1)
    BY <1>1, <1>4, <1>5, <2>2 DEF Promise!MaxLeaves
  <2>4. ~(d < WordBits) => m = full
    <3>1. ~(d < WordBits) => d = WordBits
      BY <1>2, <1>4, StorageAssumption
    <3> QED
      BY <2>1, <3>1, Zenon
  <2> QED
    BY <2>1, <2>3, <2>4
<1>7. PICK ls \in Seq(Commitment) : ls = leavesBar
  BY DEF IInv, Nodes
<1>8. PICK nodes : nodes = merkleNode
  OBVIOUS
<1>9. ls = LeavesOf(nodes, n)
  BY <1>5, <1>7, <1>8, LeavesBarIs, Zenon
<1>10. Grown(nodes, ls, n, d)
  BY <1>4, <1>5, <1>7, <1>8, Zenon DEF IInv, Nodes
<1>11. /\ LeavesOf(InsertLeaf(nodes, c, n, d), n + 1) = Append(ls, c)
       /\ Append(ls, c) \in Seq(Commitment)
       /\ Len(ls) = n
       /\ Grown(InsertLeaf(nodes, c, n, d), Append(ls, c), n + 1, d)
       /\ GetCurrentRoot(InsertLeaf(nodes, c, n, d), d) = TreeRoot(Append(ls, c), d)
  <2>1. /\ LeavesOf(nodes, n) \in Seq(Commitment)
        /\ Grown(nodes, LeavesOf(nodes, n), n, d)
    BY <1>9, <1>10, Zenon
  <2>2. /\ LeavesOf(InsertLeaf(nodes, c, n, d), n + 1) = Append(LeavesOf(nodes, n), c)
        /\ Append(LeavesOf(nodes, n), c) \in Seq(Commitment)
        /\ Len(LeavesOf(nodes, n)) = n
        /\ Grown(InsertLeaf(nodes, c, n, d), Append(LeavesOf(nodes, n), c), n + 1, d)
        /\ GetCurrentRoot(InsertLeaf(nodes, c, n, d), d) =
             TreeRoot(Append(LeavesOf(nodes, n), c), d)
    BY <1>6, <2>1, GrownBy
  <2> QED
    BY <1>9, <2>2, Zenon
<1>12. PICK after : after = merkleNode' /\ after = InsertLeaf(nodes, c, n, d)
  BY <1>3, <1>4, <1>5, <1>8, Zenon
<1>13. leavesBar' = Append(ls, c)
  <2>1. leavesBar' = [i \in 1 .. n + 1 |-> after[<<0, i - 1>>]]
    BY <1>3, <1>5, <1>12, Zenon DEF leavesBar
  <2> QED
    BY <1>11, <1>12, <2>1, Zenon DEF LeavesOf
<1>14. PICK size \in Nat \ {0} : size = config.rootHistorySize
  BY <1>2
<1>15. DepositFacts(c, d, n, ls, size)
  <2>1. initialized = TRUE
    BY <1>1 DEF IInv, Setup
  <2> QED
    BY <1>2, <1>3, <1>4, <1>5, <1>6, <1>7, <1>11, <1>12, <1>13, <1>14, <2>1, Zenon DEF DepositFacts
<1> QED
  BY <1>15

LEMMA DepositStep ==
  ASSUME IInv, NEW depositor, NEW c \in Commitment, DepositOk(depositor, c)
  PROVE  IInv'
<1>1. PICK d \in Nat \ {0}, n \in Nat, ls \in Seq(Commitment), size \in Nat \ {0} :
        DepositFacts(c, d, n, ls, size)
  BY DepositDoes
<1>2. PICK w \in 0 .. size - 1 : w = rootHistoryIndex
  BY <1>1 DEF DepositFacts
<1>3. PICK root : root = GetCurrentRoot(merkleNode', d) /\ root = TreeRoot(Append(ls, c), d)
  BY <1>1, Zenon DEF DepositFacts
<1>4. /\ DOMAIN rootHashes' = DOMAIN rootHashes \cup {w}
      /\ rootHashes'[w] = root
      /\ \A p \in DOMAIN rootHashes : p # w => rootHashes'[p] = rootHashes[p]
  <2>1. rootHashes' = [p \in DOMAIN rootHashes \cup {w} |-> IF p = w THEN root ELSE rootHashes[p]]
    BY <1>1, <1>2, <1>3, Zenon DEF DepositFacts
  <2> QED
    BY <2>1, Zenon
<1>5. Setup'
  <2>1. PICK m \in Nat : m = Pow2[d]
    BY Pow2Step
  <2>2. n + 1 <= Pow2[d] /\ n + 1 \in Nat
    BY <1>1, <2>1 DEF DepositFacts
  <2>3. (w + 1) % size \in 0 .. size - 1
    BY NextPlace
  <2>4. (DOMAIN rootHashes)' \subseteq Nat
    BY <1>4 DEF IInv, Setup
  <2> QED
    BY <1>1, <1>2, <2>2, <2>3, <2>4 DEF Setup, DepositFacts
<1>6. Nodes'
  BY <1>1, Zenon DEF Nodes, DepositFacts
<1>7. Roots'
  <2>1. ASSUME NEW p \in DOMAIN rootHashes'
        PROVE  \E k \in 0 .. n + 1 : rootHashes'[p] = TreeRoot(SubSeq(Append(ls, c), 1, k), d)
    <3>1. CASE p = w
      <4>1. SubSeq(Append(ls, c), 1, n + 1) = Append(ls, c)
        <5>1. 0 \in 0 .. Len(ls) /\ Len(ls) = n
          BY <1>1 DEF DepositFacts
        <5> QED
          BY <5>1, Prefixes
      <4>2. n + 1 \in 0 .. n + 1
        OBVIOUS
      <4> QED
        BY <1>3, <1>4, <3>1, <4>1, <4>2, Zenon
    <3>2. CASE p # w
      <4>1. p \in DOMAIN rootHashes /\ rootHashes'[p] = rootHashes[p]
        BY <1>4, <3>2
      <4>2. PICK k \in 0 .. n : rootHashes[p] = TreeRoot(SubSeq(ls, 1, k), d)
        BY <1>1, <4>1, Zenon DEF IInv, Roots, DepositFacts
      <4>3. SubSeq(Append(ls, c), 1, k) = SubSeq(ls, 1, k)
        <5>1. k \in 0 .. Len(ls)
          BY <1>1 DEF DepositFacts
        <5> QED
          BY <5>1, Prefixes
      <4>4. k \in 0 .. n + 1
        OBVIOUS
      <4> QED
        BY <4>1, <4>2, <4>3, <4>4, Zenon
    <3> QED
      BY <3>1, <3>2
  <2> QED
    BY <1>1, <2>1, Zenon DEF Roots, DepositFacts
<1>8. Newest'
  BY <1>1, <1>2, <1>3, <1>4, Zenon DEF Newest, DepositFacts
<1> QED
  BY <1>5, <1>6, <1>7, <1>8, Zenon DEF IInv

LEMMA IInvStep == IInv /\ [Next]_vars => IInv'
BY StepCases, KeptStep, InitializeStep, DepositStep

THEOREM Invariance == Spec => []IInv
<1>1. IInv /\ [Next]_vars => IInv'
  BY IInvStep
<1> QED
  BY IInvInit, <1>1, PTL DEF Spec

\* The node map and the leaf counter have their types (merkle.rs, next_leaf_index).
THEOREM TypeCorrect == Spec => []TypeOK
<1>1. IInv => TypeOK
  <2> SUFFICES ASSUME IInv PROVE TypeOK
    OBVIOUS
  <2>1. nextLeafIndex \in Nat /\ DOMAIN rootHashes \subseteq Nat
    BY DEF IInv, Setup
  <2>2. ASSUME NEW i \in 0 .. nextLeafIndex - 1
        PROVE  merkleNode[<<0, i>>] \in Commitment
    <3>1. PICK n \in Nat : n = nextLeafIndex
      BY <2>1
    <3>2. PICK ls \in Seq(Commitment) : ls = leavesBar
      BY DEF IInv, Nodes
    <3>3. i + 1 \in 1 .. n /\ (i + 1) - 1 = i
      BY <2>2, <3>1
    <3>4. ls = [k \in 1 .. n |-> merkleNode[<<0, k - 1>>]]
      BY <3>1, <3>2 DEF leavesBar
    <3>5. i + 1 \in DOMAIN ls /\ ls[i + 1] = merkleNode[<<0, i>>]
      BY <3>3, <3>4
    <3>6. \A k \in DOMAIN ls : ls[k] \in Commitment
      OBVIOUS
    <3> QED
      BY <3>5, <3>6, Zenon
  <2>3. \A p \in DOMAIN merkleNode :
          p[1] \in 0 .. config.treeDepth /\ p[2] \in 0 .. Pow2[config.treeDepth - p[1]] - 1
    BY Zenon DEF IInv, Nodes, Grown
  <2> QED
    BY <2>1, <2>2, <2>3, Zenon DEF TypeOK
<1> QED
  BY <1>1, Invariance, PTL

(***************************************************************************)
(* The newest root, and the tree of a client that replays the events.      *)
(***************************************************************************)
DepositsIn(es) == {i \in DOMAIN es : es[i].topic = "deposit"}

\* The deposit events carry the leaves, each with its index, each once.
Replay ==
  /\ events \in Seq(Promise!Event)
  /\ IsFiniteSet(DepositsIn(events))
  /\ Cardinality(DepositsIn(events)) = nextLeafIndex
  /\ \A i \in DepositsIn(events) :
       /\ events[i].index \in 0 .. nextLeafIndex - 1
       /\ events[i].commitment = leavesBar[events[i].index + 1]
  /\ \A k \in 1 .. nextLeafIndex : \E i \in DepositsIn(events) : events[i].index = k - 1

LEMMA Published ==
  ASSUME NEW es \in Seq(Promise!Event), NEW e \in Promise!Event
  PROVE  /\ Append(es, e) \in Seq(Promise!Event)
         /\ Append(es, e)[Len(es) + 1] = e
         /\ \A i \in DOMAIN es : Append(es, e)[i] = es[i]
         /\ Len(es) + 1 \notin DepositsIn(es)
         /\ DepositsIn(Append(es, e)) =
              IF e.topic = "deposit" THEN DepositsIn(es) \cup {Len(es) + 1} ELSE DepositsIn(es)
<1>1. PICK n \in Nat, more \in Seq(Promise!Event) :
        n = Len(es) /\ more = Append(es, e) /\ DOMAIN es = 1 .. n /\ DOMAIN more = 1 .. n + 1
  <2>1. Append(es, e) \in Seq(Promise!Event) /\ Len(es) \in Nat
    OBVIOUS
  <2>2. DOMAIN es = 1 .. Len(es) /\ DOMAIN Append(es, e) = 1 .. Len(es) + 1
    OBVIOUS
  <2> QED
    BY <2>1, <2>2, Zenon
<1>2. more[n + 1] = e /\ \A i \in 1 .. n : more[i] = es[i]
  BY <1>1
<1>3. \A i : i \in 1 .. n + 1 <=> i \in 1 .. n \/ i = n + 1
  OBVIOUS
<1>4. n + 1 \notin 1 .. n
  OBVIOUS
<1>5. DepositsIn(more) = IF e.topic = "deposit" THEN DepositsIn(es) \cup {n + 1} ELSE DepositsIn(es)
  <2>1. ASSUME NEW i
        PROVE  i \in DepositsIn(more)
                 <=> i \in DepositsIn(es) \/ (e.topic = "deposit" /\ i = n + 1)
    BY <1>1, <1>2, <1>3, <1>4, Zenon DEF DepositsIn
  <2> QED
    BY <2>1, Zenon
<1> QED
  BY <1>1, <1>2, <1>4, <1>5, Zenon DEF DepositsIn

LEMMA ReplayInit == Init => Replay
<1> SUFFICES ASSUME Init PROVE Replay
  OBVIOUS
<1>1. events = << >> /\ nextLeafIndex = 0
  BY DEF Init
<1>2. DepositsIn(events) = {}
  BY <1>1 DEF DepositsIn
<1>3. IsFiniteSet({}) /\ Cardinality({}) = 0
  BY FS_EmptySet
<1>4. 1 .. 0 = {} /\ << >> \in Seq(Promise!Event)
  OBVIOUS
<1> QED
  BY <1>1, <1>2, <1>3, <1>4, Zenon DEF Replay

\* What a step publishes.
LEMMA EventCases ==
  ASSUME [Next]_vars
  PROVE  \/ events' = events /\ Kept
         \/ Kept /\ \E nh \in NullifierHash : events' = Append(events, Promise!WithdrawalEvent(nh))
         \/ ~initialized /\ events' = events /\ nextLeafIndex' = 0
         \/ \E depositor \in Promise!Users, c \in Commitment : DepositOk(depositor, c)
<1>1. CASE UNCHANGED vars
  BY <1>1 DEF vars, Kept
<1>2. ASSUME NEW op, NEW outcome, Fail(op, outcome)
      PROVE  events' = events /\ Kept
  BY <1>2 DEF Fail, contractVars, Kept
<1>7. ASSUME NEW op, NEW outcome, TokenRefuses(op, outcome)
      PROVE  events' = events /\ Kept
  BY <1>7 DEF TokenRefuses, contractVars, Kept
<1>3. ASSUME NEW root \in SeenRoots, NEW nh \in NullifierHash,
             NEW recipient \in Address, NEW relayer \in Address, NEW fee \in Fees,
             NEW proof \in ProofsAgainst(PublicInputs(root, nh, recipient, relayer, fee)),
             WithdrawOk(proof, root, nh, recipient, relayer, fee)
      PROVE  Kept /\ events' = Append(events, Promise!WithdrawalEvent(nh))
  BY <1>3 DEF WithdrawOk, Kept
<1>4. ASSUME NEW from \in Promise!Users, NEW to \in Address, NEW amount \in 1 .. balance[from],
             TokenTransfer(from, to, amount)
      PROVE  events' = events /\ Kept
  BY <1>4 DEF TokenTransfer, Kept
<1>5. ASSUME NEW denomination, NEW maxFee, NEW depth, NEW size,
             InitializeOk(denomination, maxFee, depth, size)
      PROVE  ~initialized /\ events' = events /\ nextLeafIndex' = 0
  BY <1>5 DEF InitializeOk, InitializeOutcome
<1>6. CASE Next
  <2>1. ASSUME NEW op, NEW outcome, Fail(op, outcome) \/ TokenRefuses(op, outcome)
        PROVE  events' = events /\ Kept
    BY <1>2, <1>7, <2>1, Zenon
  <2>2. CASE \E denomination \in Denominations, maxFee \in MaxFees,
               depth \in Depths, size \in HistorySizes :
               \/ Fail("initialize", InitializeOutcome(denomination, depth, size))
               \/ InitializeOk(denomination, maxFee, depth, size)
    BY <1>5, <2>1, <2>2, Zenon
  <2>3. CASE \E depositor \in Promise!Users, c \in Commitment :
               \/ Fail("deposit", DepositOutcome(depositor, c))
               \/ TokenRefuses("deposit", DepositOutcome(depositor, c))
               \/ DepositOk(depositor, c)
    BY <2>1, <2>3, Zenon
  <2>4. CASE \E root \in SeenRoots, nh \in NullifierHash,
               recipient, relayer \in Address, fee \in Fees :
               \E proof \in ProofsAgainst(PublicInputs(root, nh, recipient, relayer, fee)) :
                 \/ Fail("withdraw", WithdrawOutcome(proof, root, nh, recipient, relayer, fee))
                 \/ TokenRefuses("withdraw",
                                 WithdrawOutcome(proof, root, nh, recipient, relayer, fee))
                 \/ WithdrawOk(proof, root, nh, recipient, relayer, fee)
    <3>1. PICK root \in SeenRoots, nh \in NullifierHash,
               recipient \in Address, relayer \in Address, fee \in Fees :
            \E proof \in ProofsAgainst(PublicInputs(root, nh, recipient, relayer, fee)) :
              \/ Fail("withdraw", WithdrawOutcome(proof, root, nh, recipient, relayer, fee))
              \/ TokenRefuses("withdraw",
                              WithdrawOutcome(proof, root, nh, recipient, relayer, fee))
              \/ WithdrawOk(proof, root, nh, recipient, relayer, fee)
      BY <2>4, Zenon
    <3>2. PICK proof \in ProofsAgainst(PublicInputs(root, nh, recipient, relayer, fee)) :
            \/ Fail("withdraw", WithdrawOutcome(proof, root, nh, recipient, relayer, fee))
            \/ TokenRefuses("withdraw",
                            WithdrawOutcome(proof, root, nh, recipient, relayer, fee))
            \/ WithdrawOk(proof, root, nh, recipient, relayer, fee)
      BY <3>1, Zenon
    <3> QED
      BY <1>3, <2>1, <3>2, Zenon
  <2>5. CASE \E from \in Promise!Users, to \in Address :
               \E amount \in 1 .. balance[from] : TokenTransfer(from, to, amount)
    BY <1>4, <2>5, Zenon
  <2> QED
    BY <1>6, <2>2, <2>3, <2>4, <2>5, Zenon DEF Next
<1> QED
  BY <1>1, <1>6

LEMMA ReplayStep ==
  ASSUME IInv, Replay, [Next]_vars
  PROVE  Replay'
<1>1. CASE events' = events /\ Kept
  <2>1. nextLeafIndex' = nextLeafIndex /\ leavesBar' = leavesBar
    BY <1>1 DEF Kept, leavesBar
  <2> QED
    BY <1>1, <2>1, Zenon DEF Replay
<1>2. ASSUME Kept, NEW nh \in NullifierHash, events' = Append(events, Promise!WithdrawalEvent(nh))
      PROVE  Replay'
  <2>1. nextLeafIndex' = nextLeafIndex /\ leavesBar' = leavesBar
    BY <1>2 DEF Kept, leavesBar
  <2>2. PICK e \in Promise!Event : e = Promise!WithdrawalEvent(nh) /\ e.topic # "deposit"
    <3>1. Promise!WithdrawalEvent(nh) \in Promise!Event
      BY DEF Promise!WithdrawalEvent, Promise!Event
    <3>2. Promise!WithdrawalEvent(nh).topic # "deposit"
      BY DEF Promise!WithdrawalEvent
    <3> QED
      BY <3>1, <3>2, Zenon
  <2>3. /\ events' \in Seq(Promise!Event)
        /\ DepositsIn(events') = DepositsIn(events)
        /\ \A i \in DepositsIn(events) : events'[i] = events[i]
    <3>1. events \in Seq(Promise!Event)
      BY DEF Replay
    <3>2. /\ Append(events, e) \in Seq(Promise!Event)
          /\ \A i \in DOMAIN events : Append(events, e)[i] = events[i]
          /\ DepositsIn(Append(events, e)) = DepositsIn(events)
      BY <2>2, <3>1, Published
    <3> QED
      BY <1>2, <2>2, <3>2, Zenon DEF DepositsIn
  <2> QED
    BY <2>1, <2>3, Zenon DEF Replay
<1>3. CASE ~initialized /\ events' = events /\ nextLeafIndex' = 0
  <2>1. nextLeafIndex = 0
    BY <1>3 DEF IInv, Setup
  <2>2. 0 .. 0 - 1 = {} /\ 1 .. 0 = {}
    OBVIOUS
  <2>3. DepositsIn(events) = {}
    BY <2>1, <2>2, Zenon DEF Replay
  <2> QED
    BY <1>3, <2>1, <2>2, <2>3, Zenon DEF Replay
<1>4. ASSUME NEW depositor \in Promise!Users, NEW c \in Commitment, DepositOk(depositor, c)
      PROVE  Replay'
  <2>1. PICK d \in Nat \ {0}, n \in Nat, ls \in Seq(Commitment), size \in Nat \ {0} :
          DepositFacts(c, d, n, ls, size)
    BY <1>4, DepositDoes
  <2>2. n = nextLeafIndex /\ nextLeafIndex' = n + 1 /\ ls = leavesBar /\ Len(ls) = n
        /\ leavesBar' = Append(ls, c)
    BY <2>1, Zenon DEF DepositFacts
  <2>3. PICK e \in Promise!Event : e = Promise!DepositEvent(c, n) /\ e.topic = "deposit"
                                   /\ e.index = n /\ e.commitment = c
    <3>1. Promise!DepositEvent(c, n) \in Promise!Event
      BY DEF Promise!DepositEvent, Promise!Event
    <3>2. /\ Promise!DepositEvent(c, n).topic = "deposit"
          /\ Promise!DepositEvent(c, n).index = n /\ Promise!DepositEvent(c, n).commitment = c
      BY DEF Promise!DepositEvent
    <3> QED
      BY <3>1, <3>2, Zenon
  <2>4. events' = Append(events, e)
    BY <1>4, <2>2, <2>3 DEF DepositOk
  <2>5. PICK es, D : es \in Seq(Promise!Event) /\ es = events /\ D = DepositsIn(es)
    BY Zenon DEF Replay
  <2>6. PICK more, last : more = events' /\ last = Len(es) + 1
    OBVIOUS
  <2>7. /\ more \in Seq(Promise!Event)
        /\ more[last] = e
        /\ \A i \in DOMAIN es : more[i] = es[i]
        /\ last \notin D
        /\ DepositsIn(more) = D \cup {last}
    <3>1. /\ Append(es, e) \in Seq(Promise!Event)
          /\ Append(es, e)[Len(es) + 1] = e
          /\ \A i \in DOMAIN es : Append(es, e)[i] = es[i]
          /\ Len(es) + 1 \notin DepositsIn(es)
          /\ DepositsIn(Append(es, e)) = DepositsIn(es) \cup {Len(es) + 1}
      BY <2>3, <2>5, Published
    <3>2. more = Append(es, e)
      BY <2>4, <2>5, <2>6, Zenon
    <3> QED
      BY <2>5, <2>6, <3>1, <3>2, Zenon
  <2>8. /\ IsFiniteSet(D) /\ Cardinality(D) = n
        /\ \A i \in D : es[i].index \in 0 .. n - 1 /\ es[i].commitment = ls[es[i].index + 1]
        /\ \A k \in 1 .. n : \E i \in D : es[i].index = k - 1
    BY <2>2, <2>5, Zenon DEF Replay
  <2>9. IsFiniteSet(D \cup {last}) /\ Cardinality(D \cup {last}) = n + 1
    BY <2>7, <2>8, FS_AddElement
  <2>10. \A i \in D : more[i] = es[i]
    BY <2>5, <2>7, Zenon DEF DepositsIn
  <2>11. ASSUME NEW i \in D \cup {last}
         PROVE  /\ more[i].index \in 0 .. (n + 1) - 1
                /\ more[i].commitment = Append(ls, c)[more[i].index + 1]
    <3>1. CASE i \in D
      <4>1. PICK k \in 0 .. n - 1 : k = es[i].index
        BY <2>8, <3>1
      <4>2. Append(ls, c)[k + 1] = ls[k + 1]
        BY <2>2
      <4>3. k \in 0 .. (n + 1) - 1
        OBVIOUS
      <4> QED
        BY <2>8, <2>10, <3>1, <4>1, <4>2, <4>3, Zenon
    <3>2. CASE i = last
      <4>1. Append(ls, c)[n + 1] = c /\ n \in 0 .. (n + 1) - 1
        BY <2>2
      <4> QED
        BY <2>3, <2>7, <3>2, <4>1, Zenon
    <3> QED
      BY <3>1, <3>2
  <2>12. ASSUME NEW k \in 1 .. n + 1
         PROVE  \E i \in D \cup {last} : more[i].index = k - 1
    <3>1. CASE k = n + 1
      <4>1. more[last].index = k - 1
        BY <2>3, <2>7, <3>1
      <4> QED
        BY <4>1
    <3>2. CASE k # n + 1
      <4>1. k \in 1 .. n
        BY <3>2
      <4> QED
        BY <2>8, <2>10, <4>1, Zenon
    <3> QED
      BY <3>1, <3>2
  <2> QED
    BY <2>2, <2>6, <2>7, <2>9, <2>11, <2>12, Zenon DEF Replay
<1> QED
  BY <1>1, <1>2, <1>3, <1>4, EventCases

\* The client's leaves, put together from the events by their indices.
Numbered(k) == CHOOSE i \in DepositsIn(events) : events[i].index = k - 1

Replayed == [k \in 1 .. Cardinality(DepositsIn(events)) |-> events[Numbered(k)].commitment]

LEMMA ReplayedLeaves ==
  ASSUME IInv, Replay
  PROVE  Replayed = leavesBar
<1>1. PICK n \in Nat : n = nextLeafIndex
  BY DEF IInv, Setup
<1>2. PICK ls \in Seq(Commitment) : ls = leavesBar /\ ls = [k \in 1 .. n |-> ls[k]]
  <2>1. leavesBar = [i \in 1 .. n |-> merkleNode[<<0, i - 1>>]]
    BY <1>1 DEF leavesBar
  <2> QED
    BY <2>1 DEF IInv, Nodes
<1>3. ASSUME NEW k \in 1 .. n
      PROVE  events[Numbered(k)].commitment = ls[k]
  <2>1. \E i \in DepositsIn(events) : events[i].index = k - 1
    BY <1>1, Zenon DEF Replay
  <2>2. Numbered(k) \in DepositsIn(events) /\ events[Numbered(k)].index = k - 1
    BY <2>1, Zenon DEF Numbered
  <2>3. events[Numbered(k)].commitment = ls[events[Numbered(k)].index + 1]
    BY <1>2, <2>2, Zenon DEF Replay
  <2>4. (k - 1) + 1 = k
    OBVIOUS
  <2> QED
    BY <2>2, <2>3, <2>4, Zenon
<1>4. Replayed = [k \in 1 .. n |-> events[Numbered(k)].commitment]
  BY <1>1, Zenon DEF Replay, Replayed
<1> QED
  BY <1>2, <1>3, <1>4

\* The hash get_root reads, the newest entry of the history and the root of a tree
\* rebuilt from the deposit events are one (push_root_history, get_current_root,
\* the mirrors' rebuild).
THEOREM NewestRoot == Spec => []NewestRootIsCurrent
<1>1. IInv /\ Replay => NewestRootIsCurrent
  <2> SUFFICES ASSUME IInv, Replay PROVE NewestRootIsCurrent
    OBVIOUS
  <2>1. NewestRootIsCurrent <=>
          (initialized =>
             /\ rootHashes[(rootHistoryIndex + config.rootHistorySize - 1) % config.rootHistorySize]
                  = GetCurrentRoot(merkleNode, config.treeDepth)
             /\ rootHashes[(rootHistoryIndex + config.rootHistorySize - 1) % config.rootHistorySize]
                  = TreeRoot(Replayed, config.treeDepth))
    BY DEF NewestRootIsCurrent, TreeRoot, Replayed, Numbered, DepositsIn
  <2> SUFFICES ASSUME initialized
               PROVE  /\ rootHashes[(rootHistoryIndex + config.rootHistorySize - 1) % config.rootHistorySize]
                           = GetCurrentRoot(merkleNode, config.treeDepth)
                      /\ rootHashes[(rootHistoryIndex + config.rootHistorySize - 1) % config.rootHistorySize]
                           = TreeRoot(Replayed, config.treeDepth)
    BY <2>1
  <2>2. PICK size \in Nat \ {0}, d \in Nat \ {0} : size = config.rootHistorySize /\ d = config.treeDepth
    BY StorageAssumption DEF IInv, Setup
  <2>3. PICK w \in 0 .. size - 1 :
          /\ rootHistoryIndex = (w + 1) % size
          /\ rootHashes[w] = GetCurrentRoot(merkleNode, d)
    BY <2>2, Zenon DEF IInv, Newest
  <2>4. (rootHistoryIndex + size - 1) % size = w
    BY <2>3, NextPlace, Zenon
  <2>5. GetCurrentRoot(merkleNode, d) = TreeRoot(leavesBar, d)
    <3>1. PICK n \in Nat : n = nextLeafIndex
      BY DEF IInv, Setup
    <3>2. leavesBar \in Seq(Commitment) /\ Len(leavesBar) = n
      BY <3>1 DEF IInv, Nodes, leavesBar
    <3>3. Grown(merkleNode, leavesBar, Len(leavesBar), d)
      BY <2>2, <3>1, <3>2, Zenon DEF IInv, Nodes
    <3> QED
      BY <3>2, <3>3, NodesRoot DEF Grown
  <2> QED
    BY <2>2, <2>3, <2>4, <2>5, ReplayedLeaves, Zenon
<1>2. IInv /\ Replay /\ [Next]_vars => Replay'
  BY ReplayStep
<1> QED
  BY <1>1, <1>2, ReplayInit, Invariance, PTL DEF Spec

(***************************************************************************)
(* The refinement: a hash of the tree's history, and the row of leaves     *)
(* MixerPool has in its place.                                             *)
(***************************************************************************)

\* Rows of different depths have different lengths.
LEMMA PowersDiffer ==
  ASSUME NEW m \in Nat, NEW n \in Nat, Pow2[m] = Pow2[n]
  PROVE  m = n
<1>1. ASSUME NEW a \in Nat, NEW b \in Nat, a < b
      PROVE  Pow2[a] # Pow2[b]
  <2>1. PICK c \in Nat : b = a + (c + 1) /\ c + 1 \in Nat
    <3>1. b - a - 1 \in Nat /\ b = a + ((b - a - 1) + 1) /\ (b - a - 1) + 1 \in Nat
      BY <1>1
    <3> QED
      BY <3>1, Zenon
  <2>2. PICK p \in Nat \ {0}, q \in Nat \ {0} : p = Pow2[a] /\ q = Pow2[c]
    BY Pow2Step
  <2>3. Pow2[a + (c + 1)] = Pow2[a] * Pow2[c + 1]
    BY <2>1, Pow2Sum
  <2>4. Pow2[b] = p * (2 * q)
    BY <2>1, <2>2, <2>3, Pow2Step
  <2>5. p * (2 * q) # p
    <3>1. p * (2 * q) = p * q + p * q
      OBVIOUS
    <3>2. p * q >= p
      OBVIOUS
    <3> QED
      BY <3>1, <3>2
  <2> QED
    BY <2>2, <2>4, <2>5
<1>2. m < n \/ n < m \/ m = n
  OBVIOUS
<1> QED
  BY <1>1, <1>2

\* The row of a prefix.
LEMMA PrefixRow ==
  ASSUME NEW depth \in Nat \ {0}, NEW ls \in Seq(Commitment), NEW k \in 0 .. Len(ls)
  PROVE  RowOf(TreeRoot(SubSeq(ls, 1, k), depth), depth) = Promise!RootOf(ls, k, depth)
<1>1. PICK ms \in Seq(Commitment) :
        ms = SubSeq(ls, 1, k) /\ Len(ms) = k /\ \A i \in 1 .. k : ms[i] = ls[i]
  <2>1. SubSeq(ls, 1, k) \in Seq(Commitment) /\ Len(SubSeq(ls, 1, k)) = k
    OBVIOUS
  <2>2. \A i \in 1 .. k : SubSeq(ls, 1, k)[i] = ls[i]
    OBVIOUS
  <2> QED
    BY <2>1, <2>2, Zenon
<1>2. RowOf(TreeRoot(ms, depth), depth) = Promise!RootOf(ms, k, depth)
  BY <1>1, MirrorRow
<1>3. PICK last : last = Promise!Pow2[depth] - 1
  OBVIOUS
<1>4. \A i \in 0 .. last : i < k => ms[i + 1] = ls[i + 1]
  BY <1>1
<1>5. [i \in 0 .. last |-> IF i < k THEN BytesToFr[ms[i + 1]] ELSE ZeroLeaf]
        = [i \in 0 .. last |-> IF i < k THEN BytesToFr[ls[i + 1]] ELSE ZeroLeaf]
  BY <1>4, Zenon
<1> QED
  BY <1>1, <1>2, <1>3, <1>5, Zenon DEF Promise!RootOf

\* The row before initialize: the depth is unset, and reads as 0.
LEMMA UnsetRow == RowOf(TreeRoot(<< >>, 0), 0) = Promise!RootOf(<< >>, 0, 0)
<1>1. TreeRoot(<< >>, 0) = ZeroLeaf
  <2>1. PICK t : /\ t[0][0] = TreeRoot(<< >>, 0)
                 /\ \A i \in Nat : t[0][i] = IF i < Len(<< >>) THEN << >>[i + 1] ELSE ZeroLeaf
    <3>1. << >> \in Seq(Commitment) /\ 0 \in Nat
      OBVIOUS
    <3>2. \E x : TreeOver(x, << >>, 0)
      BY <3>1, MirrorTree, Zenon
    <3> QED
      BY <3>2, Zenon DEF TreeOver
  <2>2. ~(0 < Len(<< >>)) /\ 0 \in Nat
    OBVIOUS
  <2> QED
    BY <2>1, <2>2, Zenon
<1>2. ASSUME NEW i
      PROVE  Descend(ZeroLeaf, i, 0)[0] = ZeroLeaf
  <2>1. PICK table :
          /\ table = [level \in 0 .. 0 |-> DescendRound(table, ZeroLeaf, i, 0, level)]
          /\ Descend(ZeroLeaf, i, 0) = table
    <3>1. 0 \in Nat
      OBVIOUS
    <3> QED
      BY <3>1, DescendTable
  <2>2. 0 \in 0 .. 0
    OBVIOUS
  <2> QED
    BY <2>1, <2>2, Zenon DEF DescendRound
<1>3. Promise!Pow2[0] - 1 = 0 /\ Pow2[0] - 1 = 0
  BY Pow2Step DEF Promise!Pow2, Pow2
<1>4. RowOf(ZeroLeaf, 0) = [i \in 0 .. 0 |-> ZeroLeaf]
  BY <1>2, <1>3, Zenon DEF RowOf
<1>5. Promise!RootOf(<< >>, 0, 0) = [i \in 0 .. 0 |-> ZeroLeaf]
  <2>1. \A i \in 0 .. 0 : ~(i < 0)
    OBVIOUS
  <2>2. [i \in 0 .. 0 |-> IF i < 0 THEN BytesToFr[<< >>[i + 1]] ELSE ZeroLeaf]
          = [i \in 0 .. 0 |-> ZeroLeaf]
    BY <2>1, Zenon
  <2> QED
    BY <1>3, <2>2, Zenon DEF Promise!RootOf
<1> QED
  BY <1>1, <1>4, <1>5

\* A row's length tells its depth, and its root is that of a tree over the row.
LEMMA RowRootIs ==
  ASSUME NEW d \in 0 .. WordBits, NEW row, DOMAIN row = 0 .. Pow2[d] - 1
  PROVE  RowRoot(row) = TreeRoot([i \in 1 .. Pow2[d] |-> row[i - 1]], d)
<1>1. ASSUME NEW e \in 0 .. WordBits, DOMAIN row = 0 .. Pow2[e] - 1
      PROVE  e = d
  <2>1. d \in Nat /\ e \in Nat
    BY StorageAssumption
  <2>2. PICK a \in Nat \ {0}, b \in Nat \ {0} : a = Pow2[d] /\ b = Pow2[e]
    BY <2>1, Pow2Step
  <2>3. 0 .. a - 1 = 0 .. b - 1 => a = b
    OBVIOUS
  <2>4. Pow2[d] = Pow2[e]
    BY <1>1, <2>2, <2>3
  <2> QED
    BY <2>1, <2>4, PowersDiffer
<1>2. (CHOOSE e \in 0 .. WordBits : DOMAIN row = 0 .. Pow2[e] - 1) = d
  BY <1>1, Zenon
<1> QED
  BY <1>2, Zenon DEF RowRoot, TreeRoot

\* The root of the row of a root is that root again.
LEMMA RowRootOf ==
  ASSUME NEW d \in 1 .. WordBits, NEW ls \in Seq(Commitment), Len(ls) <= Pow2[d]
  PROVE  RowRoot(RowOf(TreeRoot(ls, d), d)) = TreeRoot(ls, d)
<1>1. d \in Nat \ {0} /\ d \in 0 .. WordBits
  BY StorageAssumption
<1>2. PICK m \in Nat : m = Pow2[d]
  BY <1>1, Pow2Step
<1>3. PICK t : /\ HangsTogether(t, d)
               /\ t[d][0] = TreeRoot(ls, d)
               /\ \A i \in Nat : t[0][i] = IF i < Len(ls) THEN ls[i + 1] ELSE ZeroLeaf
  <2>1. \E x : TreeOver(x, ls, d)
    BY <1>1, MirrorTree, Zenon
  <2> QED
    BY <2>1, Zenon DEF TreeOver
<1>4. PICK row : row = RowOf(TreeRoot(ls, d), d) /\ row = [i \in 0 .. m - 1 |-> ToFr(0, t[0][i])]
  BY <1>1, <1>2, <1>3, RowOfTree
<1>5. PICK ms : ms = [i \in 1 .. m |-> row[i - 1]] /\ Len(ms) = m
  <2>1. PICK ms : ms = [i \in 1 .. m |-> row[i - 1]]
    OBVIOUS
  <2>2. ms = [i \in 1 .. m |-> ms[i]]
    BY <2>1
  <2>3. Len(ms) = m
    BY <2>2, LengthOf
  <2> QED
    BY <2>1, <2>3, Zenon
<1>6. RowRoot(row) = TreeRoot(ms, d)
  <2>1. DOMAIN row = 0 .. Pow2[d] - 1
    BY <1>2, <1>4
  <2> QED
    BY <1>1, <1>2, <1>5, <2>1, RowRootIs, Zenon
<1>7. PICK u : /\ HangsTogether(u, d)
               /\ u[d][0] = TreeRoot(ms, d)
               /\ \A i \in Nat : u[0][i] = IF i < m THEN ms[i + 1] ELSE ZeroLeaf
  <2>1. Len(ms) \in Nat /\ d \in Nat
    BY <1>1, <1>5
  <2>2. PICK u : /\ HangsTogether(u, d)
                 /\ u[d][0] = TreeRoot(ms, d)
                 /\ \A i \in Nat : u[0][i] = IF i < Len(ms) THEN ms[i + 1] ELSE ZeroLeaf
    <3>1. \E x : TreeOver(x, ms, d)
      BY <2>1, RebuiltTree, Zenon
    <3> QED
      BY <3>1, Zenon DEF TreeOver
  <2> QED
    BY <1>5, <2>2, Zenon
<1>8. ASSUME NEW i \in Nat
      PROVE  ToFr(0, u[0][i]) = ToFr(0, t[0][i])
  <2>1. CASE i < m
    <3>1. i + 1 \in 1 .. m /\ (i + 1) - 1 = i /\ i \in 0 .. m - 1
      BY <2>1
    <3>2. u[0][i] = ToFr(0, t[0][i])
      BY <1>4, <1>5, <1>7, <2>1, <3>1, Zenon
    <3> QED
      BY <3>2, ToFrTwice, Zenon
  <2>2. CASE ~(i < m)
    <3>1. ~(i < Len(ls))
      BY <1>2, <2>2
    <3> QED
      BY <1>3, <1>7, <2>2, <3>1, Zenon
  <2> QED
    BY <2>1, <2>2
<1>9. \A level \in 1 .. d, i \in Nat : u[level][i] = t[level][i]
  BY <1>1, <1>3, <1>7, <1>8, SameTree
<1>10. d \in 1 .. d /\ 0 \in Nat
  BY <1>1
<1> QED
  BY <1>3, <1>4, <1>6, <1>7, <1>9, <1>10, Zenon

\* So it is before initialize, where the depth reads as 0.
LEMMA UnsetRowRoot == RowRoot(RowOf(TreeRoot(<< >>, 0), 0)) = TreeRoot(<< >>, 0)
<1>1. PICK t : /\ t[0][0] = TreeRoot(<< >>, 0)
               /\ \A i \in Nat : t[0][i] = IF i < Len(<< >>) THEN << >>[i + 1] ELSE ZeroLeaf
  <2>1. << >> \in Seq(Commitment) /\ 0 \in Nat
    OBVIOUS
  <2>2. \E x : TreeOver(x, << >>, 0)
    BY <2>1, MirrorTree, Zenon
  <2> QED
    BY <2>2, Zenon DEF TreeOver
<1>2. TreeRoot(<< >>, 0) = ZeroLeaf
  <2>1. ~(0 < Len(<< >>)) /\ 0 \in Nat
    OBVIOUS
  <2> QED
    BY <1>1, <2>1, Zenon
<1>3. Pow2[0] = 1
  BY Pow2Step
<1>4. PICK row : row = RowOf(TreeRoot(<< >>, 0), 0) /\ row = [i \in 0 .. 0 |-> ZeroLeaf]
  <2>1. Promise!RootOf(<< >>, 0, 0) = [i \in 0 .. 0 |-> ZeroLeaf]
    <3>1. Promise!Pow2[0] - 1 = 0
      BY <1>3 DEF Promise!Pow2, Pow2
    <3>2. \A i \in 0 .. 0 : ~(i < 0)
      OBVIOUS
    <3>3. [i \in 0 .. 0 |-> IF i < 0 THEN BytesToFr[<< >>[i + 1]] ELSE ZeroLeaf]
            = [i \in 0 .. 0 |-> ZeroLeaf]
      BY <3>2, Zenon
    <3> QED
      BY <3>1, <3>3, Zenon DEF Promise!RootOf
  <2> QED
    BY <2>1, UnsetRow, Zenon
<1>5. PICK ms : ms = [i \in 1 .. 1 |-> row[i - 1]] /\ Len(ms) = 1 /\ ms[1] = ZeroLeaf
  <2>1. PICK ms : ms = [i \in 1 .. 1 |-> row[i - 1]]
    OBVIOUS
  <2>2. ms = [i \in 1 .. 1 |-> ms[i]] /\ 1 \in Nat
    BY <2>1
  <2>3. Len(ms) = 1
    BY <2>2, LengthOf
  <2>4. ms[1] = ZeroLeaf
    BY <1>4, <2>1
  <2> QED
    BY <2>1, <2>3, <2>4, Zenon
<1>6. RowRoot(row) = TreeRoot(ms, 0)
  <2>1. 0 \in 0 .. WordBits
    BY StorageAssumption
  <2>2. DOMAIN row = 0 .. Pow2[0] - 1
    BY <1>3, <1>4
  <2>3. RowRoot(row) = TreeRoot([i \in 1 .. Pow2[0] |-> row[i - 1]], 0)
    BY <2>1, <2>2, RowRootIs
  <2> QED
    BY <1>3, <1>5, <2>3, Zenon
<1>7. TreeRoot(ms, 0) = ZeroLeaf
  <2>1. PICK u : /\ u[0][0] = TreeRoot(ms, 0)
                 /\ \A i \in Nat : u[0][i] = IF i < 1 THEN ms[i + 1] ELSE ZeroLeaf
    <3>1. Len(ms) \in Nat /\ 0 \in Nat
      BY <1>5
    <3>2. PICK u : /\ u[0][0] = TreeRoot(ms, 0)
                   /\ \A i \in Nat : u[0][i] = IF i < Len(ms) THEN ms[i + 1] ELSE ZeroLeaf
      <4>1. \E x : TreeOver(x, ms, 0)
        BY <3>1, RebuiltTree, Zenon
      <4> QED
        BY <4>1, Zenon DEF TreeOver
    <3> QED
      BY <1>5, <3>2, Zenon
  <2>2. 0 < 1 /\ 0 \in Nat /\ 0 + 1 = 1
    OBVIOUS
  <2> QED
    BY <1>5, <2>1, <2>2, Zenon
<1> QED
  BY <1>2, <1>4, <1>6, <1>7, Zenon

\* What MixerPool assumes of the circuit (CircuitAssumption) is true of the tree and
\* of the circuit's fold: in a tree of the circuit's depth a note opens a row, through
\* the one path the root admits from each index, exactly when its commitment is a leaf.
THEOREM LeavesOpen ==
  ASSUME CircuitDepth <= WordBits, NEW n \in Note, NEW row \in Promise!Rows(CircuitDepth)
  PROVE  OpensRow(n, row) <=> \E i \in DOMAIN row : row[i] = CommitmentOf[n]
<1>1. PICK d \in Nat \ {0} : d = CircuitDepth /\ d \in 0 .. WordBits
  BY StorageAssumption
<1>2. PICK m \in Nat : m = Pow2[d]
  BY Pow2Step
<1>3. DOMAIN row = 0 .. m - 1 /\ \A i \in 0 .. m - 1 : row[i] \in Fr
  <2>1. PICK W : W = {BytesToFr[c] : c \in Commitment} \cup {ZeroLeaf}
    OBVIOUS
  <2>2. W \subseteq Fr
    BY <2>1, TreeAssumption
  <2>3. row \in [0 .. m - 1 -> W]
    <3>1. Promise!Pow2[d] = m
      BY <1>2 DEF Promise!Pow2, Pow2
    <3> QED
      BY <1>1, <2>1, <3>1, Zenon DEF Promise!Rows
  <2> QED
    BY <2>2, <2>3
<1>4. PICK ms : ms = [i \in 1 .. m |-> row[i - 1]] /\ Len(ms) = m
  <2>1. PICK ms : ms = [i \in 1 .. m |-> row[i - 1]]
    OBVIOUS
  <2>2. ms = [i \in 1 .. m |-> ms[i]]
    BY <2>1
  <2>3. Len(ms) = m
    BY <2>2, LengthOf
  <2> QED
    BY <2>1, <2>3, Zenon
<1>5. RowRoot(row) = TreeRoot(ms, d)
  <2>1. DOMAIN row = 0 .. Pow2[d] - 1
    BY <1>2, <1>3
  <2> QED
    BY <1>1, <1>2, <1>4, <2>1, RowRootIs, Zenon
<1>6. PICK u : /\ HangsTogether(u, d)
               /\ u[d][0] = TreeRoot(ms, d)
               /\ \A i \in Nat : u[0][i] = IF i < Len(ms) THEN ms[i + 1] ELSE ZeroLeaf
  <2>1. Len(ms) \in Nat /\ d \in Nat
    BY <1>4
  <2>2. \E x : TreeOver(x, ms, d)
    BY <2>1, RebuiltTree, Zenon
  <2> QED
    BY <2>2, Zenon DEF TreeOver
<1>7. ASSUME NEW i \in 0 .. m - 1
      PROVE  FoldPath(CommitmentOf[n], PathTo(RowRoot(row), i), d) = RowRoot(row)
               <=> row[i] = CommitmentOf[n]
  <2>1. i \in Nat /\ i < m /\ i + 1 \in 1 .. m /\ (i + 1) - 1 = i
    OBVIOUS
  <2>2. u[0][i] = row[i]
    BY <1>4, <1>6, <2>1, Zenon
  <2>3. CommitmentOf[n] \in Fr
    BY StorageAssumption
  <2>4. FoldPath(CommitmentOf[n], PathTo(u[d][0], i), d) = u[d][0]
          <=> ToFr(0, u[0][i]) = CommitmentOf[n]
    BY <1>1, <1>2, <1>6, <2>3, PathOpens
  <2>5. ToFr(0, row[i]) = row[i]
    BY <1>3, ToFrOfFr
  <2> QED
    BY <1>5, <1>6, <2>2, <2>4, <2>5, Zenon
<1> QED
  BY <1>1, <1>2, <1>3, <1>7, Zenon DEF OpensRow, OpensRoot

\* The leaves so far.
LEMMA Leaves ==
  ASSUME IInv
  PROVE  \E n \in Nat, ls \in Seq(Commitment) :
           /\ n = nextLeafIndex /\ ls = leavesBar /\ Len(ls) = n
           /\ Promise!NextLeafIndex = n
           /\ initialized => n <= Pow2[config.treeDepth]
           /\ ~initialized => ls = << >> /\ n = 0
<1>1. PICK n \in Nat : n = nextLeafIndex
  BY DEF IInv, Setup
<1>2. PICK ls \in Seq(Commitment) : ls = leavesBar
  BY DEF IInv, Nodes
<1>3. Len(ls) = n
  BY <1>1, <1>2 DEF leavesBar
<1>4. Promise!NextLeafIndex = n
  BY <1>2, <1>3 DEF Promise!NextLeafIndex
<1>5. initialized => n <= Pow2[config.treeDepth]
  BY <1>1 DEF IInv, Setup
<1>6. ~initialized => ls = << >> /\ n = 0
  BY <1>1, <1>3 DEF IInv, Setup
<1> QED
  BY <1>1, <1>2, <1>3, <1>4, <1>5, <1>6, Zenon

\* A root a caller has seen is that of a prefix, and its row is the root that
\* MixerPool's caller has seen.
LEMMA SeenRow ==
  ASSUME IInv, NEW root \in SeenRoots
  PROVE  /\ RowOf(root, config.treeDepth) \in Promise!SeenRoots
         /\ \E k \in 0 .. nextLeafIndex : root = TreeRoot(SubSeq(leavesBar, 1, k), config.treeDepth)
<1>1. PICK n \in Nat, ls \in Seq(Commitment) :
        /\ n = nextLeafIndex /\ ls = leavesBar /\ Len(ls) = n
        /\ Promise!NextLeafIndex = n
        /\ initialized => n <= Pow2[config.treeDepth]
        /\ ~initialized => ls = << >> /\ n = 0
  BY Leaves
<1>2. PICK k \in 0 .. n : root = TreeRoot(SubSeq(ls, 1, k), config.treeDepth)
  BY <1>1, Zenon DEF SeenRoots, TreeRoot
<1>3. RowOf(root, config.treeDepth) = Promise!RootOf(ls, k, config.treeDepth)
  <2>1. CASE initialized
    <3>1. config.treeDepth \in Nat \ {0}
      BY <2>1, StorageAssumption DEF IInv, Setup
    <3> QED
      BY <1>1, <1>2, <3>1, PrefixRow
  <2>2. CASE ~initialized
    <3>1. config.treeDepth = 0
      BY <2>2 DEF IInv, Setup, Promise!Unset
    <3>2. ls = << >> /\ k = 0 /\ SubSeq(ls, 1, k) = << >>
      BY <1>1, <2>2
    <3> QED
      BY <1>2, <3>1, <3>2, UnsetRow
  <2> QED
    BY <2>1, <2>2
<1>4. RowOf(root, config.treeDepth) \in Promise!SeenRoots
  BY <1>1, <1>2, <1>3, Zenon DEF Promise!SeenRoots, Promise!RootAfter
<1> QED
  BY <1>1, <1>2, <1>4, Zenon

\* The row of a root a caller has seen leads back to that root.
LEMMA SeenRowRoot ==
  ASSUME IInv, NEW root \in SeenRoots
  PROVE  RowRoot(RowOf(root, config.treeDepth)) = root
<1>1. PICK n \in Nat, ls \in Seq(Commitment) :
        /\ n = nextLeafIndex /\ ls = leavesBar /\ Len(ls) = n
        /\ initialized => n <= Pow2[config.treeDepth]
        /\ ~initialized => ls = << >> /\ n = 0
  BY Leaves
<1>2. PICK k \in 0 .. n : root = TreeRoot(SubSeq(ls, 1, k), config.treeDepth)
  BY <1>1, SeenRow, Zenon
<1>3. CASE initialized
  <2>1. PICK d \in 1 .. WordBits : d = config.treeDepth
    BY <1>3 DEF IInv, Setup
  <2>2. PICK m \in Nat : m = Pow2[d]
    <3>1. d \in Nat
      BY StorageAssumption
    <3> QED
      BY <3>1, Pow2Step
  <2>3. SubSeq(ls, 1, k) \in Seq(Commitment) /\ Len(SubSeq(ls, 1, k)) = k
    BY <1>1
  <2>4. k <= Pow2[d]
    BY <1>1, <1>3, <2>1, <2>2
  <2>5. Len(SubSeq(ls, 1, k)) <= Pow2[d]
    BY <2>3, <2>4, Zenon
  <2> QED
    BY <1>2, <2>1, <2>3, <2>5, RowRootOf, Zenon
<1>4. CASE ~initialized
  <2>1. config.treeDepth = 0
    BY <1>4 DEF IInv, Setup, Promise!Unset
  <2>2. ls = << >> /\ k = 0 /\ SubSeq(ls, 1, k) = << >>
    BY <1>1, <1>4
  <2> QED
    BY <1>2, <2>1, <2>2, UnsetRowRoot, Zenon
<1> QED
  BY <1>3, <1>4

\* To the circuit, the hash and the row are the same root, in a tree of any depth.
LEMMA SameCircuit ==
  ASSUME IInv, NEW root \in SeenRoots, NEW nh, NEW recipient, NEW relayer, NEW fee
  PROVE  Circuit(PublicInputs(root, nh, recipient, relayer, fee))
           <=> Promise!Circuit(Promise!PublicInputs(RowOf(root, config.treeDepth),
                                                    nh, recipient, relayer, fee))
<1>1. PICK row : row = RowOf(root, config.treeDepth)
  OBVIOUS
<1>2. RowRoot(row) = root
  BY <1>1, SeenRowRoot
<1>3. /\ PublicInputs(root, nh, recipient, relayer, fee).root = root
      /\ PublicInputs(root, nh, recipient, relayer, fee).nullifierHash = BytesToFr[nh]
      /\ Promise!PublicInputs(row, nh, recipient, relayer, fee).root = row
      /\ Promise!PublicInputs(row, nh, recipient, relayer, fee).nullifierHash = BytesToFr[nh]
  BY DEF PublicInputs, Promise!PublicInputs
<1> QED
  BY <1>1, <1>2, <1>3, Zenon DEF Circuit, Promise!Circuit, OpensRow

\* What the scan of the history finds.
LEMMA SameKnown ==
  ASSUME IInv, initialized, NEW root \in SeenRoots
  PROVE  IsKnownRoot(root) <=> RowOf(root, config.treeDepth) \in Promise!KnownRoots
<1>1. PICK n \in Nat, ls \in Seq(Commitment) :
        n = nextLeafIndex /\ ls = leavesBar /\ Len(ls) = n /\ n <= Pow2[config.treeDepth]
  BY Leaves
<1>2. PICK d \in Nat \ {0} : d = config.treeDepth
  BY StorageAssumption DEF IInv, Setup
<1>3. PICK k \in 0 .. n : root = TreeRoot(SubSeq(ls, 1, k), d)
  BY <1>1, <1>2, SeenRow
<1>4. ASSUME NEW p \in DOMAIN rootHashes
      PROVE  rootHashes[p] = root <=> RowOf(rootHashes[p], d) = RowOf(root, d)
  <2>1. PICK j \in 0 .. n : rootHashes[p] = TreeRoot(SubSeq(ls, 1, j), d)
    BY <1>1, <1>2, Zenon DEF IInv, Roots
  <2>2. ASSUME NEW i \in 0 .. n
        PROVE  SubSeq(ls, 1, i) \in Seq(Commitment) /\ Len(SubSeq(ls, 1, i)) <= Pow2[d]
    <3>1. SubSeq(ls, 1, i) \in Seq(Commitment) /\ Len(SubSeq(ls, 1, i)) = i
      BY <1>1
    <3>2. PICK m \in Nat : m = Pow2[d]
      BY Pow2Step
    <3>3. i <= m
      BY <1>1, <1>2, <3>2
    <3> QED
      BY <3>1, <3>2, <3>3
  <2>3. RowOf(rootHashes[p], d) = RowOf(root, d) => rootHashes[p] = root
    <3>1. PICK a \in Seq(Commitment), b \in Seq(Commitment) :
            /\ a = SubSeq(ls, 1, j) /\ b = SubSeq(ls, 1, k)
            /\ Len(a) <= Pow2[d] /\ Len(b) <= Pow2[d]
      BY <2>2
    <3>2. RowOf(TreeRoot(a, d), d) = RowOf(TreeRoot(b, d), d) => TreeRoot(a, d) = TreeRoot(b, d)
      BY <3>1, RowDetermines
    <3> QED
      BY <1>3, <2>1, <3>1, <3>2, Zenon
  <2> QED
    BY <2>3, Zenon
<1>5. /\ DOMAIN rootHistoryBar = DOMAIN rootHashes
      /\ \A p \in DOMAIN rootHashes : rootHistoryBar[p] = RowOf(rootHashes[p], d)
  BY <1>2, Zenon DEF rootHistoryBar
<1>6. RowOf(root, d) \in Promise!KnownRoots
        <=> \E p \in (0 .. config.rootHistorySize - 1) \cap DOMAIN rootHashes :
              RowOf(rootHashes[p], d) = RowOf(root, d)
  BY <1>5, Zenon DEF Promise!KnownRoots
<1> QED
  BY <1>2, <1>4, <1>6, Zenon DEF IsKnownRoot

\* A step that leaves tree and history alone leaves leaves and rows alone.
LEMMA SameBars ==
  ASSUME Kept
  PROVE  leavesBar' = leavesBar /\ rootHistoryBar' = rootHistoryBar
BY DEF Kept, leavesBar, rootHistoryBar

LEMMA FailMaps ==
  ASSUME NEW op, NEW outcome, Fail(op, outcome)
  PROVE  Promise!Fail(op, outcome)
<1>1. Kept
  BY DEF Fail, contractVars, Kept
<1>2. outcome # "Ok" /\ result' = [op |-> op, outcome |-> outcome]
      /\ UNCHANGED <<initialized, config, rootHistoryIndex, commitmentInserted,
                     nullifierSpent, balance, events>>
  BY DEF Fail, contractVars, Answer
<1>3. leavesBar' = leavesBar /\ rootHistoryBar' = rootHistoryBar
  BY <1>1, SameBars
<1> QED
  BY <1>2, <1>3 DEF Promise!Fail, Promise!Answer, Promise!poolVars

LEMMA RefusesMaps ==
  ASSUME NEW op, NEW outcome, TokenRefuses(op, outcome)
  PROVE  Promise!TokenRefuses(op, outcome)
<1>1. Kept
  BY DEF TokenRefuses, contractVars, Kept
<1>2. outcome = "Ok" /\ result' = [op |-> op, outcome |-> "Refused"]
      /\ UNCHANGED <<initialized, config, rootHistoryIndex, commitmentInserted,
                     nullifierSpent, balance, events>>
  BY DEF TokenRefuses, contractVars, Answer
<1>3. leavesBar' = leavesBar /\ rootHistoryBar' = rootHistoryBar
  BY <1>1, SameBars
<1> QED
  BY <1>2, <1>3 DEF Promise!TokenRefuses, Promise!Answer, Promise!poolVars

\* The entry written is the row of the hash written.
LEMMA PushMaps ==
  ASSUME NEW depth, NEW root, NEW size, PushRootHistory(root, size), config'.treeDepth = depth,
         DOMAIN rootHashes # {} => config.treeDepth = depth
  PROVE  Promise!PushRoot(RowOf(root, depth), size)
<1>1. PICK hashes, at : hashes = rootHashes /\ at = rootHistoryIndex
  OBVIOUS
<1>2. /\ rootHashes' = [p \in DOMAIN hashes \cup {at} |-> IF p = at THEN root ELSE hashes[p]]
      /\ rootHistoryIndex' = (at + 1) % size
  BY <1>1, Zenon DEF PushRootHistory
<1>3. rootHistoryBar = [p \in DOMAIN hashes |-> RowOf(hashes[p], depth)]
  <2>1. rootHistoryBar = [p \in DOMAIN hashes |-> RowOf(hashes[p], config.treeDepth)]
    BY <1>1, Zenon DEF rootHistoryBar
  <2>2. CASE DOMAIN hashes = {}
    BY <2>1, <2>2
  <2>3. CASE DOMAIN hashes # {}
    BY <1>1, <2>1, <2>3, Zenon
  <2> QED
    BY <2>2, <2>3
<1>4. PICK places : places = DOMAIN hashes \cup {at}
  OBVIOUS
<1>5. rootHistoryBar' = [p \in places |-> RowOf(IF p = at THEN root ELSE hashes[p], depth)]
  <2>1. rootHistoryBar' = [p \in DOMAIN rootHashes' |-> RowOf(rootHashes'[p], depth)]
    BY DEF rootHistoryBar
  <2>2. PICK after : after = rootHashes'
                     /\ after = [p \in places |-> IF p = at THEN root ELSE hashes[p]]
    BY <1>2, <1>4, Zenon
  <2>3. DOMAIN after = places /\ \A p \in places : after[p] = IF p = at THEN root ELSE hashes[p]
    BY <2>2, Zenon
  <2>4. [p \in places |-> RowOf(after[p], depth)]
          = [p \in places |-> RowOf(IF p = at THEN root ELSE hashes[p], depth)]
    BY <2>3, Zenon
  <2> QED
    BY <2>1, <2>2, <2>3, <2>4, Zenon
<1>6. PICK rows : rows = rootHistoryBar /\ DOMAIN rows = DOMAIN hashes
                  /\ \A p \in DOMAIN hashes : rows[p] = RowOf(hashes[p], depth)
  <2>1. PICK rows : rows = [p \in DOMAIN hashes |-> RowOf(hashes[p], depth)]
    OBVIOUS
  <2>2. DOMAIN rows = DOMAIN hashes
    BY <2>1
  <2>3. \A p \in DOMAIN hashes : rows[p] = RowOf(hashes[p], depth)
    BY <2>1, Zenon
  <2> QED
    BY <1>3, <2>1, <2>2, <2>3, Zenon
<1>7. [p \in places |-> RowOf(IF p = at THEN root ELSE hashes[p], depth)]
        = [p \in places |-> IF p = at THEN RowOf(root, depth) ELSE rows[p]]
  <2>1. \A p \in places : p # at => p \in DOMAIN hashes
    BY <1>4
  <2> QED
    BY <1>6, <2>1, Zenon
<1>8. rootHistoryBar' = [p \in DOMAIN rootHistoryBar \cup {rootHistoryIndex} |->
                           IF p = rootHistoryIndex THEN RowOf(root, depth) ELSE rootHistoryBar[p]]
  BY <1>1, <1>4, <1>5, <1>6, <1>7, Zenon
<1> QED
  BY <1>1, <1>2, <1>8, Zenon DEF Promise!PushRoot

LEMMA InitializeMaps ==
  ASSUME IInv, NEW denomination, NEW maxFee, NEW depth \in Depths, NEW size \in HistorySizes,
         InitializeOk(denomination, maxFee, depth, size)
  PROVE  Promise!InitializeOk(denomination, maxFee, depth, size)
<1>1. /\ ~initialized /\ depth \in Nat \ {0}
      /\ nextLeafIndex' = nextLeafIndex /\ merkleNode' = merkleNode /\ config'.treeDepth = depth
      /\ DOMAIN rootHashes = {} /\ DOMAIN merkleNode = {}
  BY StorageAssumption DEF InitializeOk, InitializeOutcome, IInv, Setup
<1>2. leavesBar' = leavesBar /\ leavesBar = << >>
  <2>1. leavesBar' = leavesBar
    BY <1>1 DEF leavesBar
  <2>2. leavesBar = << >>
    BY <1>1, Leaves
  <2> QED
    BY <2>1, <2>2
<1>3. PICK root : root = GetCurrentRoot(merkleNode, depth)
  OBVIOUS
<1>4. RowOf(root, depth) = Promise!RootOf(leavesBar, 0, depth)
  <2>1. root = TreeRoot(<< >>, depth)
    BY <1>1, <1>3, GrownEmpty
  <2>2. << >> \in Seq(Commitment) /\ Len(<< >>) = 0
    OBVIOUS
  <2>3. RowOf(TreeRoot(<< >>, depth), depth) = Promise!RootOf(<< >>, Len(<< >>), depth)
    BY <1>1, <2>2, MirrorRow
  <2> QED
    BY <1>2, <2>1, <2>2, <2>3
<1>5. Promise!PushRoot(RowOf(root, depth), size)
  <2>1. PushRootHistory(root, size)
    BY <1>3 DEF InitializeOk
  <2> QED
    BY <1>1, <2>1, PushMaps
<1>6. /\ InitializeOutcome(denomination, depth, size) = "Ok"
      /\ result' = [op |-> "initialize", outcome |-> "Ok"]
      /\ initialized' = TRUE
      /\ config' = [denomination |-> denomination, maxFee |-> maxFee,
                    treeDepth |-> depth, rootHistorySize |-> size]
      /\ UNCHANGED <<commitmentInserted, nullifierSpent, balance, events>>
  BY DEF InitializeOk, Answer
<1>7. Promise!InitializeOutcome(denomination, depth, size) = "Ok"
  BY <1>6 DEF Promise!InitializeOutcome, InitializeOutcome
<1> QED
  BY <1>2, <1>4, <1>5, <1>6, <1>7 DEF Promise!InitializeOk, Promise!Answer

LEMMA SameDepositOutcome ==
  ASSUME IInv, NEW depositor, NEW c
  PROVE  DepositOutcome(depositor, c) = Promise!DepositOutcome(depositor, c)
<1>1. Promise!NextLeafIndex = nextLeafIndex
  BY Leaves
<1> QED
  BY <1>1, Zenon DEF DepositOutcome, Promise!DepositOutcome

LEMMA DepositMaps ==
  ASSUME IInv, NEW depositor, NEW c \in Commitment, DepositOk(depositor, c)
  PROVE  Promise!DepositOk(depositor, c)
<1>1. PICK d \in Nat \ {0}, n \in Nat, ls \in Seq(Commitment), size \in Nat \ {0} :
        DepositFacts(c, d, n, ls, size)
  BY DepositDoes
<1>2. /\ d = config.treeDepth /\ config' = config /\ size = config.rootHistorySize
      /\ n = nextLeafIndex /\ ls = leavesBar /\ Len(ls) = n /\ leavesBar' = Append(ls, c)
      /\ Append(ls, c) \in Seq(Commitment)
      /\ GetCurrentRoot(merkleNode', d) = TreeRoot(Append(ls, c), d)
  BY <1>1, Zenon DEF DepositFacts
<1>3. Promise!NextLeafIndex = n
  BY <1>2, Leaves
<1>4. PICK root : root = GetCurrentRoot(merkleNode', d)
  OBVIOUS
<1>5. RowOf(root, d) = Promise!RootOf(Append(ls, c), n + 1, d)
  <2>1. Len(Append(ls, c)) = n + 1
    BY <1>2
  <2>2. RowOf(TreeRoot(Append(ls, c), d), d) = Promise!RootOf(Append(ls, c), Len(Append(ls, c)), d)
    BY <1>2, MirrorRow
  <2> QED
    BY <1>2, <1>4, <2>1, <2>2
<1>6. Promise!PushRoot(RowOf(root, d), size)
  <2>1. PushRootHistory(root, size)
    BY <1>2, <1>4, Zenon DEF DepositOk
  <2>2. config'.treeDepth = d
    BY <1>2
  <2> QED
    BY <1>2, <2>1, <2>2, PushMaps
<1>7. Promise!PushRoot(Promise!RootOf(leavesBar', Promise!NextLeafIndex + 1, config.treeDepth),
                       config.rootHistorySize)
  BY <1>2, <1>3, <1>5, <1>6, Zenon
<1>8. Promise!DepositOutcome(depositor, c) = "Ok"
  BY SameDepositOutcome DEF DepositOk
<1>9. /\ result' = [op |-> "deposit", outcome |-> "Ok"]
      /\ balance' = Promise!Transfer(balance, depositor, Pool, config.denomination)
      /\ commitmentInserted' = commitmentInserted \cup {c}
      /\ events' = Append(events, Promise!DepositEvent(c, Promise!NextLeafIndex))
      /\ UNCHANGED <<initialized, config, nullifierSpent>>
  <2>1. Promise!NextLeafIndex = nextLeafIndex
    BY <1>2, <1>3
  <2> QED
    BY <2>1, Zenon DEF DepositOk, Answer
<1>10. leavesBar' = Append(leavesBar, c)
  BY <1>2
<1> QED
  BY <1>7, <1>8, <1>9, <1>10, Zenon DEF Promise!DepositOk, Promise!Answer

\* A proof of a statement about the hash, as one about the row.
LEMMA WithdrawMaps ==
  ASSUME IInv, NEW root \in SeenRoots, NEW nh \in NullifierHash,
         NEW recipient \in Address, NEW relayer \in Address, NEW fee \in Fees,
         NEW proof \in ProofsAgainst(PublicInputs(root, nh, recipient, relayer, fee)),
         \/ Fail("withdraw", WithdrawOutcome(proof, root, nh, recipient, relayer, fee))
         \/ TokenRefuses("withdraw", WithdrawOutcome(proof, root, nh, recipient, relayer, fee))
         \/ WithdrawOk(proof, root, nh, recipient, relayer, fee)
  PROVE  Promise!Next
<1>1. PICK row : row = RowOf(root, config.treeDepth)
  OBVIOUS
<1>2. row \in Promise!SeenRoots
  BY <1>1, SeenRow
<1>3. PICK b \in BOOLEAN :
        /\ proof = Promise!Proof(b, PublicInputs(root, nh, recipient, relayer, fee))
        /\ b => Circuit(PublicInputs(root, nh, recipient, relayer, fee))
  BY Zenon DEF ProofsAgainst
<1>4. PICK image : image = Promise!Proof(b, Promise!PublicInputs(row, nh, recipient, relayer, fee))
  OBVIOUS
<1>5. image \in Promise!ProofsAgainst(Promise!PublicInputs(row, nh, recipient, relayer, fee))
  <2>1. b => Promise!Circuit(Promise!PublicInputs(row, nh, recipient, relayer, fee))
    BY <1>1, <1>3, SameCircuit
  <2> QED
    BY <1>4, <2>1, Zenon DEF Promise!ProofsAgainst
<1>6. Promise!VerifyProof(proof, PublicInputs(root, nh, recipient, relayer, fee))
        <=> Promise!VerifyProof(image, Promise!PublicInputs(row, nh, recipient, relayer, fee))
  <2>1. proof.decodes = b /\ proof.statement = PublicInputs(root, nh, recipient, relayer, fee)
    BY <1>3 DEF Promise!Proof
  <2>2. image.decodes = b /\ image.statement = Promise!PublicInputs(row, nh, recipient, relayer, fee)
    BY <1>4 DEF Promise!Proof
  <2> QED
    BY <2>1, <2>2, Zenon DEF Promise!VerifyProof
<1>7. initialized => (IsKnownRoot(root) <=> row \in Promise!KnownRoots)
  BY <1>1, SameKnown
<1>8. WithdrawOutcome(proof, root, nh, recipient, relayer, fee)
        = Promise!WithdrawOutcome(image, row, nh, recipient, relayer, fee)
  BY <1>6, <1>7, Zenon DEF WithdrawOutcome, Promise!WithdrawOutcome
<1>9. Promise!Withdraw(image, row, nh, recipient, relayer, fee)
  <2>1. CASE Fail("withdraw", WithdrawOutcome(proof, root, nh, recipient, relayer, fee))
    <3>1. Promise!Fail("withdraw", WithdrawOutcome(proof, root, nh, recipient, relayer, fee))
      BY <2>1, FailMaps
    <3> QED
      BY <1>8, <3>1, Zenon DEF Promise!Withdraw
  <2>3. CASE TokenRefuses("withdraw", WithdrawOutcome(proof, root, nh, recipient, relayer, fee))
    <3>1. Promise!TokenRefuses("withdraw", WithdrawOutcome(proof, root, nh, recipient, relayer, fee))
      BY <2>3, RefusesMaps
    <3> QED
      BY <1>8, <3>1, Zenon DEF Promise!Withdraw
  <2>2. CASE WithdrawOk(proof, root, nh, recipient, relayer, fee)
    <3>1. Kept
      BY <2>2 DEF WithdrawOk, Kept
    <3>2. leavesBar' = leavesBar /\ rootHistoryBar' = rootHistoryBar
      BY <3>1, SameBars
    <3>3. /\ WithdrawOutcome(proof, root, nh, recipient, relayer, fee) = "Ok"
          /\ result' = [op |-> "withdraw", outcome |-> "Ok"]
          /\ nullifierSpent' = nullifierSpent \cup {nh}
          /\ balance' = Promise!Transfer(Promise!AfterPayout(recipient, fee), Pool, relayer, fee)
          /\ events' = Append(events, Promise!WithdrawalEvent(nh))
          /\ UNCHANGED <<initialized, config, rootHistoryIndex, commitmentInserted>>
      BY <2>2, Zenon DEF WithdrawOk, Answer
    <3>4. Promise!WithdrawOk(image, row, nh, recipient, relayer, fee)
      BY <1>8, <3>2, <3>3 DEF Promise!WithdrawOk, Promise!Answer
    <3> QED
      BY <3>4, Zenon DEF Promise!Withdraw
  <2> QED
    BY <2>1, <2>2, <2>3
<1> QED
  BY <1>2, <1>5, <1>9, Zenon DEF Promise!Next

LEMMA StepMaps == IInv /\ [Next]_vars => [Promise!Next]_(Promise!vars)
<1> SUFFICES ASSUME IInv, [Next]_vars PROVE Promise!Next \/ UNCHANGED Promise!vars
  OBVIOUS
<1>1. CASE UNCHANGED vars
  <2>1. Kept
    BY <1>1 DEF vars, Kept
  <2>2. leavesBar' = leavesBar /\ rootHistoryBar' = rootHistoryBar
    BY <2>1, SameBars
  <2> QED
    BY <1>1, <2>2 DEF vars, Promise!vars, Promise!poolVars
<1>2. ASSUME NEW denomination \in Denominations, NEW maxFee \in MaxFees,
             NEW depth \in Depths, NEW size \in HistorySizes,
             \/ Fail("initialize", InitializeOutcome(denomination, depth, size))
             \/ InitializeOk(denomination, maxFee, depth, size)
      PROVE  Promise!Next
  <2>1. InitializeOutcome(denomination, depth, size) = Promise!InitializeOutcome(denomination, depth, size)
    BY Zenon DEF InitializeOutcome, Promise!InitializeOutcome
  <2>2. Promise!Initialize(denomination, maxFee, depth, size)
    BY <1>2, <2>1, FailMaps, InitializeMaps, Zenon DEF Promise!Initialize
  <2> QED
    BY <2>2, Zenon DEF Promise!Next
<1>3. ASSUME NEW depositor \in Promise!Users, NEW c \in Commitment,
             \/ Fail("deposit", DepositOutcome(depositor, c))
             \/ TokenRefuses("deposit", DepositOutcome(depositor, c))
             \/ DepositOk(depositor, c)
      PROVE  Promise!Next
  <2>1. DepositOutcome(depositor, c) = Promise!DepositOutcome(depositor, c)
    BY SameDepositOutcome
  <2>2. Promise!Deposit(depositor, c)
    BY <1>3, <2>1, FailMaps, RefusesMaps, DepositMaps, Zenon DEF Promise!Deposit
  <2> QED
    BY <2>2, Zenon DEF Promise!Next
<1>4. ASSUME NEW from \in Promise!Users, NEW to \in Address, NEW amount \in 1 .. balance[from],
             TokenTransfer(from, to, amount)
      PROVE  Promise!Next
  <2>1. Kept
    BY <1>4 DEF TokenTransfer, Kept
  <2>2. leavesBar' = leavesBar /\ rootHistoryBar' = rootHistoryBar
    BY <2>1, SameBars
  <2>3. Promise!TokenTransfer(from, to, amount)
    BY <1>4, <2>2 DEF TokenTransfer, Answer, Promise!TokenTransfer, Promise!Answer
  <2> QED
    BY <2>3, Zenon DEF Promise!Next
<1>5. CASE Next
  BY <1>2, <1>3, <1>4, <1>5, WithdrawMaps, Zenon DEF Next
<1> QED
  BY <1>1, <1>5

\* The contract keeps the promise MixerPool makes: with its node map and its history
\* of hashes it answers every call as MixerPool does with leaves and rows.
THEOREM StorageIsPool == Spec => ImplementsMixerPool
<1>1. Init => Promise!Init
  BY DEF Init, Promise!Init, leavesBar, rootHistoryBar
<1>2. IInv /\ [Next]_vars => [Promise!Next]_(Promise!vars)
  BY StepMaps
<1> QED
  BY <1>1, <1>2, Invariance, PTL DEF Spec, ImplementsMixerPool, Promise!Spec
=============================================================================
