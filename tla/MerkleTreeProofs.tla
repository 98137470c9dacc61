--------------------------- MODULE MerkleTreeProofs ---------------------------
(***************************************************************************)
(* Lemmas about the three forms of the Merkle tree, for every depth, every *)
(* sequence of leaves and every path.  What they have in common is that a  *)
(* tree hangs together: every node is the hash of the two below it.        *)
(***************************************************************************)
EXTENDS MerkleTree, WellFoundedInduction, TLAPS

(***************************************************************************)
(* Powers of two, by induction.                                            *)
(***************************************************************************)
\* A set of natural numbers that is not empty has a least element.
LEMMA LeastElement ==
  ASSUME NEW T \in SUBSET Nat, T # {}
  PROVE  \E x \in T : \A y \in T : x <= y
<1>1. IsWellFoundedOn(OpToRel(<, Nat), Nat)
  BY NatLessThanWellFounded
<1>2. PICK x \in T : \A y \in T : ~ (<<y, x>> \in OpToRel(<, Nat))
  BY <1>1, WFMin, Zenon
<1>3. ASSUME NEW y \in T
      PROVE  ~(y < x)
  <2>1. y \in Nat /\ x \in Nat
    OBVIOUS
  <2>2. y < x => <<y, x>> \in OpToRel(<, Nat)
    BY <2>1, Zenon DEF OpToRel
  <2> QED
    BY <1>2, <2>2, Zenon
<1> QED
  BY <1>3

\* Induction, for a property given as the set of the numbers that have it.
LEMMA InductionOnNat ==
  ASSUME NEW S \in SUBSET Nat, 0 \in S, \A n \in S : n + 1 \in S
  PROVE  S = Nat
<1> SUFFICES ASSUME Nat \ S # {} PROVE FALSE
  OBVIOUS
<1>1. PICK x \in Nat \ S : \A y \in Nat \ S : x <= y
  BY LeastElement
<1>2. x # 0 /\ x - 1 \in Nat
  OBVIOUS
<1>3. x - 1 \in S
  BY <1>1, <1>2
<1> QED
  BY <1>3

\* g is a table of powers of two from 0 to n.
PowerTable(g, n) == g = [i \in 0 .. n |-> IF i = 0 THEN 1 ELSE 2 * g[i - 1]]

\* The recursion that defines the powers of two has a solution.
LEMMA Pow2Recursion == Pow2 = [n \in Nat |-> IF n = 0 THEN 1 ELSE 2 * Pow2[n - 1]]
<1>1. ASSUME NEW n \in Nat
      PROVE  \E g : PowerTable(g, n)
  <2> DEFINE S == {m \in Nat : \E g : PowerTable(g, m)}
  <2>1. 0 \in S
    <3> DEFINE g == [i \in 0 .. 0 |-> 1]
    <3>1. g = [i \in 0 .. 0 |-> IF i = 0 THEN 1 ELSE 2 * g[i - 1]]
      OBVIOUS
    <3> HIDE DEF g
    <3> QED
      BY <3>1 DEF PowerTable
  <2>2. ASSUME NEW m \in S
        PROVE  m + 1 \in S
    <3>1. PICK g : g = [i \in 0 .. m |-> IF i = 0 THEN 1 ELSE 2 * g[i - 1]]
      BY DEF PowerTable
    <3> DEFINE h == [i \in 0 .. m + 1 |-> IF i = m + 1 THEN 2 * g[m] ELSE g[i]]
    <3>2. h = [i \in 0 .. m + 1 |-> IF i = 0 THEN 1 ELSE 2 * h[i - 1]]
      BY <3>1
    <3> HIDE DEF h
    <3> QED
      BY <3>2 DEF PowerTable
  <2> HIDE DEF S
  <2>3. S = Nat
    BY <2>1, <2>2, InductionOnNat DEF S
  <2> QED
    BY <2>3 DEF S
<1>2. ASSUME NEW m \in Nat, NEW n \in Nat, NEW g, NEW h,
             PowerTable(g, m), PowerTable(h, n), NEW i \in Nat, i <= m, i <= n
      PROVE  g[i] = h[i]
  <2> DEFINE S == {j \in Nat : j <= m /\ j <= n => g[j] = h[j]}
  <2>1. 0 \in S
    BY <1>2 DEF PowerTable
  <2>2. ASSUME NEW j \in S
        PROVE  j + 1 \in S
    BY <1>2 DEF PowerTable
  <2> HIDE DEF S
  <2>3. S = Nat
    BY <2>1, <2>2, InductionOnNat DEF S
  <2> QED
    BY <1>2, <2>3 DEF S
<1> DEFINE t == [n \in Nat |-> CHOOSE g : PowerTable(g, n)]
           f == [n \in Nat |-> t[n][n]]
<1>3. ASSUME NEW n \in Nat
      PROVE  PowerTable(t[n], n)
  BY <1>1
<1>4. ASSUME NEW n \in Nat
      PROVE  f[n] = IF n = 0 THEN 1 ELSE 2 * f[n - 1]
  <2>1. f[n] = IF n = 0 THEN 1 ELSE 2 * t[n][n - 1]
    <3>1. f[n] = t[n][n]
      OBVIOUS
    <3>2. PowerTable(t[n], n)
      BY <1>3
    <3> HIDE DEF t, f
    <3> QED
      BY <3>1, <3>2 DEF PowerTable
  <2>2. n # 0 => t[n][n - 1] = f[n - 1]
    <3> SUFFICES ASSUME n # 0 PROVE t[n][n - 1] = f[n - 1]
      OBVIOUS
    <3>1. n - 1 \in Nat /\ n - 1 <= n /\ n - 1 <= n - 1
      OBVIOUS
    <3>2. f[n - 1] = t[n - 1][n - 1]
      BY <3>1
    <3> HIDE DEF t, f
    <3> QED
      BY <1>2, <1>3, <3>1, <3>2
  <2> QED
    BY <2>1, <2>2
<1>5. f = [n \in Nat |-> IF n = 0 THEN 1 ELSE 2 * f[n - 1]]
  <2>1. f = [n \in Nat |-> f[n]]
    OBVIOUS
  <2> HIDE DEF f
  <2> QED
    BY <1>4, <2>1
<1> HIDE DEF f
<1> QED
  BY <1>5 DEF Pow2

\* Powers of two are positive and double.
LEMMA Pow2Step ==
  /\ Pow2[0] = 1
  /\ \A n \in Nat : Pow2[n] \in Nat \ {0} /\ Pow2[n + 1] = 2 * Pow2[n]
<1>1. Pow2[0] = 1 /\ \A n \in Nat : Pow2[n + 1] = 2 * Pow2[n]
  <2>1. \A n \in Nat : Pow2[n] = IF n = 0 THEN 1 ELSE 2 * Pow2[n - 1]
    BY Pow2Recursion, Zenon
  <2>2. ASSUME NEW n \in Nat
        PROVE  Pow2[n + 1] = 2 * Pow2[n]
    <3>1. n + 1 \in Nat /\ n + 1 # 0 /\ (n + 1) - 1 = n
      OBVIOUS
    <3>2. Pow2[n + 1] = 2 * Pow2[(n + 1) - 1]
      BY <2>1, <3>1, Zenon
    <3> QED
      BY <3>1, <3>2
  <2> QED
    BY <2>1, <2>2
<1> DEFINE S == {n \in Nat : Pow2[n] \in Nat \ {0}}
<1>2. 0 \in S /\ \A n \in S : n + 1 \in S
  BY <1>1
<1> HIDE DEF S
<1>3. S = Nat
  BY <1>2, InductionOnNat DEF S
<1> QED
  BY <1>1, <1>3 DEF S


\* A tree of depth k + m is a tree of depth k with trees of depth m below it.
LEMMA Pow2Sum ==
  ASSUME NEW k \in Nat, NEW m \in Nat
  PROVE  Pow2[k + m] = Pow2[k] * Pow2[m]
<1> DEFINE S == {j \in Nat : Pow2[k + j] = Pow2[k] * Pow2[j]}
<1>0. Pow2[k] \in Nat
  BY Pow2Step
<1>1. 0 \in S
  BY <1>0, Pow2Step
<1>2. ASSUME NEW j \in S
      PROVE  j + 1 \in S
  <2>1. j \in Nat /\ k + j \in Nat /\ k + (j + 1) = (k + j) + 1
    OBVIOUS
  <2>2. Pow2[k + (j + 1)] = 2 * Pow2[k + j] /\ Pow2[j + 1] = 2 * Pow2[j] /\ Pow2[j] \in Nat
    BY <2>1, Pow2Step
  <2>3. Pow2[k + j] = Pow2[k] * Pow2[j]
    OBVIOUS
  <2>4. Pow2[k] * (2 * Pow2[j]) = 2 * (Pow2[k] * Pow2[j])
    BY <1>0, <2>2
  <2> HIDE DEF S
  <2>5. Pow2[k + (j + 1)] = Pow2[k] * Pow2[j + 1]
    BY <2>2, <2>3, <2>4
  <2> QED
    BY <2>1, <2>5 DEF S
<1> HIDE DEF S
<1>3. S = Nat
  <2>1. S \in SUBSET Nat
    BY DEF S
  <2> QED
    BY <1>1, <1>2, <2>1, InductionOnNat, Zenon
<1> QED
  BY <1>3 DEF S
-----------------------------------------------------------------------------
(***************************************************************************)
(* The way up from a leaf.                                                 *)
(***************************************************************************)

\* Division with remainder.
LEMMA Divided ==
  ASSUME NEW a \in Nat, NEW m \in Nat \ {0}
  PROVE  \E q \in Nat, r \in 0 .. m - 1 : a \div m = q /\ a = m * q + r
<1>1. a = m * (a \div m) + (a % m) /\ a % m \in 0 .. m - 1 /\ a \div m \in Nat
  OBVIOUS
<1> QED
  BY <1>1, Zenon

\* The quotient is unique.
LEMMA OneQuotient ==
  ASSUME NEW m \in Nat \ {0}, NEW p \in Int, NEW q \in Int,
         NEW r \in 0 .. m - 1, NEW s \in 0 .. m - 1, m * p + r = m * q + s
  PROVE  p = q
<1>1. m * (p - q) = s - r
  OBVIOUS
<1>2. CASE p > q
  <2>1. m * (p - q) >= m
    BY <1>2
  <2> QED
    BY <1>1, <2>1
<1>3. CASE p < q
  <2>1. m * (q - p) >= m
    BY <1>3
  <2>2. m * (q - p) = r - s
    OBVIOUS
  <2> QED
    BY <2>1, <2>2
<1> QED
  BY <1>2, <1>3

\* The node above a leaf, and what it leaves out.
LEMMA AboveSplit ==
  ASSUME NEW i \in Nat, NEW level \in Nat
  PROVE  \E q \in Nat, r \in 0 .. Pow2[level] - 1 :
           Above(i, level) = q /\ i = Pow2[level] * q + r
<1>1. PICK m \in Nat \ {0} : m = Pow2[level]
  BY Pow2Step
<1>2. \E q \in Nat, r \in 0 .. m - 1 : i \div m = q /\ i = m * q + r
  BY Divided, Zenon
<1> QED
  BY <1>1, <1>2, Zenon DEF Above

\* Where division by a power of two leads.
LEMMA AboveIs ==
  ASSUME NEW i \in Nat, NEW level \in Nat, NEW q \in Nat, NEW r \in 0 .. Pow2[level] - 1,
         i = Pow2[level] * q + r
  PROVE  Above(i, level) = q
<1>1. PICK m \in Nat \ {0} : m = Pow2[level]
  BY Pow2Step
<1>2. PICK p \in Nat, s \in 0 .. Pow2[level] - 1 :
        Above(i, level) = p /\ i = Pow2[level] * p + s
  BY AboveSplit
<1>3. /\ r \in 0 .. m - 1 /\ s \in 0 .. m - 1 /\ m * p + s = m * q + r
      /\ p \in Int /\ q \in Int
  BY <1>1, <1>2
<1>4. p = q
  BY <1>3, OneQuotient
<1> QED
  BY <1>2, <1>4

\* Going up a level is halving the index (current_index /= 2).
LEMMA AboveHalves ==
  ASSUME NEW i \in Nat, NEW level \in Nat
  PROVE  /\ Above(i, 0) = i
         /\ Above(i, level) \in Nat
         /\ Above(i, level + 1) = Above(i, level) \div 2
         /\ Above(i, level) = 2 * Above(i, level + 1) + (Above(i, level) % 2)
         /\ Above(i, level) % 2 \in {0, 1}
<1>1. Above(i, 0) = i
  BY Pow2Step DEF Above
<1>2. PICK m \in Nat \ {0} : m = Pow2[level] /\ Pow2[level + 1] = 2 * m
  BY Pow2Step
<1>3. PICK q \in Nat, r \in 0 .. Pow2[level] - 1 :
        Above(i, level) = q /\ i = Pow2[level] * q + r
  BY AboveSplit
<1>4. PICK h \in Nat, b \in {0, 1} : q \div 2 = h /\ q % 2 = b /\ q = 2 * h + b
  <2>1. q \div 2 \in Nat /\ q % 2 \in {0, 1} /\ q = 2 * (q \div 2) + (q % 2)
    OBVIOUS
  <2> QED
    BY <2>1, Zenon
<1>5. PICK s \in 0 .. Pow2[level + 1] - 1 : i = Pow2[level + 1] * h + s
  <2>1. i = m * (2 * h + b) + r /\ r \in 0 .. m - 1
    BY <1>2, <1>3, <1>4
  <2>2. CASE b = 0
    <3>1. i = (2 * m) * h + r /\ r \in 0 .. 2 * m - 1
      BY <2>1, <2>2
    <3> QED
      BY <1>2, <3>1
  <2>3. CASE b = 1
    <3>1. i = (2 * m) * h + (m + r) /\ m + r \in 0 .. 2 * m - 1
      BY <2>1, <2>3
    <3> QED
      BY <1>2, <3>1
  <2> QED
    BY <2>2, <2>3
<1>6. Above(i, level + 1) = h
  <2>1. level + 1 \in Nat
    OBVIOUS
  <2> QED
    BY <1>5, <2>1, AboveIs
<1>7. /\ Above(i, level) \in Nat /\ Above(i, level + 1) = Above(i, level) \div 2
      /\ Above(i, level) % 2 = b
  BY <1>3, <1>4, <1>6
<1>8. Above(i, level) = 2 * Above(i, level + 1) + b
  BY <1>3, <1>4, <1>6
<1> QED
  BY <1>1, <1>7, <1>8

\* A node on the way up and the one above it.
LEMMA UpOne ==
  ASSUME NEW i \in Nat, NEW level \in Nat
  PROVE  \E a \in Nat, up \in Nat :
           /\ a = Above(i, level) /\ up = Above(i, level + 1)
           /\ a % 2 \in {0, 1} /\ a = 2 * up + (a % 2)
<1>1. level + 1 \in Nat
  OBVIOUS
<1>2. Above(i, level + 1) \in Nat
  BY <1>1, AboveHalves, Zenon
<1>3. /\ Above(i, level) \in Nat /\ Above(i, level) % 2 \in {0, 1}
      /\ Above(i, level) = 2 * Above(i, level + 1) + (Above(i, level) % 2)
  BY AboveHalves, Zenon
<1> QED
  BY <1>2, <1>3, Zenon

\* A leaf of a tree of some depth is below the root.
LEMMA AboveRoot ==
  ASSUME NEW depth \in Nat, NEW i \in 0 .. Pow2[depth] - 1
  PROVE  Above(i, depth) = 0
<1>1. i \in Nat /\ Pow2[depth] \in Nat \ {0}
  BY Pow2Step
<1>2. i = Pow2[depth] * 0 + i
  BY <1>1
<1> QED
  BY <1>1, <1>2, AboveIs

\* No index leaves the tree on the way up.
LEMMA AboveInside ==
  ASSUME NEW depth \in Nat, NEW level \in 0 .. depth, NEW i \in 0 .. Pow2[depth] - 1
  PROVE  Above(i, level) \in 0 .. Pow2[depth - level] - 1
<1>1. level \in Nat /\ depth - level \in Nat /\ level + (depth - level) = depth
  OBVIOUS
<1>2. PICK m \in Nat \ {0}, n \in Nat \ {0} : m = Pow2[level] /\ n = Pow2[depth - level]
  BY <1>1, Pow2Step
<1>3. Pow2[depth] = m * n
  BY <1>1, <1>2, Pow2Sum
<1>4. i \in Nat /\ i < m * n
  BY <1>2, <1>3
<1>5. PICK q \in Nat, r \in 0 .. Pow2[level] - 1 :
        Above(i, level) = q /\ i = Pow2[level] * q + r
  BY <1>1, <1>4, AboveSplit
<1>6. i = m * q + r /\ r >= 0
  BY <1>2, <1>5
<1>7. ASSUME q >= n
      PROVE  FALSE
  <2>1. m * q >= m * n
    BY <1>7
  <2> QED
    BY <1>4, <1>6, <2>1
<1> QED
  BY <1>2, <1>5, <1>7
-----------------------------------------------------------------------------
(***************************************************************************)
(* The recursions have solutions: tables, filled level by level.           *)
(***************************************************************************)

\* A round of the circuit's fold.
FoldRound(table, leaf, path, level) ==
  IF level = 0 THEN leaf
  ELSE LET p == path[level - 1]
       IN  IF p.bit = 0
           THEN HashPair(level - 1, table[level - 1], p.element)
           ELSE HashPair(level - 1, p.element, table[level - 1])

\* The hashes the circuit computes.
LEMMA FoldTable ==
  ASSUME NEW leaf, NEW path, NEW depth \in Nat
  PROVE  \E table : /\ table = [level \in 0 .. depth |-> FoldRound(table, leaf, path, level)]
                    /\ FoldPath(leaf, path, depth) = table[depth]
<1> DEFINE S == {n \in Nat : \E t : t = [level \in 0 .. n |-> FoldRound(t, leaf, path, level)]}
<1>1. 0 \in S
  <2>1. PICK t : t = [level \in 0 .. 0 |-> leaf]
    OBVIOUS
  <2>2. t = [level \in 0 .. 0 |-> FoldRound(t, leaf, path, level)]
    BY <2>1 DEF FoldRound
  <2> QED
    BY <2>2
<1>2. ASSUME NEW n \in S
      PROVE  n + 1 \in S
  <2>1. n \in Nat /\ \E t : t = [level \in 0 .. n |-> FoldRound(t, leaf, path, level)]
    OBVIOUS
  <2>2. PICK t : t = [level \in 0 .. n |-> FoldRound(t, leaf, path, level)]
    BY <2>1
  <2>3. PICK next : next = [level \in 0 .. n + 1 |->
                      IF level = n + 1 THEN FoldRound(t, leaf, path, level) ELSE t[level]]
    OBVIOUS
  <2> HIDE DEF S
  <2>4. ASSUME NEW level \in 0 .. n + 1
        PROVE  next[level] = FoldRound(next, leaf, path, level)
    <3>1. \A k \in 0 .. n : next[k] = t[k]
      BY <2>1, <2>3
    <3>2. FoldRound(next, leaf, path, level) = FoldRound(t, leaf, path, level)
      BY <2>1, <3>1 DEF FoldRound
    <3>3. CASE level = n + 1
      BY <2>3, <3>2, <3>3
    <3>4. CASE level # n + 1
      <4>1. level \in 0 .. n
        BY <2>1, <3>4
      <4>2. t[level] = FoldRound(t, leaf, path, level)
        BY <2>2, <4>1, Zenon
      <4> QED
        BY <3>1, <3>2, <4>1, <4>2
    <3> QED
      BY <3>3, <3>4
  <2>5. next = [level \in 0 .. n + 1 |-> FoldRound(next, leaf, path, level)]
    BY <2>3, <2>4
  <2>6. n + 1 \in Nat
    BY <2>1
  <2> QED
    BY <2>5, <2>6, Zenon DEF S
<1> HIDE DEF S
<1>3. S = Nat
  <2>1. S \in SUBSET Nat
    BY DEF S
  <2> QED
    BY <1>1, <1>2, <2>1, InductionOnNat, Zenon
<1>4. \E t : t = [level \in 0 .. depth |-> FoldRound(t, leaf, path, level)]
  BY <1>3 DEF S
<1> QED
  BY <1>4, Zenon DEF FoldRound, FoldPath

\* A round of insert_leaf.
PathRound(table, nodes, leaf, index, level) ==
  IF level = 0 THEN leaf
  ELSE LET i == Above(index, level - 1)
           child == table[level - 1]
       IN  IF i % 2 = 0
           THEN HashPair(level - 1, child, NodeAt(nodes, level - 1, i + 1))
           ELSE HashPair(level - 1, NodeAt(nodes, level - 1, i - 1), child)

\* The hashes insert_leaf computes.
LEMMA PathTable ==
  ASSUME NEW nodes, NEW leaf, NEW index, NEW depth \in Nat
  PROVE  \E table : /\ table = [level \in 0 .. depth |-> PathRound(table, nodes, leaf, index, level)]
                    /\ PathHashes(nodes, leaf, index, depth) = table
<1> DEFINE S == {n \in Nat : \E t : t = [level \in 0 .. n |-> PathRound(t, nodes, leaf, index, level)]}
<1>1. 0 \in S
  <2>1. PICK t : t = [level \in 0 .. 0 |-> leaf]
    OBVIOUS
  <2>2. t = [level \in 0 .. 0 |-> PathRound(t, nodes, leaf, index, level)]
    BY <2>1 DEF PathRound
  <2> QED
    BY <2>2
<1>2. ASSUME NEW n \in S
      PROVE  n + 1 \in S
  <2>1. n \in Nat /\ \E t : t = [level \in 0 .. n |-> PathRound(t, nodes, leaf, index, level)]
    OBVIOUS
  <2>2. PICK t : t = [level \in 0 .. n |-> PathRound(t, nodes, leaf, index, level)]
    BY <2>1
  <2>3. PICK next : next = [level \in 0 .. n + 1 |->
                      IF level = n + 1 THEN PathRound(t, nodes, leaf, index, level) ELSE t[level]]
    OBVIOUS
  <2> HIDE DEF S
  <2>4. ASSUME NEW level \in 0 .. n + 1
        PROVE  next[level] = PathRound(next, nodes, leaf, index, level)
    <3>1. \A k \in 0 .. n : next[k] = t[k]
      BY <2>1, <2>3
    <3>2. PathRound(next, nodes, leaf, index, level) = PathRound(t, nodes, leaf, index, level)
      BY <2>1, <3>1 DEF PathRound
    <3>3. CASE level = n + 1
      BY <2>3, <3>2, <3>3
    <3>4. CASE level # n + 1
      <4>1. level \in 0 .. n
        BY <2>1, <3>4
      <4>2. t[level] = PathRound(t, nodes, leaf, index, level)
        BY <2>2, <4>1, Zenon
      <4> QED
        BY <3>1, <3>2, <4>1, <4>2
    <3> QED
      BY <3>3, <3>4
  <2>5. next = [level \in 0 .. n + 1 |-> PathRound(next, nodes, leaf, index, level)]
    BY <2>3, <2>4
  <2>6. n + 1 \in Nat
    BY <2>1
  <2> QED
    BY <2>5, <2>6, Zenon DEF S
<1> HIDE DEF S
<1>3. S = Nat
  <2>1. S \in SUBSET Nat
    BY DEF S
  <2> QED
    BY <1>1, <1>2, <2>1, InductionOnNat, Zenon
<1>4. \E t : t = [level \in 0 .. depth |-> PathRound(t, nodes, leaf, index, level)]
  BY <1>3 DEF S
<1> QED
  BY <1>4, Zenon DEF PathRound, PathHashes

\* A round of a mirror's rebuild.
LayerRound(table, leaves, level) ==
  IF level = 0 THEN leaves
  ELSE [k \in 1 .. (Len(table[level - 1]) + 1) \div 2 |->
          HashPair(level - 1, LayerNode(table, level - 1, 2 * (k - 1)),
                   LayerNode(table, level - 1, 2 * (k - 1) + 1))]

\* The layers a mirror computes.
LEMMA LayerTable ==
  ASSUME NEW leaves, NEW depth \in Nat
  PROVE  \E table : /\ table = [level \in 0 .. depth |-> LayerRound(table, leaves, level)]
                    /\ Rebuild(leaves, depth) = table
<1> DEFINE S == {n \in Nat : \E t : t = [level \in 0 .. n |-> LayerRound(t, leaves, level)]}
<1>1. 0 \in S
  <2>1. PICK t : t = [level \in 0 .. 0 |-> leaves]
    OBVIOUS
  <2>2. t = [level \in 0 .. 0 |-> LayerRound(t, leaves, level)]
    BY <2>1 DEF LayerRound
  <2> QED
    BY <2>2
<1>2. ASSUME NEW n \in S
      PROVE  n + 1 \in S
  <2>1. n \in Nat /\ \E t : t = [level \in 0 .. n |-> LayerRound(t, leaves, level)]
    OBVIOUS
  <2>2. PICK t : t = [level \in 0 .. n |-> LayerRound(t, leaves, level)]
    BY <2>1
  <2>3. PICK next : next = [level \in 0 .. n + 1 |->
                      IF level = n + 1 THEN LayerRound(t, leaves, level) ELSE t[level]]
    OBVIOUS
  <2> HIDE DEF S
  <2>4. ASSUME NEW level \in 0 .. n + 1
        PROVE  next[level] = LayerRound(next, leaves, level)
    <3>1. \A k \in 0 .. n : next[k] = t[k]
      BY <2>1, <2>3
    <3>2. LayerRound(next, leaves, level) = LayerRound(t, leaves, level)
      <4>1. CASE level = 0
        BY <4>1, Zenon DEF LayerRound
      <4>2. CASE level # 0
        <5>1. next[level - 1] = t[level - 1]
          BY <2>1, <3>1, <4>2
        <5>2. \A i : LayerNode(next, level - 1, i) = LayerNode(t, level - 1, i)
          BY <5>1, Zenon DEF LayerNode
        <5>3. ASSUME NEW k
              PROVE  HashPair(level - 1, LayerNode(next, level - 1, 2 * (k - 1)),
                              LayerNode(next, level - 1, 2 * (k - 1) + 1))
                       = HashPair(level - 1, LayerNode(t, level - 1, 2 * (k - 1)),
                                  LayerNode(t, level - 1, 2 * (k - 1) + 1))
          <6>1. LayerNode(next, level - 1, 2 * (k - 1)) = LayerNode(t, level - 1, 2 * (k - 1))
            BY <5>2, Zenon
          <6>2. LayerNode(next, level - 1, 2 * (k - 1) + 1) = LayerNode(t, level - 1, 2 * (k - 1) + 1)
            BY <5>2, Zenon
          <6> QED
            BY <6>1, <6>2, Zenon
        <5>4. LayerRound(next, leaves, level) =
                [k \in 1 .. (Len(t[level - 1]) + 1) \div 2 |->
                   HashPair(level - 1, LayerNode(next, level - 1, 2 * (k - 1)),
                            LayerNode(next, level - 1, 2 * (k - 1) + 1))]
          BY <4>2, <5>1, Zenon DEF LayerRound
        <5>5. LayerRound(t, leaves, level) =
                [k \in 1 .. (Len(t[level - 1]) + 1) \div 2 |->
                   HashPair(level - 1, LayerNode(t, level - 1, 2 * (k - 1)),
                            LayerNode(t, level - 1, 2 * (k - 1) + 1))]
          BY <4>2, Zenon DEF LayerRound
        <5> QED
          BY <5>3, <5>4, <5>5
      <4> QED
        BY <4>1, <4>2
    <3>3. CASE level = n + 1
      BY <2>3, <3>2, <3>3
    <3>4. CASE level # n + 1
      <4>1. level \in 0 .. n
        BY <2>1, <3>4
      <4>2. t[level] = LayerRound(t, leaves, level)
        BY <2>2, <4>1, Zenon
      <4> QED
        BY <3>1, <3>2, <4>1, <4>2
    <3> QED
      BY <3>3, <3>4
  <2>5. next = [level \in 0 .. n + 1 |-> LayerRound(next, leaves, level)]
    BY <2>3, <2>4
  <2>6. n + 1 \in Nat
    BY <2>1
  <2> QED
    BY <2>5, <2>6, Zenon DEF S
<1> HIDE DEF S
<1>3. S = Nat
  <2>1. S \in SUBSET Nat
    BY DEF S
  <2> QED
    BY <1>1, <1>2, <2>1, InductionOnNat, Zenon
<1>4. \E t : t = [level \in 0 .. depth |-> LayerRound(t, leaves, level)]
  BY <1>3 DEF S
<1> QED
  BY <1>4, Zenon DEF LayerRound, Rebuild

\* A bit of the index a path leads from.
IndexRound(table, path, level) ==
  IF level = 0 THEN 0 ELSE table[level - 1] + path[level - 1].bit * Pow2[level - 1]

\* The index a path leads from, bit by bit.
LEMMA IndexTable ==
  ASSUME NEW path, NEW depth \in Nat
  PROVE  \E table : /\ table = [level \in 0 .. depth |-> IndexRound(table, path, level)]
                    /\ PathIndex(path, depth) = table[depth]
<1> DEFINE S == {n \in Nat : \E t : t = [level \in 0 .. n |-> IndexRound(t, path, level)]}
<1>1. 0 \in S
  <2>1. PICK t : t = [level \in 0 .. 0 |-> 0]
    OBVIOUS
  <2>2. t = [level \in 0 .. 0 |-> IndexRound(t, path, level)]
    BY <2>1 DEF IndexRound
  <2> QED
    BY <2>2
<1>2. ASSUME NEW n \in S
      PROVE  n + 1 \in S
  <2>1. n \in Nat /\ \E t : t = [level \in 0 .. n |-> IndexRound(t, path, level)]
    OBVIOUS
  <2>2. PICK t : t = [level \in 0 .. n |-> IndexRound(t, path, level)]
    BY <2>1
  <2>3. PICK next : next = [level \in 0 .. n + 1 |->
                      IF level = n + 1 THEN IndexRound(t, path, level) ELSE t[level]]
    OBVIOUS
  <2> HIDE DEF S
  <2>4. ASSUME NEW level \in 0 .. n + 1
        PROVE  next[level] = IndexRound(next, path, level)
    <3>1. \A k \in 0 .. n : next[k] = t[k]
      BY <2>1, <2>3
    <3>2. IndexRound(next, path, level) = IndexRound(t, path, level)
      BY <2>1, <3>1 DEF IndexRound
    <3>3. CASE level = n + 1
      BY <2>3, <3>2, <3>3
    <3>4. CASE level # n + 1
      <4>1. level \in 0 .. n
        BY <2>1, <3>4
      <4>2. t[level] = IndexRound(t, path, level)
        BY <2>2, <4>1, Zenon
      <4> QED
        BY <3>1, <3>2, <4>1, <4>2
    <3> QED
      BY <3>3, <3>4
  <2>5. next = [level \in 0 .. n + 1 |-> IndexRound(next, path, level)]
    BY <2>3, <2>4
  <2>6. n + 1 \in Nat
    BY <2>1
  <2> QED
    BY <2>5, <2>6, Zenon DEF S
<1> HIDE DEF S
<1>3. S = Nat
  <2>1. S \in SUBSET Nat
    BY DEF S
  <2> QED
    BY <1>1, <1>2, <2>1, InductionOnNat, Zenon
<1>4. \E t : t = [level \in 0 .. depth |-> IndexRound(t, path, level)]
  BY <1>3 DEF S
<1> QED
  BY <1>4, Zenon DEF IndexRound, PathIndex

\* A step down from a root.
DescendRound(table, root, i, depth, level) ==
  IF level = depth THEN root ELSE table[level + 1][1 + (Above(i, level) % 2)]

\* The nodes on the way down; the table is filled from the top.
LEMMA DescendTable ==
  ASSUME NEW root, NEW i, NEW depth \in Nat
  PROVE  \E table :
           /\ table = [level \in 0 .. depth |-> DescendRound(table, root, i, depth, level)]
           /\ Descend(root, i, depth) = table
<1> DEFINE S == {n \in Nat : n <= depth =>
                   \E t : t = [level \in depth - n .. depth |-> DescendRound(t, root, i, depth, level)]}
<1>1. 0 \in S
  <2>1. PICK t : t = [level \in depth .. depth |-> root]
    OBVIOUS
  <2>2. t = [level \in depth - 0 .. depth |-> DescendRound(t, root, i, depth, level)]
    BY <2>1 DEF DescendRound
  <2> QED
    BY <2>2
<1>2. ASSUME NEW n \in S
      PROVE  n + 1 \in S
  <2>1. n \in Nat /\ n + 1 \in Nat
    OBVIOUS
  <2>2. SUFFICES ASSUME n + 1 <= depth
                 PROVE  \E t : t = [level \in depth - (n + 1) .. depth |->
                                      DescendRound(t, root, i, depth, level)]
    BY <2>1
  <2>3. PICK t : t = [level \in depth - n .. depth |-> DescendRound(t, root, i, depth, level)]
    BY <2>2
  <2> HIDE DEF S
  <2>4. PICK low \in Nat : low = depth - (n + 1) /\ low + 1 = depth - n /\ low # depth
    BY <2>1, <2>2
  <2>5. PICK next : next = [level \in low .. depth |->
                      IF level = low THEN DescendRound(t, root, i, depth, level) ELSE t[level]]
    OBVIOUS
  <2>6. ASSUME NEW level \in low .. depth
        PROVE  next[level] = DescendRound(next, root, i, depth, level)
    <3>1. \A k \in low + 1 .. depth : next[k] = t[k]
      BY <2>4, <2>5
    <3>2. DescendRound(next, root, i, depth, level) = DescendRound(t, root, i, depth, level)
      <4>1. CASE level = depth
        BY <4>1, Zenon DEF DescendRound
      <4>2. CASE level # depth
        <5>1. level + 1 \in low + 1 .. depth
          BY <2>4, <4>2
        <5> QED
          BY <3>1, <5>1, Zenon DEF DescendRound
      <4> QED
        BY <4>1, <4>2
    <3>3. CASE level = low
      BY <2>5, <3>2, <3>3
    <3>4. CASE level # low
      <4>1. level \in low + 1 .. depth /\ level \in depth - n .. depth
        BY <2>4, <3>4
      <4>2. t[level] = DescendRound(t, root, i, depth, level)
        BY <2>3, <4>1, Zenon
      <4> QED
        BY <3>1, <3>2, <4>1, <4>2
    <3> QED
      BY <3>3, <3>4
  <2>7. next = [level \in low .. depth |-> DescendRound(next, root, i, depth, level)]
    BY <2>5, <2>6
  <2> QED
    BY <2>4, <2>7, Zenon
<1> HIDE DEF S
<1>3. S = Nat
  <2>1. S \in SUBSET Nat
    BY DEF S
  <2> QED
    BY <1>1, <1>2, <2>1, InductionOnNat, Zenon
<1>4. \E t : t = [level \in 0 .. depth |-> DescendRound(t, root, i, depth, level)]
  <2>1. \E t : t = [level \in depth - depth .. depth |-> DescendRound(t, root, i, depth, level)]
    <3>1. depth \in S /\ depth <= depth
      BY <1>3
    <3> QED
      BY <3>1, Zenon DEF S
  <2>2. depth - depth = 0
    OBVIOUS
  <2> QED
    BY <2>1, <2>2, Zenon
<1> QED
  BY <1>4, Zenon DEF DescendRound, Descend

\* z is a table of zero hashes up to level n.
ZeroTable(z, n) ==
  z = [level \in 0 .. n |->
         IF level = 0 THEN ZeroLeaf ELSE HashPair(level - 1, z[level - 1], z[level - 1])]

\* zero_hash: the hash of an empty subtree is that of its two halves.
LEMMA ZeroStep ==
  /\ ZeroHash[0] = ZeroLeaf
  /\ \A level \in Nat : ZeroHash[level + 1] = HashPair(level, ZeroHash[level], ZeroHash[level])
<1>1. ASSUME NEW n \in Nat
      PROVE  \E z : ZeroTable(z, n)
  <2> DEFINE S == {m \in Nat : \E z : ZeroTable(z, m)}
  <2>1. 0 \in S
    <3>1. PICK z : z = [level \in 0 .. 0 |-> ZeroLeaf]
      OBVIOUS
    <3>2. z = [level \in 0 .. 0 |->
                 IF level = 0 THEN ZeroLeaf ELSE HashPair(level - 1, z[level - 1], z[level - 1])]
      BY <3>1
    <3>3. ZeroTable(z, 0)
      BY <3>2, Zenon DEF ZeroTable
    <3> QED
      BY <3>3
  <2>2. ASSUME NEW m \in S
        PROVE  m + 1 \in S
    <3>1. m \in Nat /\ m + 1 \in Nat
      OBVIOUS
    <3>2. PICK z : ZeroTable(z, m)
      OBVIOUS
    <3> HIDE DEF S
    <3>3. PICK next : next = [level \in 0 .. m + 1 |->
                        IF level = m + 1 THEN HashPair(m, z[m], z[m]) ELSE z[level]]
      OBVIOUS
    <3>4. ASSUME NEW level \in 0 .. m + 1
          PROVE  next[level] = IF level = 0 THEN ZeroLeaf
                               ELSE HashPair(level - 1, next[level - 1], next[level - 1])
      <4>1. \A k \in 0 .. m : next[k] = z[k]
        BY <3>1, <3>3
      <4>2. \A k \in 0 .. m : z[k] = IF k = 0 THEN ZeroLeaf ELSE HashPair(k - 1, z[k - 1], z[k - 1])
        BY <3>2, Zenon DEF ZeroTable
      <4>3. CASE level = m + 1
        <5>1. next[level] = HashPair(m, z[m], z[m]) /\ level # 0 /\ level - 1 = m /\ next[m] = z[m]
          BY <3>1, <3>3, <4>1, <4>3
        <5> QED
          BY <5>1, Zenon
      <4>4. CASE level = 0
        <5>1. 0 \in 0 .. m
          BY <3>1
        <5> QED
          BY <4>1, <4>2, <4>4, <5>1
      <4>5. CASE level \in 1 .. m
        <5>1. level \in 0 .. m /\ level - 1 \in 0 .. m /\ level # 0
          BY <3>1, <4>5
        <5> QED
          BY <4>1, <4>2, <5>1, Zenon
      <4> QED
        BY <3>1, <4>3, <4>4, <4>5
    <3>5. ZeroTable(next, m + 1)
      <4>1. next = [level \in 0 .. m + 1 |-> next[level]]
        BY <3>3
      <4> QED
        BY <3>4, <4>1 DEF ZeroTable
    <3> QED
      BY <3>1, <3>5, Zenon DEF S
  <2> HIDE DEF S
  <2>3. S = Nat
    <3>1. S \in SUBSET Nat
      BY DEF S
    <3> QED
      BY <2>1, <2>2, <3>1, InductionOnNat, Zenon
  <2> QED
    BY <2>3 DEF S
<1>2. ASSUME NEW m \in Nat, NEW n \in Nat, NEW y, NEW z, ZeroTable(y, m), ZeroTable(z, n)
      PROVE  \A level \in Nat : level <= m /\ level <= n => y[level] = z[level]
  <2> DEFINE S == {j \in Nat : j <= m /\ j <= n => y[j] = z[j]}
  <2>0. /\ \A k \in 0 .. m : y[k] = IF k = 0 THEN ZeroLeaf ELSE HashPair(k - 1, y[k - 1], y[k - 1])
        /\ \A k \in 0 .. n : z[k] = IF k = 0 THEN ZeroLeaf ELSE HashPair(k - 1, z[k - 1], z[k - 1])
    BY <1>2, Zenon DEF ZeroTable
  <2>1. 0 \in S
    BY <2>0
  <2>2. ASSUME NEW j \in S
        PROVE  j + 1 \in S
    <3>1. j \in Nat /\ j + 1 \in Nat
      OBVIOUS
    <3>2. SUFFICES ASSUME j + 1 <= m, j + 1 <= n
                   PROVE  y[j + 1] = z[j + 1]
      BY <3>1
    <3>3. y[j] = z[j]
      BY <3>2
    <3>4. j + 1 \in 0 .. m /\ j + 1 \in 0 .. n /\ j + 1 # 0 /\ (j + 1) - 1 = j
      BY <3>2
    <3> HIDE DEF S
    <3>5. y[j + 1] = HashPair((j + 1) - 1, y[(j + 1) - 1], y[(j + 1) - 1])
      BY <2>0, <3>4, Zenon
    <3>6. z[j + 1] = HashPair((j + 1) - 1, z[(j + 1) - 1], z[(j + 1) - 1])
      BY <2>0, <3>4, Zenon
    <3> QED
      BY <3>3, <3>4, <3>5, <3>6, Zenon
  <2> HIDE DEF S
  <2>3. S = Nat
    <3>1. S \in SUBSET Nat
      BY DEF S
    <3> QED
      BY <2>1, <2>2, <3>1, InductionOnNat, Zenon
  <2> QED
    BY <2>3 DEF S
<1>3. PICK t : t = [n \in Nat |-> CHOOSE z : ZeroTable(z, n)]
  OBVIOUS
<1>4. ASSUME NEW n \in Nat
      PROVE  ZeroTable(t[n], n)
  BY <1>1, <1>3, Zenon
<1>5. PICK f : f = [n \in Nat |-> t[n][n]]
  OBVIOUS
<1>6. ASSUME NEW n \in Nat
      PROVE  f[n] = IF n = 0 THEN ZeroLeaf ELSE HashPair(n - 1, f[n - 1], f[n - 1])
  <2>0. n \in 0 .. n
    OBVIOUS
  <2>1. t[n][n] = IF n = 0 THEN ZeroLeaf ELSE HashPair(n - 1, t[n][n - 1], t[n][n - 1])
    BY <1>4, <2>0, Zenon DEF ZeroTable
  <2>2. n # 0 => t[n][n - 1] = t[n - 1][n - 1]
    <3> SUFFICES ASSUME n # 0 PROVE t[n][n - 1] = t[n - 1][n - 1]
      OBVIOUS
    <3>1. n - 1 \in Nat /\ n - 1 <= n /\ n - 1 <= n - 1
      OBVIOUS
    <3> QED
      BY <1>2, <1>4, <3>1
  <2>3. f[n] = t[n][n] /\ (n # 0 => f[n - 1] = t[n - 1][n - 1])
    BY <1>5
  <2> QED
    BY <2>1, <2>2, <2>3, Zenon
<1>7. f = [level \in Nat |-> IF level = 0 THEN ZeroLeaf ELSE HashPair(level - 1, f[level - 1], f[level - 1])]
  <2>1. f = [n \in Nat |-> f[n]]
    BY <1>5
  <2> QED
    BY <1>6, <2>1
<1>8. ZeroHash = [level \in Nat |-> IF level = 0 THEN ZeroLeaf
                                    ELSE HashPair(level - 1, ZeroHash[level - 1], ZeroHash[level - 1])]
  BY <1>7, Zenon DEF ZeroHash
<1>9. ASSUME NEW level \in Nat
      PROVE  ZeroHash[level + 1] = HashPair(level, ZeroHash[level], ZeroHash[level])
  <2>1. level + 1 \in Nat /\ level + 1 # 0 /\ (level + 1) - 1 = level
    OBVIOUS
  <2>2. ZeroHash[level + 1] = HashPair((level + 1) - 1, ZeroHash[(level + 1) - 1], ZeroHash[(level + 1) - 1])
    BY <1>8, <2>1, Zenon
  <2> QED
    BY <2>1, <2>2, Zenon
<1>10. ZeroHash[0] = ZeroLeaf
  <2>1. 0 \in Nat
    OBVIOUS
  <2> QED
    BY <1>8, <2>1, Zenon
<1> QED
  BY <1>9, <1>10
-----------------------------------------------------------------------------
(***************************************************************************)
(* Trees.  t[level][i] is a node; beyond the leaves there are zero hashes. *)
(***************************************************************************)
ChainTree(nodes, depth) == [level \in 0 .. depth |-> [i \in Nat |-> NodeAt(nodes, level, i)]]

LayerTree(layers, depth) == [level \in 0 .. depth |-> [i \in Nat |-> LayerNode(layers, level, i)]]

HangsTogether(t, depth) ==
  \A level \in 0 .. depth - 1, i \in Nat :
    t[level + 1][i] = HashPair(level, t[level][2 * i], t[level][2 * i + 1])

\* The empty tree is one: zero hashes all over.
LEMMA EmptyTree ==
  ASSUME NEW depth \in Nat, NEW nodes, DOMAIN nodes = {}
  PROVE  /\ HangsTogether(ChainTree(nodes, depth), depth)
         /\ \A level, i : NodeAt(nodes, level, i) = ZeroHash[level]
<1>1. ASSUME NEW level, NEW i
      PROVE  NodeAt(nodes, level, i) = ZeroHash[level]
  BY Zenon DEF NodeAt
<1>2. ASSUME NEW level \in 0 .. depth - 1, NEW i \in Nat
      PROVE  ChainTree(nodes, depth)[level + 1][i] =
               HashPair(level, ChainTree(nodes, depth)[level][2 * i],
                        ChainTree(nodes, depth)[level][2 * i + 1])
  <2>1. level \in Nat /\ level \in 0 .. depth /\ level + 1 \in 0 .. depth
        /\ 2 * i \in Nat /\ 2 * i + 1 \in Nat
    OBVIOUS
  <2>2. /\ ChainTree(nodes, depth)[level + 1][i] = ZeroHash[level + 1]
        /\ ChainTree(nodes, depth)[level][2 * i] = ZeroHash[level]
        /\ ChainTree(nodes, depth)[level][2 * i + 1] = ZeroHash[level]
    BY <1>1, <2>1, Zenon DEF ChainTree
  <2> QED
    BY <2>1, <2>2, ZeroStep, Zenon
<1> QED
  BY <1>1, <1>2, Zenon DEF HangsTogether

\* new is what insert_leaf makes of the nodes, by writing the given path.
Writes(path, new, nodes, leaf, index, depth) ==
  /\ path = [level \in 0 .. depth |-> PathRound(path, nodes, leaf, index, level)]
  /\ \A level \in 0 .. depth, i \in Nat :
       NodeAt(new, level, i) =
         IF i = Above(index, level) THEN path[level] ELSE NodeAt(nodes, level, i)
  /\ DOMAIN new = DOMAIN nodes \cup {<<level, Above(index, level)>> : level \in 0 .. depth}

\* What insert_leaf writes: the path above the leaf, and nothing else.
LEMMA InsertedNodes ==
  ASSUME NEW depth \in Nat, NEW nodes, NEW leaf, NEW index \in Nat
  PROVE  \E path : Writes(path, InsertLeaf(nodes, leaf, index, depth), nodes, leaf, index, depth)
<1>1. PICK path : /\ path = [level \in 0 .. depth |-> PathRound(path, nodes, leaf, index, level)]
                  /\ PathHashes(nodes, leaf, index, depth) = path
  BY PathTable
<1>2. PICK written : written = {<<level, Above(index, level)>> : level \in 0 .. depth}
  OBVIOUS
<1>3. PICK new : new = [p \in DOMAIN nodes \cup written |->
                          IF p \in written THEN path[p[1]] ELSE nodes[p]]
  OBVIOUS
<1>4. InsertLeaf(nodes, leaf, index, depth) = new
  BY <1>1, <1>2, <1>3, Zenon DEF InsertLeaf
<1>5. ASSUME NEW level \in 0 .. depth, NEW i \in Nat
      PROVE  NodeAt(new, level, i) =
               IF i = Above(index, level) THEN path[level] ELSE NodeAt(nodes, level, i)
  <2>1. <<level, i>> \in written <=> i = Above(index, level)
    BY <1>2
  <2>2. CASE i = Above(index, level)
    <3>1. <<level, i>> \in DOMAIN new /\ new[<<level, i>>] = path[<<level, i>>[1]]
      BY <1>3, <2>1, <2>2
    <3> QED
      BY <2>2, <3>1 DEF NodeAt
  <2>3. CASE i # Above(index, level)
    <3>1. <<level, i>> \in DOMAIN new <=> <<level, i>> \in DOMAIN nodes
      BY <1>3, <2>1, <2>3
    <3>2. <<level, i>> \in DOMAIN nodes => new[<<level, i>>] = nodes[<<level, i>>]
      BY <1>3, <2>1, <2>3
    <3> QED
      BY <2>3, <3>1, <3>2 DEF NodeAt
  <2> QED
    BY <2>2, <2>3
<1>6. DOMAIN new = DOMAIN nodes \cup written
  BY <1>3
<1> QED
  <2>1. Writes(path, new, nodes, leaf, index, depth)
    BY <1>1, <1>2, <1>5, <1>6, Zenon DEF Writes
  <2> QED
    BY <1>4, <2>1, Zenon

\* An insertion changes one leaf and leaves the tree hanging together: above the
\* leaf by what it computes, elsewhere because no child of a node off the path is
\* on it.
LEMMA InsertKeeps ==
  ASSUME NEW depth \in Nat, NEW nodes, NEW leaf, NEW index \in Nat,
         HangsTogether(ChainTree(nodes, depth), depth)
  PROVE  LET new == InsertLeaf(nodes, leaf, index, depth)
         IN  /\ HangsTogether(ChainTree(new, depth), depth)
             /\ \A i \in Nat : NodeAt(new, 0, i) = IF i = index THEN leaf ELSE NodeAt(nodes, 0, i)
<1>1. PICK new : new = InsertLeaf(nodes, leaf, index, depth)
  OBVIOUS
<1>2. PICK path :
        /\ path = [level \in 0 .. depth |-> PathRound(path, nodes, leaf, index, level)]
        /\ \A level \in 0 .. depth, i \in Nat :
             NodeAt(new, level, i) =
               IF i = Above(index, level) THEN path[level] ELSE NodeAt(nodes, level, i)
  <2>1. PICK path : Writes(path, new, nodes, leaf, index, depth)
    BY <1>1, InsertedNodes, Zenon
  <2> QED
    BY <2>1, Zenon DEF Writes
<1>3. ASSUME NEW level \in 0 .. depth - 1, NEW i \in Nat
      PROVE  NodeAt(new, level + 1, i) =
               HashPair(level, NodeAt(new, level, 2 * i), NodeAt(new, level, 2 * i + 1))
  <2>1. /\ level \in 0 .. depth /\ level + 1 \in 0 .. depth /\ level \in Nat
        /\ level + 1 # 0 /\ (level + 1) - 1 = level
        /\ 2 * i \in Nat /\ 2 * i + 1 \in Nat
    OBVIOUS
  <2>2. PICK a \in Nat, up \in Nat :
          /\ a = Above(index, level) /\ up = Above(index, level + 1)
          /\ a % 2 \in {0, 1} /\ a = 2 * up + (a % 2)
    BY <2>1, UpOne
  <2>3. /\ NodeAt(new, level, 2 * i) = IF 2 * i = a THEN path[level] ELSE NodeAt(nodes, level, 2 * i)
        /\ NodeAt(new, level, 2 * i + 1) =
             IF 2 * i + 1 = a THEN path[level] ELSE NodeAt(nodes, level, 2 * i + 1)
        /\ NodeAt(new, level + 1, i) =
             IF i = up THEN path[level + 1] ELSE NodeAt(nodes, level + 1, i)
    BY <1>2, <2>1, <2>2, Zenon
  <2>4. NodeAt(nodes, level + 1, i) =
          HashPair(level, NodeAt(nodes, level, 2 * i), NodeAt(nodes, level, 2 * i + 1))
    BY <2>1, Zenon DEF HangsTogether, ChainTree
  <2>5. path[level + 1] =
          IF a % 2 = 0 THEN HashPair(level, path[level], NodeAt(nodes, level, a + 1))
          ELSE HashPair(level, NodeAt(nodes, level, a - 1), path[level])
    <3>1. path[level + 1] = PathRound(path, nodes, leaf, index, level + 1)
      BY <1>2, <2>1, Zenon
    <3>2. PathRound(path, nodes, leaf, index, level + 1) =
            IF Above(index, (level + 1) - 1) % 2 = 0
            THEN HashPair((level + 1) - 1, path[(level + 1) - 1],
                          NodeAt(nodes, (level + 1) - 1, Above(index, (level + 1) - 1) + 1))
            ELSE HashPair((level + 1) - 1, NodeAt(nodes, (level + 1) - 1, Above(index, (level + 1) - 1) - 1),
                          path[(level + 1) - 1])
      BY <2>1, Zenon DEF PathRound
    <3> QED
      BY <2>1, <2>2, <3>1, <3>2, Zenon
  <2>6. CASE i # up
    <3>1. 2 * i # a /\ 2 * i + 1 # a
      BY <2>2, <2>6
    <3> QED
      BY <2>3, <2>4, <2>6, <3>1, Zenon
  <2>7. CASE i = up /\ a % 2 = 0
    <3>1. 2 * i = a /\ 2 * i + 1 # a /\ 2 * i + 1 = a + 1
      BY <2>2, <2>7
    <3> QED
      BY <2>3, <2>5, <2>7, <3>1, Zenon
  <2>8. CASE i = up /\ a % 2 = 1
    <3>1. 2 * i # a /\ 2 * i + 1 = a /\ 2 * i = a - 1 /\ a % 2 # 0
      BY <2>2, <2>8
    <3> QED
      BY <2>3, <2>5, <2>8, <3>1, Zenon
  <2> QED
    BY <2>2, <2>6, <2>7, <2>8
<1>4. HangsTogether(ChainTree(new, depth), depth)
  <2>1. ASSUME NEW level \in 0 .. depth - 1, NEW i \in Nat
        PROVE  ChainTree(new, depth)[level + 1][i] =
                 HashPair(level, ChainTree(new, depth)[level][2 * i],
                          ChainTree(new, depth)[level][2 * i + 1])
    <3>1. level \in 0 .. depth /\ level + 1 \in 0 .. depth /\ 2 * i \in Nat /\ 2 * i + 1 \in Nat
      OBVIOUS
    <3>2. /\ ChainTree(new, depth)[level + 1][i] = NodeAt(new, level + 1, i)
          /\ ChainTree(new, depth)[level][2 * i] = NodeAt(new, level, 2 * i)
          /\ ChainTree(new, depth)[level][2 * i + 1] = NodeAt(new, level, 2 * i + 1)
      BY <3>1, Zenon DEF ChainTree
    <3> QED
      BY <1>3, <3>2, Zenon
  <2> QED
    BY <2>1, Zenon DEF HangsTogether
<1>5. ASSUME NEW i \in Nat
      PROVE  NodeAt(new, 0, i) = IF i = index THEN leaf ELSE NodeAt(nodes, 0, i)
  <2>1. 0 \in 0 .. depth /\ Above(index, 0) = index
    BY AboveHalves
  <2>2. path[0] = leaf
    <3>1. path[0] = PathRound(path, nodes, leaf, index, 0)
      BY <1>2, <2>1, Zenon
    <3> QED
      BY <3>1, Zenon DEF PathRound
  <2> QED
    BY <1>2, <2>1, <2>2, Zenon
<1> QED
  BY <1>1, <1>4, <1>5, Zenon

\* A function on 1 .. n is a sequence of length n.
LEMMA LengthOf ==
  ASSUME NEW n \in Nat, NEW s, s = [k \in 1 .. n |-> s[k]]
  PROVE  Len(s) = n
<1>1. PICK V : V = {s[k] : k \in 1 .. n}
  OBVIOUS
<1>2. s \in [1 .. n -> V]
  BY <1>1
<1>3. s \in Seq(V)
  BY <1>2
<1> QED
  BY <1>2, <1>3

\* Half as many, rounded up: the smallest q with m * q >= n, for twice the m.
LEMMA RoundedUp ==
  ASSUME NEW m \in Nat \ {0}, NEW n \in Nat, NEW q \in Nat, NEW r \in 0 .. m - 1, n = m * q - r
  PROVE  /\ (n + m - 1) \div m = q
         /\ \E s \in 0 .. 2 * m - 1 : n = (2 * m) * ((q + 1) \div 2) - s
<1>1. (n + m - 1) \div m = q
  <2>1. n + m - 1 \in Nat
    OBVIOUS
  <2>2. PICK p \in Nat, s \in 0 .. m - 1 : (n + m - 1) \div m = p /\ n + m - 1 = m * p + s
    BY <2>1, Divided
  <2>3. m - 1 - r \in 0 .. m - 1 /\ m * q + (m - 1 - r) = m * p + s /\ p \in Int /\ q \in Int
    BY <2>2
  <2>4. q = p
    BY <2>3, OneQuotient
  <2> QED
    BY <2>2, <2>4
<1>2. PICK h \in Nat, b \in {0, 1} : (q + 1) \div 2 = h /\ q = 2 * h - b
  <2>1. (q + 1) \div 2 \in Nat /\ q + 1 = 2 * ((q + 1) \div 2) + ((q + 1) % 2) /\ (q + 1) % 2 \in {0, 1}
    OBVIOUS
  <2>2. 1 - ((q + 1) % 2) \in {0, 1} /\ q = 2 * ((q + 1) \div 2) - (1 - ((q + 1) % 2))
    BY <2>1
  <2> QED
    BY <2>1, <2>2, Zenon
<1>3. n = m * (2 * h - b) - r
  BY <1>2
<1>4. CASE b = 0
  <2>1. n = (2 * m) * h - r /\ r \in 0 .. 2 * m - 1
    BY <1>3, <1>4
  <2> QED
    BY <1>1, <1>2, <2>1
<1>5. CASE b = 1
  <2>1. n = (2 * m) * h - (m + r) /\ m + r \in 0 .. 2 * m - 1
    BY <1>3, <1>5
  <2> QED
    BY <1>1, <1>2, <2>1
<1> QED
  BY <1>4, <1>5

\* The layers of a mirror.
Layered(layers, leaves, depth) ==
  layers = [level \in 0 .. depth |-> LayerRound(layers, leaves, level)]

\* The layer above a layer: its nodes in pairs.
Paired(layers, level) ==
  [k \in 1 .. (Len(layers[level]) + 1) \div 2 |->
     HashPair(level, LayerNode(layers, level, 2 * (k - 1)),
              LayerNode(layers, level, 2 * (k - 1) + 1))]

\* A layer is made of pairs of the one below.
LEMMA LayerStep ==
  ASSUME NEW depth \in Nat, NEW leaves, NEW layers, Layered(layers, leaves, depth),
         NEW level \in 0 .. depth - 1
  PROVE  layers[level + 1] = Paired(layers, level)
<1>1. level + 1 \in 0 .. depth /\ level + 1 # 0 /\ (level + 1) - 1 = level
  OBVIOUS
<1>2. layers[level + 1] = LayerRound(layers, leaves, level + 1)
  BY <1>1, Zenon DEF Layered
<1>3. LayerRound(layers, leaves, level + 1) =
        [k \in 1 .. (Len(layers[(level + 1) - 1]) + 1) \div 2 |->
           HashPair((level + 1) - 1, LayerNode(layers, (level + 1) - 1, 2 * (k - 1)),
                    LayerNode(layers, (level + 1) - 1, 2 * (k - 1) + 1))]
  BY <1>1, Zenon DEF LayerRound
<1>4. layers[level + 1] =
        [k \in 1 .. (Len(layers[level]) + 1) \div 2 |->
           HashPair(level, LayerNode(layers, level, 2 * (k - 1)),
                    LayerNode(layers, level, 2 * (k - 1) + 1))]
  BY <1>1, <1>2, <1>3
<1> QED
  BY <1>4, Zenon DEF Paired

\* Each layer is half as long as the one below, rounded up.
Lengths(layers, leaves, depth) ==
  /\ \A level \in 0 .. depth :
       /\ Len(layers[level]) \in Nat
       /\ Len(layers[level]) = (Len(leaves) + Pow2[level] - 1) \div Pow2[level]
  /\ \A level \in 0 .. depth - 1 :
       Len(layers[level + 1]) = (Len(layers[level]) + 1) \div 2

\* How long the layers are: level for level half as long, rounded up.
LEMMA LayerLengths ==
  ASSUME NEW depth \in Nat, NEW leaves, NEW layers, Len(leaves) \in Nat,
         Layered(layers, leaves, depth)
  PROVE  Lengths(layers, leaves, depth)
<1>1. /\ 0 \in 0 .. depth
      /\ layers[0] = leaves
  <2>1. 0 \in 0 .. depth
    OBVIOUS
  <2>2. layers[0] = LayerRound(layers, leaves, 0)
    BY <2>1, Zenon DEF Layered
  <2> QED
    BY <2>1, <2>2, Zenon DEF LayerRound
<1>2. ASSUME NEW level \in 0 .. depth - 1
      PROVE  layers[level + 1] = Paired(layers, level)
  BY LayerStep
<1>3. ASSUME NEW level \in 0 .. depth - 1, Len(layers[level]) \in Nat
      PROVE  /\ Len(layers[level + 1]) = (Len(layers[level]) + 1) \div 2
             /\ Len(layers[level + 1]) \in Nat
  <2>1. PICK n \in Nat : n = (Len(layers[level]) + 1) \div 2
    <3>1. PICK q \in Nat : q = Len(layers[level])
      BY <1>3, Zenon
    <3>2. (q + 1) \div 2 \in Nat
      OBVIOUS
    <3> QED
      BY <3>1, <3>2, Zenon
  <2>2. PICK s : s = layers[level + 1]
    OBVIOUS
  <2>3. s = [k \in 1 .. n |-> s[k]]
    <3>1. s = Paired(layers, level)
      BY <1>2, <2>2, Zenon
    <3>2. s = [k \in 1 .. n |-> HashPair(level, LayerNode(layers, level, 2 * (k - 1)),
                                        LayerNode(layers, level, 2 * (k - 1) + 1))]
      BY <2>1, <3>1 DEF Paired
    <3> QED
      BY <3>2
  <2>4. Len(s) = n
    BY <2>3, LengthOf
  <2> QED
    BY <2>1, <2>2, <2>4
<1> DEFINE S == {level \in Nat : level <= depth =>
                   /\ Len(layers[level]) \in Nat
                   /\ \E r \in 0 .. Pow2[level] - 1 : Len(leaves) = Pow2[level] * Len(layers[level]) - r}
<1>4. 0 \in S
  <2>1. 0 \in 0 .. Pow2[0] - 1 /\ Len(leaves) = Pow2[0] * Len(layers[0]) - 0
    BY <1>1, Pow2Step
  <2> QED
    BY <1>1, <2>1
<1>5. ASSUME NEW level \in S
      PROVE  level + 1 \in S
  <2>1. level \in Nat /\ level + 1 \in Nat
    OBVIOUS
  <2>2. SUFFICES ASSUME level + 1 <= depth
                 PROVE  /\ Len(layers[level + 1]) \in Nat
                        /\ \E r \in 0 .. Pow2[level + 1] - 1 :
                             Len(leaves) = Pow2[level + 1] * Len(layers[level + 1]) - r
    BY <2>1
  <2>3. level \in 0 .. depth - 1 /\ level <= depth
    BY <2>1, <2>2
  <2>4. /\ Len(layers[level]) \in Nat
        /\ \E r \in 0 .. Pow2[level] - 1 : Len(leaves) = Pow2[level] * Len(layers[level]) - r
    BY <2>3
  <2> HIDE DEF S
  <2>5. PICK m \in Nat \ {0}, n \in Nat, q \in Nat :
          /\ m = Pow2[level] /\ Pow2[level + 1] = 2 * m
          /\ n = Len(leaves) /\ q = Len(layers[level])
    BY <2>1, <2>4, Pow2Step
  <2>6. PICK r \in 0 .. m - 1 : n = m * q - r
    BY <2>4, <2>5
  <2>7. PICK s \in 0 .. 2 * m - 1 : n = (2 * m) * ((q + 1) \div 2) - s
    BY <2>6, RoundedUp
  <2>8. Len(layers[level + 1]) = (q + 1) \div 2 /\ Len(layers[level + 1]) \in Nat
    BY <1>3, <2>3, <2>4, <2>5
  <2> QED
    BY <2>5, <2>7, <2>8
<1> HIDE DEF S
<1>6. S = Nat
  <2>1. S \in SUBSET Nat
    BY DEF S
  <2> QED
    BY <1>4, <1>5, <2>1, InductionOnNat, Zenon
<1>7. ASSUME NEW level \in 0 .. depth
      PROVE  /\ Len(layers[level]) \in Nat
             /\ Len(layers[level]) = (Len(leaves) + Pow2[level] - 1) \div Pow2[level]
  <2>1. level \in Nat /\ level \in S /\ level <= depth
    BY <1>6
  <2>2. /\ Len(layers[level]) \in Nat
        /\ \E r \in 0 .. Pow2[level] - 1 : Len(leaves) = Pow2[level] * Len(layers[level]) - r
    BY <2>1 DEF S
  <2>3. PICK m \in Nat \ {0}, n \in Nat, q \in Nat :
          m = Pow2[level] /\ n = Len(leaves) /\ q = Len(layers[level])
    BY <2>1, <2>2, Pow2Step
  <2>4. PICK r \in 0 .. m - 1 : n = m * q - r
    BY <2>2, <2>3
  <2>5. (n + m - 1) \div m = q
    BY <2>4, RoundedUp
  <2> QED
    BY <2>2, <2>3, <2>5
<1>8. ASSUME NEW level \in 0 .. depth - 1
      PROVE  Len(layers[level + 1]) = (Len(layers[level]) + 1) \div 2
  <2>1. level \in 0 .. depth
    OBVIOUS
  <2>2. Len(layers[level]) \in Nat
    BY <1>7, <2>1, Zenon
  <2> QED
    BY <1>3, <2>2, Zenon
<1> QED
  BY <1>7, <1>8, Zenon DEF Lengths

\* What a mirror rebuilds hangs together: where a layer ends the nodes below are
\* missing too, and a zero hash is the hash of two.
LEMMA RebuildHangs ==
  ASSUME NEW depth \in Nat, NEW leaves, NEW layers, Len(leaves) \in Nat,
         Layered(layers, leaves, depth)
  PROVE  /\ HangsTogether(LayerTree(layers, depth), depth)
         /\ \A i \in Nat :
              LayerNode(layers, 0, i) = IF i < Len(leaves) THEN leaves[i + 1] ELSE ZeroLeaf
<1>0. ASSUME NEW level \in 0 .. depth - 1
      PROVE  Len(layers[level + 1]) = (Len(layers[level]) + 1) \div 2
  BY LayerLengths, Zenon DEF Lengths
<1>1. ASSUME NEW level \in 0 .. depth - 1, NEW i \in Nat
      PROVE  LayerNode(layers, level + 1, i) =
               HashPair(level, LayerNode(layers, level, 2 * i), LayerNode(layers, level, 2 * i + 1))
  <2>1. level \in 0 .. depth /\ level \in Nat /\ level + 1 \in Nat
    OBVIOUS
  <2>2. PICK q \in Nat : q = Len(layers[level])
    BY <2>1, LayerLengths, Zenon DEF Lengths
  <2>3. PICK h \in Nat : h = (q + 1) \div 2 /\ (i < h => 2 * i < q) /\ (~(i < h) => ~(2 * i < q))
    <3>1. (q + 1) \div 2 \in Nat
      OBVIOUS
    <3>2. (i < (q + 1) \div 2 => 2 * i < q) /\ (~(i < (q + 1) \div 2) => ~(2 * i < q))
      OBVIOUS
    <3> QED
      BY <3>1, <3>2, Zenon
  <2>4. /\ Len(layers[level + 1]) = h
        /\ layers[level + 1] =
             [k \in 1 .. h |-> HashPair(level, LayerNode(layers, level, 2 * (k - 1)),
                                        LayerNode(layers, level, 2 * (k - 1) + 1))]
    <3>1. Len(layers[level + 1]) = (Len(layers[level]) + 1) \div 2
      BY <1>0, Zenon
    <3>3. layers[level + 1] = Paired(layers, level)
      BY LayerStep
    <3>2. (Len(layers[level]) + 1) \div 2 = h
      BY <2>2, <2>3, Zenon
    <3> QED
      BY <3>1, <3>2, <3>3 DEF Paired
  <2>5. CASE i < h
    <3>1. i + 1 \in 1 .. h /\ (i + 1) - 1 = i
      BY <2>5
    <3>2. layers[level + 1][i + 1] =
            HashPair(level, LayerNode(layers, level, 2 * ((i + 1) - 1)),
                     LayerNode(layers, level, 2 * ((i + 1) - 1) + 1))
      BY <2>4, <3>1, Zenon
    <3>3. LayerNode(layers, level + 1, i) = layers[level + 1][i + 1]
      BY <2>4, <2>5, Zenon DEF LayerNode
    <3> QED
      BY <3>1, <3>2, <3>3, Zenon
  <2>6. CASE ~(i < h)
    <3>1. ~(2 * i < q) /\ ~(2 * i + 1 < q)
      BY <2>3, <2>6
    <3>2. /\ LayerNode(layers, level, 2 * i) = ZeroHash[level]
          /\ LayerNode(layers, level, 2 * i + 1) = ZeroHash[level]
      BY <2>2, <3>1, Zenon DEF LayerNode
    <3>3. LayerNode(layers, level + 1, i) = ZeroHash[level + 1]
      BY <2>4, <2>6, Zenon DEF LayerNode
    <3> QED
      BY <2>1, <3>2, <3>3, ZeroStep, Zenon
  <2> QED
    BY <2>5, <2>6
<1>2. HangsTogether(LayerTree(layers, depth), depth)
  <2>1. ASSUME NEW level \in 0 .. depth - 1, NEW i \in Nat
        PROVE  LayerTree(layers, depth)[level + 1][i] =
                 HashPair(level, LayerTree(layers, depth)[level][2 * i],
                          LayerTree(layers, depth)[level][2 * i + 1])
    <3>1. level \in 0 .. depth /\ level + 1 \in 0 .. depth /\ 2 * i \in Nat /\ 2 * i + 1 \in Nat
      OBVIOUS
    <3>2. /\ LayerTree(layers, depth)[level + 1][i] = LayerNode(layers, level + 1, i)
          /\ LayerTree(layers, depth)[level][2 * i] = LayerNode(layers, level, 2 * i)
          /\ LayerTree(layers, depth)[level][2 * i + 1] = LayerNode(layers, level, 2 * i + 1)
      BY <3>1, Zenon DEF LayerTree
    <3> QED
      BY <1>1, <3>2, Zenon
  <2> QED
    BY <2>1, Zenon DEF HangsTogether
<1>3. ASSUME NEW i \in Nat
      PROVE  LayerNode(layers, 0, i) = IF i < Len(leaves) THEN leaves[i + 1] ELSE ZeroLeaf
  <2>1. 0 \in 0 .. depth
    OBVIOUS
  <2>2. layers[0] = LayerRound(layers, leaves, 0)
    BY <2>1, Zenon DEF Layered
  <2>3. layers[0] = leaves
    BY <2>2, Zenon DEF LayerRound
  <2> QED
    BY <2>3, ZeroStep, Zenon DEF LayerNode
<1> QED
  BY <1>2, <1>3, Zenon

\* Trees that agree on the leaves, as the hash reads them, agree on every node.
LEMMA SameTree ==
  ASSUME NEW depth \in Nat, NEW t, NEW u, HangsTogether(t, depth), HangsTogether(u, depth),
         \A i \in Nat : ToFr(0, t[0][i]) = ToFr(0, u[0][i])
  PROVE  /\ \A level \in 0 .. depth, i \in Nat : ToFr(level, t[level][i]) = ToFr(level, u[level][i])
         /\ \A level \in 1 .. depth, i \in Nat : t[level][i] = u[level][i]
<1> DEFINE S == {level \in Nat : level <= depth =>
                   \A i \in Nat : ToFr(level, t[level][i]) = ToFr(level, u[level][i])}
<1>1. 0 \in S
  OBVIOUS
<1>2. ASSUME NEW level \in 0 .. depth - 1,
             \A i \in Nat : ToFr(level, t[level][i]) = ToFr(level, u[level][i])
      PROVE  \A i \in Nat : t[level + 1][i] = u[level + 1][i]
  <2> TAKE i \in Nat
  <2>1. 2 * i \in Nat /\ 2 * i + 1 \in Nat
    OBVIOUS
  <2>2. /\ t[level + 1][i] = HashPair(level, t[level][2 * i], t[level][2 * i + 1])
        /\ u[level + 1][i] = HashPair(level, u[level][2 * i], u[level][2 * i + 1])
    BY Zenon DEF HangsTogether
  <2>3. /\ ToFr(level, t[level][2 * i]) = ToFr(level, u[level][2 * i])
        /\ ToFr(level, t[level][2 * i + 1]) = ToFr(level, u[level][2 * i + 1])
    BY <1>2, <2>1, Zenon
  <2> QED
    BY <2>2, <2>3, Zenon DEF HashPair
<1>3. ASSUME NEW level \in S
      PROVE  level + 1 \in S
  <2>1. level \in Nat /\ level + 1 \in Nat
    OBVIOUS
  <2>2. SUFFICES ASSUME level + 1 <= depth, NEW i \in Nat
                 PROVE  ToFr(level + 1, t[level + 1][i]) = ToFr(level + 1, u[level + 1][i])
    BY <2>1
  <2>3. level \in 0 .. depth - 1 /\ level <= depth
    BY <2>1, <2>2
  <2>4. \A j \in Nat : ToFr(level, t[level][j]) = ToFr(level, u[level][j])
    BY <2>3
  <2> HIDE DEF S
  <2> QED
    BY <1>2, <2>3, <2>4, Zenon
<1> HIDE DEF S
<1>4. S = Nat
  <2>1. S \in SUBSET Nat
    BY DEF S
  <2> QED
    BY <1>1, <1>3, <2>1, InductionOnNat, Zenon
<1>5. ASSUME NEW level \in 0 .. depth
      PROVE  \A i \in Nat : ToFr(level, t[level][i]) = ToFr(level, u[level][i])
  <2>1. level \in S /\ level <= depth
    BY <1>4
  <2> QED
    BY <2>1, Zenon DEF S
<1>6. ASSUME NEW level \in 1 .. depth, NEW i \in Nat
      PROVE  t[level][i] = u[level][i]
  <2>1. level - 1 \in 0 .. depth - 1 /\ level - 1 \in 0 .. depth /\ (level - 1) + 1 = level
    OBVIOUS
  <2>2. t[(level - 1) + 1][i] = u[(level - 1) + 1][i]
    BY <1>2, <1>5, <2>1, Zenon
  <2> QED
    BY <2>1, <2>2, Zenon
<1> QED
  BY <1>5, <1>6, Zenon

\* Walking down from the root one passes the nodes above the leaf.
LEMMA DescendTree ==
  ASSUME NEW depth \in Nat \ {0}, NEW t, HangsTogether(t, depth), NEW i \in Nat, Above(i, depth) = 0
  PROVE  /\ \A level \in 0 .. depth :
              Descend(t[depth][0], i, depth)[level] = ToFr(level, t[level][Above(i, level)])
         /\ Descend(t[depth][0], i, depth)[0] = ToFr(0, t[0][i])
<1>0. PICK d : /\ d = [level \in 0 .. depth |-> DescendRound(d, t[depth][0], i, depth, level)]
               /\ Descend(t[depth][0], i, depth) = d
  <2>1. depth \in Nat
    OBVIOUS
  <2> QED
    BY <2>1, DescendTable
<1> DEFINE S == {n \in Nat : n <= depth => d[depth - n] = ToFr(depth - n, t[depth - n][Above(i, depth - n)])}
<1>1. 0 \in S
  <2>1. depth \in 0 .. depth /\ depth # 0 /\ depth - 0 = depth /\ 0 \in Nat
    OBVIOUS
  <2>2. d[depth] = DescendRound(d, t[depth][0], i, depth, depth)
    BY <1>0, <2>1, Zenon
  <2>3. d[depth] = ToFr(depth, t[depth][Above(i, depth)])
    BY <2>1, <2>2, Zenon DEF DescendRound, ToFr
  <2> QED
    BY <2>1, <2>3
<1>2. ASSUME NEW n \in S
      PROVE  n + 1 \in S
  <2>1. n \in Nat /\ n + 1 \in Nat
    OBVIOUS
  <2>2. SUFFICES ASSUME n + 1 <= depth
                 PROVE  d[depth - (n + 1)] =
                          ToFr(depth - (n + 1), t[depth - (n + 1)][Above(i, depth - (n + 1))])
    BY <2>1
  <2>3. PICK level \in Nat : /\ level = depth - (n + 1) /\ level + 1 = depth - n
                             /\ level \in 0 .. depth - 1 /\ level \in 0 .. depth
                             /\ level # depth /\ level + 1 # 0
    BY <2>1, <2>2
  <2>4. d[depth - n] = ToFr(depth - n, t[depth - n][Above(i, depth - n)])
    BY <2>1, <2>2
  <2> HIDE DEF S
  <2>5. d[level + 1] = t[level + 1][Above(i, level + 1)]
    BY <2>3, <2>4, Zenon DEF ToFr
  <2>6. d[level] = d[level + 1][1 + (Above(i, level) % 2)]
    BY <1>0, <2>3, Zenon DEF DescendRound
  <2>7. PICK a \in Nat, up \in Nat : /\ a = Above(i, level) /\ up = Above(i, level + 1)
                                     /\ a % 2 \in {0, 1} /\ a = 2 * up + (a % 2)
    BY UpOne
  <2>8. t[level + 1][up] = <<ToFr(level, t[level][2 * up]), ToFr(level, t[level][2 * up + 1])>>
    BY <2>3, Zenon DEF HangsTogether, HashPair
  <2>9. d[level] = ToFr(level, t[level][a])
    <3>0. /\ t[level + 1][up][1] = ToFr(level, t[level][2 * up])
          /\ t[level + 1][up][2] = ToFr(level, t[level][2 * up + 1])
      <4>1. PICK x, y : x = ToFr(level, t[level][2 * up]) /\ y = ToFr(level, t[level][2 * up + 1])
        OBVIOUS
      <4>2. t[level + 1][up] = <<x, y>>
        BY <2>8, <4>1, Zenon
      <4> QED
        BY <4>1, <4>2
    <3>1. CASE a % 2 = 0
      <4>1. 1 + (a % 2) = 1 /\ a = 2 * up
        BY <2>7, <3>1
      <4>2. d[level] = d[level + 1][1]
        BY <2>6, <2>7, <4>1, Zenon
      <4> QED
        BY <2>5, <2>7, <3>0, <4>1, <4>2, Zenon
    <3>2. CASE a % 2 = 1
      <4>1. 1 + (a % 2) = 2 /\ a = 2 * up + 1
        BY <2>7, <3>2
      <4>2. d[level] = d[level + 1][2]
        BY <2>6, <2>7, <4>1, Zenon
      <4> QED
        BY <2>5, <2>7, <3>0, <4>1, <4>2, Zenon
    <3> QED
      BY <2>7, <3>1, <3>2
  <2> QED
    BY <2>3, <2>7, <2>9, Zenon
<1> HIDE DEF S
<1>3. S = Nat
  <2>1. S \in SUBSET Nat
    BY DEF S
  <2> QED
    BY <1>1, <1>2, <2>1, InductionOnNat, Zenon
<1>4. ASSUME NEW level \in 0 .. depth
      PROVE  d[level] = ToFr(level, t[level][Above(i, level)])
  <2>1. depth - level \in Nat /\ depth - level <= depth /\ depth - (depth - level) = level
    OBVIOUS
  <2>2. d[depth - (depth - level)] =
          ToFr(depth - (depth - level), t[depth - (depth - level)][Above(i, depth - (depth - level))])
    BY <1>3, <2>1, Zenon DEF S
  <2> QED
    BY <2>1, <2>2, Zenon
<1>5. d[0] = ToFr(0, t[0][i])
  <2>1. 0 \in 0 .. depth /\ Above(i, 0) = i
    BY AboveHalves
  <2> QED
    BY <1>4, <2>1, Zenon
<1> QED
  BY <1>0, <1>4, <1>5, Zenon

\* A path holds the siblings of the nodes above a leaf, and their sides.
Siblings(path, t, index, depth) ==
  \A level \in 0 .. depth - 1 :
    LET a == Above(index, level)
    IN  /\ path[level].bit = a % 2
        /\ path[level].element = t[level][IF a % 2 = 0 THEN a + 1 ELSE a - 1]

\* The circuit's fold of a leaf with its siblings is the root.
LEMMA FoldTree ==
  ASSUME NEW depth \in Nat, NEW t, HangsTogether(t, depth), NEW index \in Nat,
         Above(index, depth) = 0, NEW path, Siblings(path, t, index, depth)
  PROVE  FoldPath(t[0][index], path, depth) = t[depth][0]
<1>1. PICK f : /\ f = [level \in 0 .. depth |-> FoldRound(f, t[0][index], path, level)]
               /\ FoldPath(t[0][index], path, depth) = f[depth]
  BY FoldTable
<1> DEFINE S == {level \in Nat : level <= depth => f[level] = t[level][Above(index, level)]}
<1>2. 0 \in S
  <2>1. 0 \in 0 .. depth /\ Above(index, 0) = index
    BY AboveHalves
  <2>2. f[0] = t[0][index]
    BY <1>1, <2>1, Zenon DEF FoldRound
  <2> QED
    BY <2>1, <2>2
<1>3. ASSUME NEW level \in S
      PROVE  level + 1 \in S
  <2>1. level \in Nat /\ level + 1 \in Nat
    OBVIOUS
  <2>2. SUFFICES ASSUME level + 1 <= depth
                 PROVE  f[level + 1] = t[level + 1][Above(index, level + 1)]
    BY <2>1
  <2>3. /\ level \in 0 .. depth - 1 /\ level <= depth /\ level + 1 \in 0 .. depth
        /\ level + 1 # 0 /\ (level + 1) - 1 = level
    BY <2>1, <2>2
  <2>4. f[level] = t[level][Above(index, level)]
    BY <2>3
  <2> HIDE DEF S
  <2>5. PICK a \in Nat, up \in Nat : /\ a = Above(index, level) /\ up = Above(index, level + 1)
                                     /\ a % 2 \in {0, 1} /\ a = 2 * up + (a % 2)
    BY <2>1, UpOne
  <2>6. /\ path[level].bit = a % 2
        /\ path[level].element = t[level][IF a % 2 = 0 THEN a + 1 ELSE a - 1]
    BY <2>3, <2>5, Zenon DEF Siblings
  <2>7. f[level + 1] = IF path[level].bit = 0
                       THEN HashPair(level, f[level], path[level].element)
                       ELSE HashPair(level, path[level].element, f[level])
    <3>1. f[level + 1] = FoldRound(f, t[0][index], path, level + 1)
      BY <1>1, <2>3, Zenon
    <3>2. FoldRound(f, t[0][index], path, level + 1) =
            IF path[(level + 1) - 1].bit = 0
            THEN HashPair((level + 1) - 1, f[(level + 1) - 1], path[(level + 1) - 1].element)
            ELSE HashPair((level + 1) - 1, path[(level + 1) - 1].element, f[(level + 1) - 1])
      BY <2>3, Zenon DEF FoldRound
    <3> QED
      BY <2>3, <3>1, <3>2, Zenon
  <2>8. t[level + 1][up] = HashPair(level, t[level][2 * up], t[level][2 * up + 1])
    BY <2>3, Zenon DEF HangsTogether
  <2>9. CASE a % 2 = 0
    <3>1. a = 2 * up /\ a + 1 = 2 * up + 1
      BY <2>5, <2>9
    <3>2. path[level].bit = 0 /\ path[level].element = t[level][2 * up + 1]
      BY <2>6, <2>9, <3>1, Zenon
    <3> QED
      BY <2>4, <2>5, <2>7, <2>8, <3>1, <3>2, Zenon
  <2>10. CASE a % 2 = 1
    <3>1. a = 2 * up + 1 /\ a - 1 = 2 * up /\ a % 2 # 0
      BY <2>5, <2>10
    <3>2. path[level].bit # 0 /\ path[level].element = t[level][2 * up]
      BY <2>6, <3>1, Zenon
    <3> QED
      BY <2>4, <2>5, <2>7, <2>8, <3>1, <3>2, Zenon
  <2> QED
    BY <2>5, <2>9, <2>10
<1> HIDE DEF S
<1>4. S = Nat
  <2>1. S \in SUBSET Nat
    BY DEF S
  <2> QED
    BY <1>2, <1>3, <2>1, InductionOnNat, Zenon
<1>5. depth \in S /\ depth <= depth
  BY <1>4
<1>6. f[depth] = t[depth][Above(index, depth)]
  BY <1>5, Zenon DEF S
<1> QED
  BY <1>1, <1>6, Zenon

\* What the bits of a path add up to, level for level.
LEMMA IndexSums ==
  ASSUME NEW depth \in Nat, NEW path, \A level \in 0 .. depth - 1 : path[level].bit \in {0, 1}
  PROVE  \E sum : /\ PathIndex(path, depth) = sum[depth]
                  /\ sum[0] = 0
                  /\ \A level \in 0 .. depth - 1 :
                       sum[level + 1] = sum[level] + path[level].bit * Pow2[level]
                  /\ \A level \in 0 .. depth : sum[level] \in 0 .. Pow2[level] - 1
<1>1. PICK sum : /\ sum = [level \in 0 .. depth |-> IndexRound(sum, path, level)]
                 /\ PathIndex(path, depth) = sum[depth]
  BY IndexTable
<1>2. sum[0] = 0
  <2>1. 0 \in 0 .. depth
    OBVIOUS
  <2> QED
    BY <1>1, <2>1, Zenon DEF IndexRound
<1>3. ASSUME NEW level \in 0 .. depth - 1
      PROVE  sum[level + 1] = sum[level] + path[level].bit * Pow2[level]
  <2>1. level + 1 \in 0 .. depth /\ level + 1 # 0 /\ (level + 1) - 1 = level
    OBVIOUS
  <2>2. sum[level + 1] = IndexRound(sum, path, level + 1)
    BY <1>1, <2>1, Zenon
  <2>3. IndexRound(sum, path, level + 1) =
          sum[(level + 1) - 1] + path[(level + 1) - 1].bit * Pow2[(level + 1) - 1]
    BY <2>1, Zenon DEF IndexRound
  <2> QED
    BY <2>1, <2>2, <2>3, Zenon
<1> DEFINE S == {level \in Nat : level <= depth => sum[level] \in 0 .. Pow2[level] - 1}
<1>4. 0 \in S
  BY <1>2, Pow2Step
<1>5. ASSUME NEW level \in S
      PROVE  level + 1 \in S
  <2>1. level \in Nat /\ level + 1 \in Nat
    OBVIOUS
  <2>2. SUFFICES ASSUME level + 1 <= depth
                 PROVE  sum[level + 1] \in 0 .. Pow2[level + 1] - 1
    BY <2>1
  <2>3. level \in 0 .. depth - 1 /\ level <= depth
    BY <2>1, <2>2
  <2>4. sum[level] \in 0 .. Pow2[level] - 1
    BY <2>3
  <2> HIDE DEF S
  <2>5. PICK m \in Nat \ {0} : m = Pow2[level] /\ Pow2[level + 1] = 2 * m
    BY <2>1, Pow2Step
  <2>6. PICK b \in {0, 1} : b = path[level].bit
    BY <2>3
  <2>7. sum[level + 1] = sum[level] + b * m
    BY <1>3, <2>3, <2>5, <2>6, Zenon
  <2>8. b * m \in {0, m}
    BY <2>6
  <2>9. sum[level] \in 0 .. m - 1
    BY <2>4, <2>5
  <2> QED
    BY <2>5, <2>7, <2>8, <2>9
<1> HIDE DEF S
<1>6. S = Nat
  <2>1. S \in SUBSET Nat
    BY DEF S
  <2> QED
    BY <1>4, <1>5, <2>1, InductionOnNat, Zenon
<1>7. ASSUME NEW level \in 0 .. depth
      PROVE  sum[level] \in 0 .. Pow2[level] - 1
  <2>1. level \in S /\ level <= depth
    BY <1>6
  <2> QED
    BY <2>1, Zenon DEF S
<1> QED
  BY <1>1, <1>2, <1>3, <1>7, Zenon

\* The bits of a path are those of the index they lead from: a leaf of the tree.
LEMMA PathBits ==
  ASSUME NEW depth \in Nat, NEW path, \A level \in 0 .. depth - 1 : path[level].bit \in {0, 1}
  PROVE  /\ PathIndex(path, depth) \in 0 .. Pow2[depth] - 1
         /\ \A level \in 0 .. depth - 1 :
              Above(PathIndex(path, depth), level) =
                2 * Above(PathIndex(path, depth), level + 1) + path[level].bit
<1>1. PICK sum : /\ PathIndex(path, depth) = sum[depth]
                 /\ sum[0] = 0
                 /\ \A level \in 0 .. depth - 1 :
                      sum[level + 1] = sum[level] + path[level].bit * Pow2[level]
                 /\ \A level \in 0 .. depth : sum[level] \in 0 .. Pow2[level] - 1
  BY IndexSums
<1>2. PICK j \in Nat : j = PathIndex(path, depth) /\ j \in 0 .. Pow2[depth] - 1
  <2>1. depth \in 0 .. depth
    OBVIOUS
  <2>2. sum[depth] \in 0 .. Pow2[depth] - 1
    BY <1>1, <2>1, Zenon
  <2>3. sum[depth] \in Nat
    BY <2>2
  <2> QED
    BY <1>1, <2>2, <2>3, Zenon
\* What is left above a level.
<1> DEFINE S == {n \in Nat : n <= depth =>
                   \E q \in Nat : j = Pow2[depth - n] * q + sum[depth - n]}
<1>3. 0 \in S
  <2>1. depth - 0 = depth /\ Pow2[depth] \in Nat
    BY Pow2Step
  <2>2. j = Pow2[depth] * 0 + sum[depth]
    BY <1>1, <1>2, <2>1
  <2> QED
    BY <2>1, <2>2
<1>4. ASSUME NEW level \in 0 .. depth - 1, NEW q \in Nat,
             j = Pow2[level + 1] * q + sum[level + 1]
      PROVE  j = Pow2[level] * (2 * q + path[level].bit) + sum[level]
  <2>1. level \in Nat /\ level \in 0 .. depth
    OBVIOUS
  <2>2. PICK m \in Nat \ {0} : m = Pow2[level] /\ Pow2[level + 1] = 2 * m
    BY <2>1, Pow2Step
  <2>3. PICK b \in {0, 1} : b = path[level].bit
    OBVIOUS
  <2>4. PICK s \in Nat : s = sum[level] /\ sum[level + 1] = s + b * m
    <3>1. sum[level] \in 0 .. Pow2[level] - 1
      BY <1>1, <2>1, Zenon
    <3>2. sum[level] \in Nat
      BY <3>1
    <3> QED
      BY <1>1, <2>2, <2>3, <3>2, Zenon
  <2>5. j = (2 * m) * q + (s + b * m)
    BY <1>4, <2>2, <2>4, Zenon
  <2>6. (2 * m) * q + (s + b * m) = m * (2 * q + b) + s
    OBVIOUS
  <2> QED
    BY <2>2, <2>3, <2>4, <2>5, <2>6, Zenon
<1>5. ASSUME NEW n \in S
      PROVE  n + 1 \in S
  <2>1. n \in Nat /\ n + 1 \in Nat
    OBVIOUS
  <2>2. SUFFICES ASSUME n + 1 <= depth
                 PROVE  \E q \in Nat : j = Pow2[depth - (n + 1)] * q + sum[depth - (n + 1)]
    BY <2>1
  <2>3. PICK level \in 0 .. depth - 1 : level = depth - (n + 1) /\ level + 1 = depth - n
    BY <2>1, <2>2
  <2>4. PICK q \in Nat : j = Pow2[depth - n] * q + sum[depth - n]
    BY <2>1, <2>2
  <2> HIDE DEF S
  <2>5. j = Pow2[level] * (2 * q + path[level].bit) + sum[level]
    BY <1>4, <2>3, <2>4, Zenon
  <2>6. 2 * q + path[level].bit \in Nat
    OBVIOUS
  <2> QED
    BY <2>3, <2>5, <2>6, Zenon
<1> HIDE DEF S
<1>6. S = Nat
  <2>1. S \in SUBSET Nat
    BY DEF S
  <2> QED
    BY <1>3, <1>5, <2>1, InductionOnNat, Zenon
<1>7. ASSUME NEW level \in 0 .. depth - 1
      PROVE  Above(j, level) = 2 * Above(j, level + 1) + path[level].bit
  <2>1. /\ level \in Nat /\ level + 1 \in Nat /\ level \in 0 .. depth /\ level + 1 \in 0 .. depth
        /\ depth - (level + 1) \in Nat /\ depth - (level + 1) <= depth
        /\ depth - (depth - (level + 1)) = level + 1
    OBVIOUS
  <2>2. PICK n \in Nat : n \in S /\ n <= depth /\ depth - n = level + 1
    BY <1>6, <2>1
  <2>3. PICK q \in Nat : j = Pow2[level + 1] * q + sum[level + 1]
    <3>1. \E q \in Nat : j = Pow2[depth - n] * q + sum[depth - n]
      BY <2>2, Zenon DEF S
    <3> QED
      BY <2>2, <3>1, Zenon
  <2>4. sum[level + 1] \in 0 .. Pow2[level + 1] - 1 /\ sum[level] \in 0 .. Pow2[level] - 1
    BY <1>1, <2>1, Zenon
  <2>5. Above(j, level + 1) = q
    BY <2>1, <2>3, <2>4, AboveIs
  <2>6. j = Pow2[level] * (2 * q + path[level].bit) + sum[level]
    BY <1>4, <2>3, Zenon
  <2>7. PICK p \in Nat : p = 2 * q + path[level].bit
    OBVIOUS
  <2>8. Above(j, level) = p
    <3>1. j = Pow2[level] * p + sum[level]
      BY <2>6, <2>7, Zenon
    <3> QED
      BY <2>1, <2>4, <3>1, AboveIs
  <2> QED
    BY <2>5, <2>7, <2>8, Zenon
<1> QED
  BY <1>2, <1>7, Zenon

\* A number is its bits: what goes up from it leads back to it.
LEMMA PathIndexOf ==
  ASSUME NEW depth \in Nat, NEW index \in Nat, Above(index, depth) = 0, NEW path,
         \A level \in 0 .. depth - 1 : path[level].bit = Above(index, level) % 2
  PROVE  PathIndex(path, depth) = index
<1>1. ASSUME NEW level \in 0 .. depth - 1
      PROVE  /\ path[level].bit \in {0, 1}
             /\ Above(index, level) \in Nat /\ Above(index, level + 1) \in Nat
             /\ Above(index, level) = 2 * Above(index, level + 1) + path[level].bit
  <2>1. level \in Nat
    OBVIOUS
  <2>2. PICK a \in Nat, up \in Nat : /\ a = Above(index, level) /\ up = Above(index, level + 1)
                                     /\ a % 2 \in {0, 1} /\ a = 2 * up + (a % 2)
    BY <2>1, UpOne
  <2> QED
    BY <2>2, Zenon
<1>2. PICK j \in 0 .. Pow2[depth] - 1 :
        /\ j = PathIndex(path, depth)
        /\ \A level \in 0 .. depth - 1 :
             Above(j, level) = 2 * Above(j, level + 1) + path[level].bit
  <2>1. \A level \in 0 .. depth - 1 : path[level].bit \in {0, 1}
    BY <1>1, Zenon
  <2> QED
    BY <2>1, PathBits
<1> DEFINE S == {n \in Nat : n <= depth => Above(j, depth - n) = Above(index, depth - n)}
<1>3. 0 \in S
  <2>1. depth - 0 = depth
    OBVIOUS
  <2>2. Above(j, depth) = 0
    BY <1>2, AboveRoot
  <2> QED
    BY <2>1, <2>2
<1>4. ASSUME NEW n \in S
      PROVE  n + 1 \in S
  <2>1. n \in Nat /\ n + 1 \in Nat
    OBVIOUS
  <2>2. SUFFICES ASSUME n + 1 <= depth
                 PROVE  Above(j, depth - (n + 1)) = Above(index, depth - (n + 1))
    BY <2>1
  <2>3. PICK level \in 0 .. depth - 1 : level = depth - (n + 1) /\ level + 1 = depth - n
    BY <2>1, <2>2
  <2>4. Above(j, depth - n) = Above(index, depth - n)
    BY <2>1, <2>2
  <2> HIDE DEF S
  <2>5. Above(j, level + 1) = Above(index, level + 1)
    BY <2>3, <2>4, Zenon
  <2>6. Above(j, level) = Above(index, level)
    <3>1. Above(j, level) = 2 * Above(j, level + 1) + path[level].bit
      BY <1>2, Zenon
    <3>2. Above(index, level) = 2 * Above(index, level + 1) + path[level].bit
      BY <1>1, Zenon
    <3> QED
      BY <2>5, <3>1, <3>2, Zenon
  <2> QED
    BY <2>3, <2>6, Zenon
<1> HIDE DEF S
<1>5. S = Nat
  <2>1. S \in SUBSET Nat
    BY DEF S
  <2> QED
    BY <1>3, <1>4, <2>1, InductionOnNat, Zenon
<1>6. Above(j, 0) = Above(index, 0)
  <2>1. depth \in S /\ depth <= depth /\ depth - depth = 0
    BY <1>5
  <2>2. Above(j, depth - depth) = Above(index, depth - depth)
    BY <2>1, Zenon DEF S
  <2> QED
    BY <2>1, <2>2, Zenon
<1> QED
  <2>1. j \in Nat
    BY Pow2Step
  <2>2. Above(j, 0) = j /\ Above(index, 0) = index
    BY <2>1, AboveHalves
  <2> QED
    BY <1>2, <1>6, <2>2, Zenon

\* The circuit admits no foreign leaf: whatever fold leads to the root starts from
\* the leaf at the index its own bits say.
LEMMA FoldAdmits ==
  ASSUME NEW depth \in Nat \ {0}, NEW t, HangsTogether(t, depth), NEW leaf, NEW path,
         \A level \in 0 .. depth - 1 : path[level].bit \in {0, 1},
         FoldPath(leaf, path, depth) = t[depth][0]
  PROVE  ToFr(0, leaf) = ToFr(0, t[0][PathIndex(path, depth)])
<1>0. depth \in Nat
  OBVIOUS
<1>1. PICK f : /\ f = [level \in 0 .. depth |-> FoldRound(f, leaf, path, level)]
               /\ FoldPath(leaf, path, depth) = f[depth]
  BY <1>0, FoldTable
<1>2. PICK j \in 0 .. Pow2[depth] - 1 :
        /\ j = PathIndex(path, depth)
        /\ \A level \in 0 .. depth - 1 :
             Above(j, level) = 2 * Above(j, level + 1) + path[level].bit
  BY <1>0, PathBits
<1>3. j \in Nat
  BY Pow2Step
<1> DEFINE S == {n \in Nat : n <= depth =>
                   ToFr(depth - n, f[depth - n]) = ToFr(depth - n, t[depth - n][Above(j, depth - n)])}
<1>4. 0 \in S
  <2>1. depth - 0 = depth
    OBVIOUS
  <2>2. Above(j, depth) = 0
    BY <1>0, <1>2, AboveRoot
  <2> QED
    BY <1>1, <2>1, <2>2
<1>5. ASSUME NEW level \in 0 .. depth - 1, f[level + 1] = t[level + 1][Above(j, level + 1)]
      PROVE  ToFr(level, f[level]) = ToFr(level, t[level][Above(j, level)])
  <2>1. /\ level + 1 \in 0 .. depth /\ level + 1 # 0 /\ (level + 1) - 1 = level
        /\ level \in Nat /\ level + 1 \in Nat
    OBVIOUS
  <2>2. PICK up \in Nat : up = Above(j, level + 1)
    BY <1>3, <2>1, AboveHalves, Zenon
  <2>3. t[level + 1][up] = <<ToFr(level, t[level][2 * up]), ToFr(level, t[level][2 * up + 1])>>
    BY Zenon DEF HangsTogether, HashPair
  <2>4. f[level + 1] = IF path[level].bit = 0
                       THEN <<ToFr(level, f[level]), ToFr(level, path[level].element)>>
                       ELSE <<ToFr(level, path[level].element), ToFr(level, f[level])>>
    <3>1. f[level + 1] = FoldRound(f, leaf, path, level + 1)
      BY <1>1, <2>1, Zenon
    <3>2. FoldRound(f, leaf, path, level + 1) =
            IF path[(level + 1) - 1].bit = 0
            THEN HashPair((level + 1) - 1, f[(level + 1) - 1], path[(level + 1) - 1].element)
            ELSE HashPair((level + 1) - 1, path[(level + 1) - 1].element, f[(level + 1) - 1])
      BY <2>1, Zenon DEF FoldRound
    <3> QED
      BY <2>1, <3>1, <3>2, Zenon DEF HashPair
  <2>5. PICK x, y, l, r : /\ x = ToFr(level, f[level]) /\ y = ToFr(level, path[level].element)
                          /\ l = ToFr(level, t[level][2 * up]) /\ r = ToFr(level, t[level][2 * up + 1])
    OBVIOUS
  <2>6. t[level + 1][up] = <<l, r>>
    BY <2>3, <2>5, Zenon
  <2>7. f[level + 1] = t[level + 1][up]
    BY <1>5, <2>2, Zenon
  <2>8. CASE path[level].bit = 0
    <3>1. Above(j, level) = 2 * up
      <4>1. Above(j, level) = 2 * up + 0
        BY <1>2, <2>2, <2>8, Zenon
      <4> QED
        BY <4>1
    <3>2. f[level + 1] = <<x, y>>
      BY <2>4, <2>5, <2>8, Zenon
    <3>3. x = l
      BY <2>6, <2>7, <3>2
    <3> QED
      BY <2>5, <3>1, <3>3, Zenon
  <2>9. CASE path[level].bit = 1
    <3>1. Above(j, level) = 2 * up + 1 /\ path[level].bit # 0
      <4>1. Above(j, level) = 2 * up + 1
        BY <1>2, <2>2, <2>9, Zenon
      <4> QED
        BY <2>9, <4>1
    <3>2. f[level + 1] = <<y, x>>
      BY <2>4, <2>5, <3>1, Zenon
    <3>3. x = r
      BY <2>6, <2>7, <3>2
    <3> QED
      BY <2>5, <3>1, <3>3, Zenon
  <2> QED
    BY <2>8, <2>9
<1>6. ASSUME NEW n \in S
      PROVE  n + 1 \in S
  <2>1. n \in Nat /\ n + 1 \in Nat
    OBVIOUS
  <2>2. SUFFICES ASSUME n + 1 <= depth
                 PROVE  ToFr(depth - (n + 1), f[depth - (n + 1)]) =
                          ToFr(depth - (n + 1), t[depth - (n + 1)][Above(j, depth - (n + 1))])
    BY <2>1
  <2>3. PICK level \in 0 .. depth - 1 :
          level = depth - (n + 1) /\ level + 1 = depth - n /\ level + 1 # 0
    BY <2>1, <2>2
  <2>4. ToFr(depth - n, f[depth - n]) = ToFr(depth - n, t[depth - n][Above(j, depth - n)])
    BY <2>1, <2>2
  <2> HIDE DEF S
  <2>5. f[level + 1] = t[level + 1][Above(j, level + 1)]
    BY <2>3, <2>4, Zenon DEF ToFr
  <2> QED
    BY <1>5, <2>3, <2>5, Zenon
<1> HIDE DEF S
<1>7. S = Nat
  <2>1. S \in SUBSET Nat
    BY DEF S
  <2> QED
    BY <1>4, <1>6, <2>1, InductionOnNat, Zenon
<1>8. ToFr(0, f[0]) = ToFr(0, t[0][Above(j, 0)])
  <2>1. depth \in S /\ depth <= depth /\ depth - depth = 0
    BY <1>7
  <2>2. ToFr(depth - depth, f[depth - depth]) = ToFr(depth - depth, t[depth - depth][Above(j, depth - depth)])
    BY <2>1, Zenon DEF S
  <2> QED
    BY <2>1, <2>2, Zenon
<1>9. f[0] = leaf
  <2>1. 0 \in 0 .. depth
    OBVIOUS
  <2> QED
    BY <1>1, <2>1, Zenon DEF FoldRound
<1> QED
  <2>1. Above(j, 0) = j
    BY <1>3, AboveHalves
  <2> QED
    BY <1>2, <1>8, <1>9, <2>1, Zenon
=============================================================================
