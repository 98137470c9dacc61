----------------------------- MODULE MCMixerPool -----------------------------
(***************************************************************************)
(* A pool small enough for TLC.  Notes n2 and n3 share their nullifier,    *)
(* the word cz is read as the zero leaf, and u32 is two bits wide, so that *)
(* depth 2 is the greatest depth: 4 slots, of which the contract uses 3.   *)
(* h3 is a second word for the nullifier h1.  The secret of n3 is the      *)
(* commitment of n1 and its nullifier the zero leaf, so that the node      *)
(* above the two is the commitment of n3.                                  *)
(***************************************************************************)
EXTENDS MixerPool

CONSTANTS alice, n1, n2, n3, c1, c2, c3, cz, h1, h2, h3,
          f1, f2, g1, g2, aAlice, aPool

MCAddress == {alice, Pool}
MCNote == {n1, n2, n3}
MCCommitment == {c1, c2, c3, cz}
MCNullifierHash == {h1, h2, h3}
f3 == <<f1, ZeroLeaf>>
MCFr == {f1, f2, f3, g1, g2, ZeroLeaf, aAlice, aPool}

MCBytesToFr == [w \in MCCommitment \cup MCNullifierHash |->
  CASE w = c1 -> f1 [] w = c2 -> f2 [] w = c3 -> f3 [] w = cz -> ZeroLeaf
    [] w = h1 -> g1 [] w = h2 -> g2 [] w = h3 -> g1]
MCCommitmentOf == [n \in MCNote |->
  CASE n = n1 -> f1 [] n = n2 -> f2 [] n = n3 -> f3]
MCNullifierHashOf == [n \in MCNote |-> IF n = n1 THEN g1 ELSE g2]
MCAddressToField == [a \in MCAddress |-> IF a = alice THEN aAlice ELSE aPool]
MCInitialBalance == [a \in MCAddress |-> IF a = alice THEN 4 ELSE 0]

\* A path of the circuit leads from a node CircuitDepth levels below the root: in a
\* higher tree from an inner node, in a lower one from what a leaf is the hash of.
MCOpens(n, row) ==
  LET depth == CHOOSE d \in 0 .. WordBits : Cardinality(DOMAIN row) = Pow2[d]
      above[level \in 0 .. depth] ==
        IF level = 0 THEN row
        ELSE [i \in 0 .. Pow2[depth - level] - 1 |->
                <<above[level - 1][2 * i], above[level - 1][2 * i + 1]>>]
      below[level \in 0 .. CircuitDepth] ==
        IF level = 0 THEN {row[i] : i \in DOMAIN row}
        ELSE UNION {{x[1], x[2]} : x \in below[level - 1] \cap {f3}}
  IN  IF depth < CircuitDepth THEN CommitmentOf[n] \in below[CircuitDepth - depth]
      ELSE LET nodes == above[depth - CircuitDepth]
           IN  \E i \in DOMAIN nodes : nodes[i] = CommitmentOf[n]

MCFees == {-1, 1, 3}
=============================================================================
