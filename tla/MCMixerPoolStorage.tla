-------------------------- MODULE MCMixerPoolStorage --------------------------
(***************************************************************************)
(* A pool with one user and two notes.  The word cz is read as the zero    *)
(* leaf, so that a deposit of it leaves the root as it was.  A commitment  *)
(* is the pair of a secret and a nullifier; those of n2 are the commitment *)
(* of n1 and the zero leaf, so that in a tree higher than the circuit the  *)
(* node above the two opens as n2, and in a lower one a deposit of c2 as   *)
(* n1.                                                                     *)
(***************************************************************************)
EXTENDS MixerPoolStorage

CONSTANTS alice, n1, n2, c1, c2, cz, h1, h2, s1, v1, z0, g1, g2, aAlice, aPool

f1 == <<s1, v1>>
MCZeroLeaf == <<<<z0, z0>>, <<z0, z0>>>>
f2 == <<f1, MCZeroLeaf>>

MCAddress == {alice, Pool}
MCNote == {n1, n2}
MCCommitment == {c1, c2, cz}
MCNullifierHash == {h1, h2}
MCFr == {f1, f2, g1, g2, MCZeroLeaf, aAlice, aPool}

MCBytesToFr == [w \in MCCommitment \cup MCNullifierHash |->
  CASE w = c1 -> f1 [] w = c2 -> f2 [] w = cz -> MCZeroLeaf
    [] w = h1 -> g1 [] w = h2 -> g2]
MCCommitmentOf == [n \in MCNote |-> IF n = n1 THEN f1 ELSE f2]
MCNullifierHashOf == [n \in MCNote |-> IF n = n1 THEN g1 ELSE g2]
MCAddressToField == [a \in MCAddress |-> IF a = alice THEN aAlice ELSE aPool]
MCInitialBalance == [a \in MCAddress |-> IF a = alice THEN 4 ELSE 0]
=============================================================================
