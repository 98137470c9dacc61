------------------------------- MODULE MCWallet -------------------------------
(***************************************************************************)
(* A wallet with two notes, and a pool whose buffer holds one root, so     *)
(* that every deposit makes the proofs before it useless.  Note n1 may go  *)
(* to two recipients, and its nullifier may be written as h1 or as h3; n2  *)
(* stays in the pool, whose money is there to be paid out a second time.   *)
(***************************************************************************)
EXTENDS Wallet

CONSTANTS alice, bob, carol, relay, n1, n2, c1, c2, h1, h2, h3,
          f1, f2, g1, g2, aAlice, aBob, aCarol, aRelay, aPool

MCAddress == {alice, bob, carol, relay, Pool}
MCNote == {n1, n2}
MCCommitment == {c1, c2}
MCNullifierHash == {h1, h2, h3}
MCFr == {f1, f2, g1, g2, ZeroLeaf, aAlice, aBob, aCarol, aRelay, aPool}

MCBytesToFr == [w \in MCCommitment \cup MCNullifierHash |->
  CASE w = c1 -> f1 [] w = c2 -> f2 [] w = h1 -> g1 [] w = h2 -> g2 [] w = h3 -> g1]
MCCommitmentOf == [n \in MCNote |-> IF n = n1 THEN f1 ELSE f2]
MCNullifierHashOf == [n \in MCNote |-> IF n = n1 THEN g1 ELSE g2]
MCAddressToField == [a \in MCAddress |->
  CASE a = alice -> aAlice [] a = bob -> aBob [] a = carol -> aCarol
    [] a = relay -> aRelay [] a = Pool -> aPool]
MCInitialBalance == [a \in MCAddress |-> IF a = alice THEN 4 ELSE 0]

MCRecipients == [n \in MCNote |-> IF n = n1 THEN {bob, carol} ELSE {}]

MCRelayers == {relay}

\* The depth fits in every run of the wallet.
MCOpens(n, row) == \E i \in DOMAIN row : row[i] = CommitmentOf[n]
=============================================================================
