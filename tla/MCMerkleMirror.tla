--------------------------- MODULE MCMerkleMirror ---------------------------
(***************************************************************************)
(* Trees of depth 1 to 3, over three words, one of them read as the zero   *)
(* leaf.                                                                   *)
(***************************************************************************)
EXTENDS MerkleMirror

CONSTANTS c1, c2, cz, f1, f2

MCCommitment == {c1, c2, cz}
MCFr == {f1, f2, ZeroLeaf}
MCBytesToFr == [w \in MCCommitment |->
  CASE w = c1 -> f1 [] w = c2 -> f2 [] w = cz -> ZeroLeaf]
=============================================================================
