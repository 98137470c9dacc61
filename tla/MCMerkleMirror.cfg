SPECIFICATION Spec
CONSTANTS
  c1 = c1
  c2 = c2
  cz = cz
  f1 = f1
  f2 = f2
  ZeroLeaf = ZeroLeaf
  Commitment <- MCCommitment
  Fr <- MCFr
  BytesToFr <- MCBytesToFr
  MaxDepth = 3
  MaxPathDepth = 2
INVARIANTS
  TypeOK
  MirrorsChain
  RootCommitsToLeaves
  PathsVerify
  NoForeignLeaf
