SPECIFICATION Spec
CONSTANTS
  Pool = Pool
  alice = alice
  n1 = n1
  n2 = n2
  n3 = n3
  c1 = c1
  c2 = c2
  c3 = c3
  cz = cz
  h1 = h1
  h2 = h2
  h3 = h3
  f1 = f1
  f2 = f2
  g1 = g1
  g2 = g2
  aAlice = aAlice
  aPool = aPool
  ZeroLeaf = ZeroLeaf
  Address <- MCAddress
  Note <- MCNote
  Commitment <- MCCommitment
  NullifierHash <- MCNullifierHash
  Fr <- MCFr
  BytesToFr <- MCBytesToFr
  CommitmentOf <- MCCommitmentOf
  NullifierHashOf <- MCNullifierHashOf
  AddressToField <- MCAddressToField
  InitialBalance <- MCInitialBalance
  VkLoaded = TRUE
  CircuitDepth = 2
  Opens <- MCOpens
  WordBits = 2
  Denominations = {0, 2}
  MaxFees = {1, 3}
  Depths = {0, 1, 2, 3}
  HistorySizes = {0, 1, 2}
  Fees <- MCFees
INVARIANTS
  NoDoubleWithdrawal
