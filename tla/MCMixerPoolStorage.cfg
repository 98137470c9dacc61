SPECIFICATION Spec
CONSTANTS
  Pool = Pool
  alice = alice
  n1 = n1
  n2 = n2
  c1 = c1
  c2 = c2
  cz = cz
  h1 = h1
  h2 = h2
  s1 = s1
  v1 = v1
  z0 = z0
  g1 = g1
  g2 = g2
  aAlice = aAlice
  aPool = aPool
  ZeroLeaf <- MCZeroLeaf
  Address <- MCAddress
  Note <- MCNote
  Commitment <- MCCommitment
  NullifierHash <- MCNullifierHash
  Fr <- MCFr
  BytesToFr <- MCBytesToFr
  CommitmentOf <- MCCommitmentOf
  NullifierHashOf <- MCNullifierHashOf
  AddressToField <- MCAddressToField
  InitialBalance <- MCInitialBalance
  VkLoaded = TRUE
  CircuitDepth = 2
  WordBits = 3
  Denominations = {0, 2}
  MaxFees = {1}
  Depths = {0, 1, 2, 3}
  HistorySizes = {0, 2}
  Fees = {1, 2}
INVARIANTS
  TypeOK
  NewestRootIsCurrent
PROPERTIES
  ImplementsMixerPool
