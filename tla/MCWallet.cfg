SPECIFICATION WalletSpec
CONSTANTS
  Pool = Pool
  alice = alice
  bob = bob
  carol = carol
  relay = relay
  n1 = n1
  n2 = n2
  c1 = c1
  c2 = c2
  h1 = h1
  h2 = h2
  h3 = h3
  f1 = f1
  f2 = f2
  g1 = g1
  g2 = g2
  aAlice = aAlice
  aBob = aBob
  aCarol = aCarol
  aRelay = aRelay
  aPool = aPool
  ZeroLeaf = ZeroLeaf
  Address <- MCAddress
  Note <- MCNote
  Commitment <- MCCommitment
  NullifierHash <- MCNullifierHash
  Fr <- MCFr
  BytesToFr <- MCBytesToFr
  CommitmentOf <- MCCommitmentOf
  NullifierHashOf <- MCNullifierHashOf
  AddressToField <- MCAddressToField
  InitialBalance <- MCInitialBalance
  Owner = alice
  Recipients <- MCRecipients
  Relayers <- MCRelayers
  MaxInFlight = 1
  VkLoaded = TRUE
  CircuitDepth = 1
  Opens <- MCOpens
  WordBits = 2
  Denominations = {2}
  MaxFees = {1}
  Depths = {1}
  HistorySizes = {1}
  Fees = {1}
INVARIANTS
  WalletTypeOK
  PaidAsProved
PROPERTIES
  EveryDepositRedeemed
