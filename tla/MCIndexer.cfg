SPECIFICATION Spec
CONSTANTS
  Limit = 1
  Lookback = 2
  Forms = {"hex", "xdr_tuple", "encoded"}
  Persistent = TRUE
  MaxEvents = 3
  MaxLedger = 3
  MaxBoots = 2
INVARIANTS
  TypeOK
  CursorExact
  MirrorExact
PROPERTIES
  EveryDepositReached
