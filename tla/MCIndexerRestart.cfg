SPECIFICATION Spec
CONSTANTS
  Limit = 2
  Lookback = 4
  Forms = {"hex"}
  Persistent = TRUE
  MaxEvents = 2
  MaxLedger = 4
  MaxBoots = 2
INVARIANTS
  DurableAcrossRestarts
