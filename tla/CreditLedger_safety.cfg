SPECIFICATION Spec
CONSTANTS
  MaxAmount = 2
  Keys = {k1, k2, k3, k4, k5}
  Buckets = {1, 2}
  Sweepers = {s1, s2}
  Clawbacks = {c1}
  MaxTime = 1
  NoEntry = NoEntry
SYMMETRY KeySymmetry
CHECK_DEADLOCK FALSE
INVARIANTS
  TypeOK
  BucketsBackBalance
  ReservedIsHeld
  SettlementNeverStuck
  LedgerExplainsBalance
  ReversalKeysFresh
PROPERTIES
  KeepsPromise
  SpendsLiveCredits
