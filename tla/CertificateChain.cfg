SPECIFICATION ChainFairSpec
CONSTANTS
  k1 = k1
  k2 = k2
  Checks = {k1, k2}
  Batch = 2
  MaxIssued = 3
  MaxTampers = 1
  MaxTroubles = 1
INVARIANTS
  NoFalseAlarm
PROPERTIES
  VouchedFor
  ChecksAnswered
  TamperingFound
