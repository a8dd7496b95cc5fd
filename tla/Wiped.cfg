SPECIFICATION MCSpec
CONSTANTS
  Window = 1
  Discards = {2}
  Worlds <- MCWorlds
  Epoch = 3
  Tolerance = 2
  MaxSessions = 2
  q1 = q1
  q2 = q2
  Nobody = Nobody
  Requests = {q1, q2}
  Payloads <- MCWipes
  Calls = {"ready_for_sale"}
  MaxRequests = 3
INVARIANTS
  CertifiedDrivesErased
  ManualSpeaksLast
  EveryErasureCounts
  Settled
PROPERTIES
  SettleKeepsCall
CHECK_DEADLOCK FALSE
