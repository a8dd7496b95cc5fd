SPECIFICATION FairSpec
CONSTANTS
  d1 = d1 d2 = d2 l1 = l1 l2 = l2 r1 = r1 r2 = r2 none = none unknown = unknown nobody = nobody
  Devices = {d1, d2}
  Stocked <- MCStocked
  Lots = {l1, l2}
  FirstLot = l1
  NoLot = none
  Unknown = unknown
  Requests = {r1, r2}
  Nobody = nobody
  Worlds <- MCWorlds
  MaxWrites = 3
  MaxTroubles = 1
  MaxOthers = 1
INVARIANTS
  AuditOnce
  CompletedLanded
  QuietAgrees
PROPERTIES
  QueueMoves
