SPECIFICATION Spec
CONSTANTS
  ann = ann
  bob = bob
  r1 = r1
  Shared = Shared
  Nobody = Nobody
  Operators = {ann, bob}
  Records = {r1}
  MaxEvents = 4
INVARIANTS
  OwnAccount
PROPERTIES
  SessionStands
  OwnRecordsGo
CHECK_DEADLOCK FALSE
