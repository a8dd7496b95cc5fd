SPECIFICATION Spec
CONSTANTS
  ann = ann
  bob = bob
  cid = cid
  dan = dan
  p1 = p1
  p2 = p2
  r1 = r1
  r2 = r2
  Nobody = Nobody
  None = None
  Users = {ann, bob, cid, dan}
  StartRole <- MCStartRole
  Rights = {"users", "stock"}
  ManagerHas = {"stock"}
  Procs = {p1, p2}
  Requests = {r1, r2}
  Txs = {r1, r2}
  TTL = 1
  LookupTime = 1
  Worlds <- MCWorlds
  Lines = {1, 2, 3}
  Places = {"shelf", "van"}
  Amounts = {1}
  MaxLog = 4
SYMMETRY MCSymmetry
INVARIANTS
  AnAdminRemains
  StockAccounted
PROPERTIES
  EditsLandHere
  RightsEnd
CHECK_DEADLOCK FALSE
