SPECIFICATION GoodsSpec
CONSTANTS
  q1 = q1
  q2 = q2
  i1 = i1
  d1 = d1
  d2 = d2
  d3 = d3
  a = a
  b = b
  s1 = s1
  Nobody = Nobody
  Requests = {q1, q2}
  Items = {i1}
  Stocked <- MCStocked
  Pallets = 2
  Worlds = {"alone", "merging"}
  MaxQty = 1
  MaxPallets = 4
  MaxLines = 4
  MaxRequests = 3
  Devices = {d1, d2, d3}
  Lots = {a, b}
  Subs = {s1}
  Shifts <- MCShifts
  Totals <- MCTotals
SYMMETRY MCSymmetry
INVARIANTS
  StockConserved
  MergesQueue
  SalesAddUp
  ShippedWhole
PROPERTIES
  MergedForGood
  SaleRecordStands
CHECK_DEADLOCK FALSE
