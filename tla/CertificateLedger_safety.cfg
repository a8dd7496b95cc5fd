SPECIFICATION Spec
CONSTANTS
  a1 = a1
  a2 = a2
  c1 = c1
  c2 = c2
  Nobody = Nobody
  Callers = {c1, c2}
  Assets = {a1, a2}
  Wipes <- MCMachines
  Window = 1
  Discards = {2}
  Day = 10
  MaxRows <- MCRows
SYMMETRY MCSymmetry
INVARIANTS
  LedgerInv
  OneCertificatePerErasure
PROPERTIES
  BookSpec
