SPECIFICATION DeviceSpec
CONSTANTS
  t1 = t1
  t2 = t2
  Technicians = {t1, t2}
  Machines <- MCMachines
  Sticks <- MCSticks
  MaxAudits = 2
SYMMETRY MCSymmetry
INVARIANTS
  PassIsSeen
  BlankIsBlank
  LocksAreTold
CHECK_DEADLOCK FALSE
