SPECIFICATION DeviceSpec
CONSTANTS
  t1 = t1
  t2 = t2
  Technicians = {t1}
  Machines <- MCMachines
  Sticks <- MCSticks
  MaxAudits = 1
INVARIANTS
  RegistryNeverPasses
CHECK_DEADLOCK FALSE
