SPECIFICATION Spec
CHECK_DEADLOCK FALSE
CONSTANTS
  Devices = {d1}
  NetThreads = {n1}
  Users = {u1}
  Visitors = {v1}
  None = None
  MaxDesc = 1
  MaxQueue = 2
  SlowVisits = FALSE
SYMMETRY Symmetry
INVARIANTS
  NoLockCycle
