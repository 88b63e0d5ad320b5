SPECIFICATION Spec
CHECK_DEADLOCK FALSE
CONSTANTS
  Services = {s1, s2}
  SIDs = {x1, x2, x3}
  None = None
  MaxEvents = 2
  ReinstallAllowed = FALSE
  DestroyRegistered = FALSE
SYMMETRY Symmetry
INVARIANTS
  TypeOK
  TablesAgree
  NeverCalledAfter
