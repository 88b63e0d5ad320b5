SPECIFICATION FairSpec
CONSTANTS
  Users = {u1, u2}
  o_searchTimeout = 2
  Grace = 1
  Period = 4
  DevicesExpire = FALSE
  Prompt = TRUE
  MaxEvents = 2
INVARIANTS
  TypeOK
  WindowKept
PROPERTIES
  LookupReturns
