SPECIFICATION FairSpec
CONSTANTS
  Devices = {d1}
  Embedded = {}
  Services = {s1}
  Silent = {}
  Subscribers = {u1}
  loopwait_ms = 2
  AllClears = FALSE
  MayEnd = TRUE
  MaxValue = 2
INVARIANTS
  TypeOK
  ToldOfChanges
PROPERTIES
  RoundsSpaced
  ChangeFetched
  CallsReturn
