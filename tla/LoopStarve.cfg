SPECIFICATION FairSpec
CONSTANTS
  Devices = {d1, d2}
  Embedded = {d2}
  Services = {s1}
  Silent = {}
  Subscribers = {}
  loopwait_ms = 2
  AllClears = FALSE
  MayEnd = FALSE
  MaxValue = 1
PROPERTIES
  ChangeFetched
