SPECIFICATION Spec
CONSTANTS
  Devices = {d1}
  Embedded = {}
  Services = {s1}
  Silent = {}
  Subscribers = {u1}
  loopwait_ms = 2
  AllClears = FALSE
  MayEnd = TRUE
  MaxValue = 1
INVARIANTS
  SubscriberCurrent
