SPECIFICATION FairSpec
CONSTANTS
  Tasks = {t1, t2, t3}
  Clients = {o, c1, c2}
  Owner = o
  Workers = {w1, w2}
  m_high = 2
  m_low = 1
  Timed = TRUE
  MayAbort = TRUE
  UIntMax = 7
INVARIANTS
  TypeOK
  CountersExact
  NoLostWakeup
PROPERTIES
  WaitsSound
  ImplementsPool
  QueueProgress
