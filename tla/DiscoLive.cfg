SPECIFICATION FairSpec
CHECK_DEADLOCK FALSE
CONSTANTS
  Devices = {d1}
  NetThreads = {n1, n2}
  Users = {u1}
  Visitors = {}
  None = None
  MaxDesc = 1
  MaxQueue = 2
  SlowVisits = FALSE
INVARIANTS
  DownloadingExact
  ByebyeRespected
PROPERTIES
  EmptiesOnceGone
  TerminateReturns
