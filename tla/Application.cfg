SPECIFICATION FairSpec
CONSTANTS
  Sweeps = {collection, integrity}
  Requests = {r1}
  Jobs = {j1, j2}
  Workers = 1
  QueueSize = 1
  Isolation = FALSE
INVARIANTS
  TypeOK
  ClosedUnderCancelOnly
  CleanExit
PROPERTIES
  ReadyMeansAccepting
  SignalEndsProcess
CHECK_DEADLOCK FALSE
