SPECIFICATION FairSpec
CONSTANTS
  Paths = {p1, p2}
  Discoverers = {sweep}
  Collectors = {collection, operator}
  Manual = {operator}
  FileWorkers = 2
  Isolation = TRUE
  NoRow = noRow
  Nobody = nobody
  MaxGeneration = 2
  MaxChanges = 2
  MaxFaults = 1
INVARIANTS
  TypeOK
  SyncExact
  DeletedForGood
PROPERTIES
  NothingUndone
  Catalogued
CHECK_DEADLOCK FALSE
