SPECIFICATION FairSpec
CONSTANTS
  h1 = h1
  h2 = h2
  Names = {1, 2}
  Hosts = {h1, h2}
  Configs <- FilesForTLC
  Writers = {w1}
  MaxServers = 3
  MaxEdits = 1
  MaxFaults = 1
  NoServer = NoServer
INVARIANTS
  TypeOK
  SeededOrWarned
PROPERTIES
  EveryEntryArrives
CHECK_DEADLOCK FALSE
