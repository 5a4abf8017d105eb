SPECIFICATION FairSpec
CONSTANTS
  Workers = {w1, w2}
  QueueSize = 1
  HistoryLimit = 1
  Keys = {k1}
  NoKey = NoKey
  Fingerprints = {f1, f2}
  NoFingerprint = NoFingerprint
  MaxJobs = 3
PROPERTIES
  KeepsLedger
  ShutdownCompletes
CHECK_DEADLOCK FALSE
