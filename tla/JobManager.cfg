SPECIFICATION Spec
CONSTANTS
  Workers = {w1, w2}
  QueueSize = 2
  HistoryLimit = 2
  Keys = {k1, k2}
  NoKey = NoKey
  Fingerprints = {f1, f2, f3}
  NoFingerprint = NoFingerprint
  MaxJobs = 4
SYMMETRY Symmetry
INVARIANTS
  TypeOK
  JobsAccountedFor
  OneActivePerFingerprint
  HistoryBounded
  ShutdownLeavesNoActiveJob
PROPERTY
  KeyKeepsItsJob
CHECK_DEADLOCK FALSE
