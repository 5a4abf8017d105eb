SPECIFICATION FairSpec
CONSTANTS
  Sweep1 = s1
  Manual1 = m1
  Operator1 = o1
  Sweeps <- MCSweeps
  Manuals <- MCManuals
  Operators <- MCOperators
  Kind <- MCKind
  FailureThreshold = 1
  BackoffBase = 1
  BackoffMax = 2
  MaxFailures = 1
  Isolation = TRUE
  ApiManaged = TRUE
INVARIANTS
  TypeOK
  RecordOfOnePiece
  OneOperationAtATime
PROPERTIES
  DeletedStaysDeleted
  AttendedAgain
CHECK_DEADLOCK FALSE
