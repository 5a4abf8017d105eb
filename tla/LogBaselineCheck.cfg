SPECIFICATION Spec
CONSTANTS
  a = a
  b = b
  c1 = c1
  c2 = c2
  k1 = k1
  NoLine = NoLine
  Nobody = Nobody
  Contents = {a, b}
  Trimmed <- PlainTrim
  Collectors = {c1}
  Checkers = {k1}
  ChunkSize = 1
  BatchSize = 1
  Isolation = TRUE
  MaxLines = 2
  MaxInode = 2
  MaxFaults = 1
SYMMETRY Symmetry
INVARIANTS
  TypeOK
  VerdictExact
  NoFalseAlarm
