SPECIFICATION Spec
CONSTANTS
  ServerIds = {s1, s2}
  LogFileIds = {f1, f2}
  EntryIds = {e1, e2, e3}
  ChunkIds = {c1, c2}
  CheckIds = {k1, k2}
  Names = {n1, n2}
  Hosts = {h1, h2}
  Paths = {p1, p2}
  Lines = {1, 2}
  Numbers = {1, 2}
  NoRow = noRow
  NoId = noId
SYMMETRY Symmetry
INVARIANTS
  TypeOK
  IndexesExact
  NoOrphans
  KeysUnique
  ListsAgree
PROPERTY
  ImplementsDatabase
