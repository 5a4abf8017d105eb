--------------------------- MODULE MemoryStorageProofs ---------------------------
(***************************************************************************)
(* Theorems about MemoryStorage, for every value of its constants.         *)
(***************************************************************************)
EXTENDS MemoryStorage, FiniteSetTheorems, SequenceTheorems, WellFoundedInduction, TLAPS

IInv == TypeOK /\ IndexesExact /\ NoOrphans /\ KeysUnique

-----------------------------------------------------------------------------
(* What the indexes say is what the tables say                             *)

LEMMA NumberingShape ==
  ASSUME NEW ids, NEW numbers, NEW numbering \in D!Numberings(ids, numbers)
  PROVE  /\ DOMAIN numbering \subseteq ids
         /\ \A id \in DOMAIN numbering : numbering[id] \in numbers
BY DEF D!Numberings

LEMMA FoundLogFiles ==
  ASSUME TypeOK, LogFilesIndexed, NEW s \in ServerIds
  PROVE  LogFilesByServerIDs(s) = D!LogFilesOf(s)
<1>1. ASSUME NEW f \in LogFilesByServerIDs(s) PROVE f \in D!LogFilesOf(s)
  <2>1. PICK p \in Paths : f = logFilesByServer[s][p] /\ f # NoId
    BY <1>1 DEF LogFilesByServerIDs
  <2>2. f \in LogFileIds
    BY <2>1 DEF TypeOK
  <2>3. logFiles[f] = [server |-> s, path |-> p]
    BY <2>1, <2>2 DEF LogFilesIndexed
  <2>4. logFiles[f] # NoRow
    BY <2>3, NoRowAssumption DEF D!LogFileRows
  <2> QED BY <2>2, <2>3, <2>4 DEF D!LogFilesOf, D!Stored, TypeOK
<1>2. ASSUME NEW f \in D!LogFilesOf(s) PROVE f \in LogFilesByServerIDs(s)
  <2>1. f \in LogFileIds /\ logFiles[f] \in D!LogFileRows /\ logFiles[f].server = s
    BY <1>2 DEF D!LogFilesOf, D!Stored, TypeOK
  <2>2. PICK p \in Paths : logFiles[f] = [server |-> s, path |-> p]
    BY <2>1 DEF D!LogFileRows
  <2>3. logFilesByServer[s][p] = f
    BY <2>1, <2>2 DEF LogFilesIndexed
  <2> QED BY <2>1, <2>3, NoIdAssumption DEF LogFilesByServerIDs
<1> QED BY <1>1, <1>2

LEMMA FoundEntries ==
  ASSUME TypeOK, EntriesIndexed, NEW files \in SUBSET LogFileIds
  PROVE  D!Without(entries, IndexedEntries(files)) = D!Without(entries, D!RowsOf(entries, files))
<1>1. ASSUME NEW e \in EntryIds, entries[e] # NoRow
      PROVE  e \in IndexedEntries(files) <=> e \in D!RowsOf(entries, files)
  <2>1. entries[e] \in D!EntryRows
    BY <1>1 DEF TypeOK
  <2>2. PICK f \in LogFileIds, l \in Lines : entries[e] = [file |-> f, line |-> l]
    BY <2>1 DEF D!EntryRows
  <2>3. e \in D!RowsOf(entries, files) <=> f \in files
    BY <1>1, <2>2 DEF D!RowsOf, D!Stored, TypeOK
  <2>4. ASSUME f \in files PROVE e \in IndexedEntries(files)
    BY <1>1, <2>2, <2>4 DEF EntriesIndexed, IndexedEntries
  <2>5. ASSUME e \in IndexedEntries(files) PROVE f \in files
    <3>1. PICK g \in files, k \in Lines : e = entriesByLogFile[g][k]
      BY <2>5 DEF IndexedEntries
    <3>2. entries[e] = [file |-> g, line |-> k]
      BY <1>1, <3>1 DEF EntriesIndexed
    <3> QED BY <2>2, <3>2
  <2> QED BY <2>3, <2>4, <2>5
<1> QED BY <1>1 DEF D!Without, TypeOK

LEMMA FoundChunks ==
  ASSUME TypeOK, ChunksIndexed, NEW files \in SUBSET LogFileIds
  PROVE  IndexedChunks(files) = D!RowsOf(chunks, files)
BY DEF TypeOK, ChunksIndexed, IndexedChunks, D!RowsOf, D!Stored

LEMMA FoundChecks ==
  ASSUME TypeOK, ChecksIndexed, NEW files \in SUBSET LogFileIds
  PROVE  IndexedChecks(files) = D!RowsOf(checks, files)
BY DEF TypeOK, ChecksIndexed, IndexedChecks, D!RowsOf, D!Stored

LEMMA PathFree ==
  ASSUME TypeOK, LogFilesIndexed,
         NEW id \in LogFileIds, NEW s \in ServerIds, NEW p \in Paths
  PROVE  logFilesByServer[s][p] \in {NoId, id} <=> ~D!PathTaken(id, s, p)
<1>1. ASSUME logFilesByServer[s][p] \notin {NoId, id} PROVE D!PathTaken(id, s, p)
  <2>1. PICK f \in LogFileIds \ {id} : logFilesByServer[s][p] = f
    BY <1>1 DEF TypeOK
  <2>2. logFiles[f] = [server |-> s, path |-> p]
    BY <2>1 DEF LogFilesIndexed
  <2>3. f \in D!Stored(logFiles) \ {id}
    BY <2>1, <2>2, NoRowAssumption DEF D!Stored, D!LogFileRows, TypeOK
  <2> QED BY <2>2, <2>3 DEF D!PathTaken
<1>2. ASSUME D!PathTaken(id, s, p) PROVE logFilesByServer[s][p] \notin {NoId, id}
  <2>1. PICK f \in D!Stored(logFiles) \ {id} : logFiles[f].server = s /\ logFiles[f].path = p
    BY <1>2 DEF D!PathTaken
  <2>2. f \in LogFileIds /\ logFiles[f] \in D!LogFileRows
    BY <2>1 DEF D!Stored, TypeOK
  <2>3. logFiles[f] = [server |-> s, path |-> p]
    BY <2>1, <2>2 DEF D!LogFileRows
  <2> QED BY <2>1, <2>2, <2>3, NoIdAssumption DEF LogFilesIndexed
<1> QED BY <1>1, <1>2

LEMMA LineFree ==
  ASSUME TypeOK, EntriesIndexed, NEW f \in LogFileIds, NEW l \in Lines
  PROVE  entriesByLogFile[f][l] = NoId <=> ~D!LineTaken(f, l)
<1>1. ASSUME entriesByLogFile[f][l] # NoId PROVE D!LineTaken(f, l)
  <2>1. PICK e \in EntryIds : entriesByLogFile[f][l] = e
    BY <1>1 DEF TypeOK
  <2>2. entries[e] = [file |-> f, line |-> l]
    BY <2>1 DEF EntriesIndexed
  <2>3. e \in D!RowsOf(entries, {f})
    BY <2>2, NoRowAssumption DEF D!RowsOf, D!Stored, D!EntryRows, TypeOK
  <2> QED BY <2>2, <2>3 DEF D!LineTaken
<1>2. ASSUME D!LineTaken(f, l) PROVE entriesByLogFile[f][l] # NoId
  <2>1. PICK e \in D!RowsOf(entries, {f}) : entries[e].line = l
    BY <1>2 DEF D!LineTaken
  <2>2. e \in EntryIds /\ entries[e] \in D!EntryRows /\ entries[e].file = f
    BY <2>1 DEF D!RowsOf, D!Stored, TypeOK
  <2>3. entries[e] = [file |-> f, line |-> l]
    BY <2>1, <2>2 DEF D!EntryRows
  <2> QED BY <2>2, <2>3, NoIdAssumption DEF EntriesIndexed
<1> QED BY <1>1, <1>2

LEMMA NumberFree ==
  ASSUME TypeOK, ChunksIndexed, NEW f \in LogFileIds, NEW n \in Numbers
  PROVE  (\A c \in chunksByLogFile[f] : chunks[c].number # n) <=> ~D!NumberTaken(f, n)
BY DEF ChunksIndexed, D!NumberTaken

-----------------------------------------------------------------------------
(* Every method does what its statement does                               *)

LEMMA DeletionCascades ==
  ASSUME TypeOK, IndexesExact, NEW files \in SUBSET LogFileIds, DeleteLogFiles(files)
  PROVE  D!Cascade(files)
BY FoundEntries, FoundChunks, FoundChecks DEF IndexesExact, DeleteLogFiles, D!Cascade

LEMMA ServersImplement ==
  ASSUME IInv, NEW id \in ServerIds
  PROVE  /\ \A row \in D!ServerRows : CreateServer(id, row) => D!CreateServer(id, row)
         /\ \A row \in D!ServerRows : UpdateServer(id, row) => D!UpdateServer(id, row)
         /\ DeleteServer(id) => D!DeleteServer(id)
<1>1. ASSUME NEW row \in D!ServerRows, CreateServer(id, row) PROVE D!CreateServer(id, row)
  BY <1>1 DEF CreateServer, D!CreateServer, SameNameOrHost, D!ServerTaken
<1>2. ASSUME NEW row \in D!ServerRows, UpdateServer(id, row) PROVE D!UpdateServer(id, row)
  BY <1>2 DEF UpdateServer, D!UpdateServer, SameNameOrHost, D!ServerTaken
<1>3. ASSUME DeleteServer(id) PROVE D!DeleteServer(id)
  <2>1. LogFilesByServerIDs(id) = D!LogFilesOf(id)
    BY FoundLogFiles DEF IInv, IndexesExact
  <2>2. D!LogFilesOf(id) \in SUBSET LogFileIds
    BY DEF IInv, TypeOK, D!LogFilesOf, D!Stored
  <2>3. D!Cascade(D!LogFilesOf(id))
    BY <1>3, <2>1, <2>2, DeletionCascades DEF IInv, DeleteServer
  <2> QED BY <1>3, <2>3 DEF DeleteServer, D!DeleteServer
<1> QED BY <1>1, <1>2, <1>3

LEMMA LogFilesImplement ==
  ASSUME IInv, NEW id \in LogFileIds
  PROVE  /\ \A row \in D!LogFileRows : CreateLogFile(id, row) => D!CreateLogFile(id, row)
         /\ \A path \in Paths : UpdateLogFile(id, path) => D!UpdateLogFile(id, path)
         /\ DeleteLogFile(id) => D!DeleteLogFile(id)
<1>1. ASSUME NEW row \in D!LogFileRows, CreateLogFile(id, row) PROVE D!CreateLogFile(id, row)
  <2>1. ~D!PathTaken(id, row.server, row.path)
    BY <1>1, PathFree DEF IInv, IndexesExact, CreateLogFile, D!LogFileRows
  <2> QED BY <1>1, <2>1 DEF CreateLogFile, D!CreateLogFile
<1>2. ASSUME NEW path \in Paths, UpdateLogFile(id, path) PROVE D!UpdateLogFile(id, path)
  <2>1. logFiles[id].server \in ServerIds
    BY <1>2 DEF IInv, TypeOK, UpdateLogFile, D!LogFileRows
  <2>2. ~D!PathTaken(id, logFiles[id].server, path)
    BY <1>2, <2>1, PathFree DEF IInv, IndexesExact, UpdateLogFile
  <2> QED BY <1>2, <2>2 DEF UpdateLogFile, D!UpdateLogFile
<1>3. ASSUME DeleteLogFile(id) PROVE D!DeleteLogFile(id)
  BY <1>3, DeletionCascades DEF IInv, DeleteLogFile, D!DeleteLogFile
<1> QED BY <1>1, <1>2, <1>3

LEMMA RowsImplement ==
  ASSUME IInv, NEW file \in LogFileIds
  PROVE  /\ \A lineOf \in D!Numberings(EntryIds, Lines), numberOf \in D!Numberings(ChunkIds, Numbers) :
              CreateLogEntriesWithChunks(file, lineOf, numberOf)
                => D!CreateLogEntriesWithChunks(file, lineOf, numberOf)
         /\ DeleteLogEntriesByLogFile(file) => D!DeleteLogEntriesByLogFile(file)
         /\ DeleteLogChunksByLogFile(file) => D!DeleteLogChunksByLogFile(file)
         /\ \A id \in CheckIds : CreateCheckResult(id, file) => D!CreateCheckResult(id, file)
<1>1. ASSUME NEW lineOf \in D!Numberings(EntryIds, Lines),
             NEW numberOf \in D!Numberings(ChunkIds, Numbers),
             CreateLogEntriesWithChunks(file, lineOf, numberOf)
      PROVE  D!CreateLogEntriesWithChunks(file, lineOf, numberOf)
  <2>1. \A e \in DOMAIN lineOf : entries[e] = NoRow /\ ~D!LineTaken(file, lineOf[e])
    BY <1>1, NumberingShape, LineFree
    DEF IInv, IndexesExact, CreateLogEntriesWithChunks, ValidEntries
  <2>2. \A c \in DOMAIN numberOf : chunks[c] = NoRow /\ ~D!NumberTaken(file, numberOf[c])
    BY <1>1, NumberingShape, NumberFree
    DEF IInv, IndexesExact, CreateLogEntriesWithChunks, ValidChunks
  <2> QED BY <1>1, <2>1, <2>2
          DEF CreateLogEntriesWithChunks, D!CreateLogEntriesWithChunks, ValidEntries, ValidChunks,
              StoreEntries, StoreChunks, NewEntry
<1>2. ASSUME DeleteLogEntriesByLogFile(file) PROVE D!DeleteLogEntriesByLogFile(file)
  BY <1>2, FoundEntries
  DEF IInv, IndexesExact, DeleteLogEntriesByLogFile, D!DeleteLogEntriesByLogFile
<1>3. ASSUME DeleteLogChunksByLogFile(file) PROVE D!DeleteLogChunksByLogFile(file)
  BY <1>3, FoundChunks
  DEF IInv, IndexesExact, DeleteLogChunksByLogFile, D!DeleteLogChunksByLogFile
<1>4. ASSUME NEW id \in CheckIds, CreateCheckResult(id, file) PROVE D!CreateCheckResult(id, file)
  BY <1>4 DEF CreateCheckResult, D!CreateCheckResult
<1> QED BY <1>1, <1>2, <1>3, <1>4

LEMMA StepImplements == IInv /\ [Next]_vars => [D!Next]_D!tables
<1>1. SUFFICES ASSUME IInv, [Next]_vars PROVE [D!Next]_D!tables
  OBVIOUS
<1>2. CASE UNCHANGED vars
  BY <1>2 DEF vars, D!tables
<1>3. CASE Next
  BY <1>1, <1>3, ServersImplement, LogFilesImplement, RowsImplement DEF Next, D!Next
<1> QED BY <1>1, <1>2, <1>3

-----------------------------------------------------------------------------
(* What the constraints of the database give, its statements preserve      *)

Tables ==
  /\ servers \in [ServerIds -> D!ServerRows \cup {NoRow}]
  /\ logFiles \in [LogFileIds -> D!LogFileRows \cup {NoRow}]
  /\ entries \in [EntryIds -> D!EntryRows \cup {NoRow}]
  /\ chunks \in [ChunkIds -> D!ChunkRows \cup {NoRow}]
  /\ checks \in [CheckIds -> D!CheckRows \cup {NoRow}]

LEMMA CascadePreserves ==
  ASSUME Tables, NEW files \in SUBSET LogFileIds, D!Cascade(files)
  PROVE  /\ logFiles' \in [LogFileIds -> D!LogFileRows \cup {NoRow}]
         /\ entries' \in [EntryIds -> D!EntryRows \cup {NoRow}]
         /\ chunks' \in [ChunkIds -> D!ChunkRows \cup {NoRow}]
         /\ checks' \in [CheckIds -> D!CheckRows \cup {NoRow}]
BY DEF Tables, D!Cascade, D!Without

LEMMA BatchPreserves ==
  ASSUME Tables, NEW file \in LogFileIds,
         NEW lineOf \in D!Numberings(EntryIds, Lines), NEW numberOf \in D!Numberings(ChunkIds, Numbers),
         D!CreateLogEntriesWithChunks(file, lineOf, numberOf)
  PROVE  Tables'
<1>1. \A e \in DOMAIN lineOf : [file |-> file, line |-> lineOf[e]] \in D!EntryRows
  BY NumberingShape DEF D!EntryRows
<1>2. \A c \in DOMAIN numberOf : [file |-> file, number |-> numberOf[c]] \in D!ChunkRows
  BY NumberingShape DEF D!ChunkRows
<1>3. entries' \in [EntryIds -> D!EntryRows \cup {NoRow}]
  BY <1>1 DEF Tables, D!CreateLogEntriesWithChunks
<1>4. chunks' \in [ChunkIds -> D!ChunkRows \cup {NoRow}]
  BY <1>2 DEF Tables, D!CreateLogEntriesWithChunks
<1> QED BY <1>3, <1>4 DEF Tables, D!CreateLogEntriesWithChunks

LEMMA TablesPreserved == Tables /\ [D!Next]_D!tables => Tables'
<1>1. SUFFICES ASSUME Tables, [D!Next]_D!tables PROVE Tables'
  OBVIOUS
<1>2. ASSUME NEW id \in ServerIds, NEW row \in D!ServerRows,
             D!CreateServer(id, row) \/ D!UpdateServer(id, row)
      PROVE  Tables'
  BY <1>1, <1>2 DEF Tables, D!CreateServer, D!UpdateServer
<1>3. ASSUME NEW id \in ServerIds, D!DeleteServer(id) PROVE Tables'
  <2>1. D!LogFilesOf(id) \in SUBSET LogFileIds
    BY <1>1 DEF Tables, D!LogFilesOf, D!Stored
  <2>2. servers' \in [ServerIds -> D!ServerRows \cup {NoRow}]
    BY <1>1, <1>3 DEF Tables, D!DeleteServer
  <2> QED BY <1>1, <1>3, <2>1, <2>2, CascadePreserves DEF Tables, D!DeleteServer
<1>4. ASSUME NEW id \in LogFileIds, NEW row \in D!LogFileRows, D!CreateLogFile(id, row)
      PROVE  Tables'
  BY <1>1, <1>4 DEF Tables, D!CreateLogFile
<1>5. ASSUME NEW id \in LogFileIds, NEW path \in Paths, D!UpdateLogFile(id, path)
      PROVE  Tables'
  <2>1. logFiles[id] \in D!LogFileRows
    BY <1>1, <1>5 DEF Tables, D!UpdateLogFile
  <2>2. [logFiles[id] EXCEPT !.path = path] \in D!LogFileRows
    BY <2>1 DEF D!LogFileRows
  <2> QED BY <1>1, <1>5, <2>2 DEF Tables, D!UpdateLogFile
<1>6. ASSUME NEW id \in LogFileIds, D!DeleteLogFile(id) PROVE Tables'
  BY <1>1, <1>6, CascadePreserves DEF Tables, D!DeleteLogFile
<1>7. ASSUME NEW file \in LogFileIds,
             D!DeleteLogEntriesByLogFile(file) \/ D!DeleteLogChunksByLogFile(file)
      PROVE  Tables'
  BY <1>1, <1>7 DEF Tables, D!DeleteLogEntriesByLogFile, D!DeleteLogChunksByLogFile, D!Without
<1>8. ASSUME NEW id \in CheckIds, NEW file \in LogFileIds, D!CreateCheckResult(id, file)
      PROVE  Tables'
  BY <1>1, <1>8 DEF Tables, D!CreateCheckResult, D!CheckRows
<1>9. CASE UNCHANGED D!tables
  BY <1>1, <1>9 DEF Tables, D!tables
<1> QED BY <1>1, <1>2, <1>3, <1>4, <1>5, <1>6, <1>7, <1>8, <1>9, BatchPreserves DEF D!Next

LEMMA OrphansPreserved ==
  ASSUME Tables, Tables', NoOrphans, [D!Next]_D!tables
  PROVE  NoOrphans'
<1> USE DEF Tables, NoOrphans, D!Stored
<1>1. ASSUME NEW id \in ServerIds, NEW row \in D!ServerRows,
             D!CreateServer(id, row) \/ D!UpdateServer(id, row)
      PROVE  NoOrphans'
  <2>1. servers'[id] # NoRow /\ \A s \in ServerIds \ {id} : servers'[s] = servers[s]
    BY <1>1, NoRowAssumption DEF D!CreateServer, D!UpdateServer
  <2>2. \A s \in ServerIds : servers[s] # NoRow => servers'[s] # NoRow
    BY <2>1
  <2>3. \A f \in LogFileIds : logFiles[f] # NoRow => logFiles[f].server \in ServerIds
    BY DEF D!LogFileRows
  <2> QED BY <1>1, <2>2, <2>3 DEF D!CreateServer, D!UpdateServer
<1>2. ASSUME NEW id \in ServerIds, D!DeleteServer(id) PROVE NoOrphans'
  BY <1>2 DEF D!DeleteServer, D!Cascade, D!Without, D!LogFilesOf, D!RowsOf, D!EntryRows, D!ChunkRows, D!CheckRows, D!LogFileRows
<1>3. ASSUME NEW id \in LogFileIds, NEW row \in D!LogFileRows, D!CreateLogFile(id, row)
      PROVE  NoOrphans'
  BY <1>3, NoRowAssumption DEF D!CreateLogFile
<1>4. ASSUME NEW id \in LogFileIds, NEW path \in Paths, D!UpdateLogFile(id, path)
      PROVE  NoOrphans'
  <2>1. /\ logFiles'[id] # NoRow
        /\ logFiles'[id].server = logFiles[id].server
    <3>1. logFiles[id] \in D!LogFileRows
      BY <1>4 DEF D!UpdateLogFile
    <3>2. [logFiles[id] EXCEPT !.path = path] \in D!LogFileRows
      BY <3>1 DEF D!LogFileRows
    <3> QED BY <1>4, <3>1, <3>2, NoRowAssumption DEF D!UpdateLogFile, D!LogFileRows
  <2> QED BY <1>4, <2>1 DEF D!UpdateLogFile
<1>5. ASSUME NEW id \in LogFileIds, D!DeleteLogFile(id) PROVE NoOrphans'
  BY <1>5 DEF D!DeleteLogFile, D!Cascade, D!Without, D!RowsOf, D!EntryRows, D!ChunkRows, D!CheckRows
<1>6. ASSUME NEW file \in LogFileIds,
             NEW lineOf \in D!Numberings(EntryIds, Lines), NEW numberOf \in D!Numberings(ChunkIds, Numbers),
             D!CreateLogEntriesWithChunks(file, lineOf, numberOf)
      PROVE  NoOrphans'
  BY <1>6 DEF D!CreateLogEntriesWithChunks
<1>7. ASSUME NEW file \in LogFileIds,
             D!DeleteLogEntriesByLogFile(file) \/ D!DeleteLogChunksByLogFile(file)
      PROVE  NoOrphans'
  BY <1>7 DEF D!DeleteLogEntriesByLogFile, D!DeleteLogChunksByLogFile, D!Without
<1>8. ASSUME NEW id \in CheckIds, NEW file \in LogFileIds, D!CreateCheckResult(id, file)
      PROVE  NoOrphans'
  BY <1>8 DEF D!CreateCheckResult
<1>9. CASE UNCHANGED D!tables
  BY <1>9 DEF D!tables
<1> QED BY <1>1, <1>2, <1>3, <1>4, <1>5, <1>6, <1>7, <1>8, <1>9 DEF D!Next

LEMMA KeysPreserved ==
  ASSUME Tables, Tables', KeysUnique, [D!Next]_D!tables
  PROVE  KeysUnique'
<1> USE DEF Tables, KeysUnique, D!Stored
<1>1. ASSUME NEW id \in ServerIds, NEW row \in D!ServerRows,
             D!CreateServer(id, row) \/ D!UpdateServer(id, row)
      PROVE  KeysUnique'
  BY <1>1, NoRowAssumption DEF D!CreateServer, D!UpdateServer, D!ServerTaken
<1>2. ASSUME NEW id \in ServerIds, D!DeleteServer(id) PROVE KeysUnique'
  BY <1>2 DEF D!DeleteServer, D!Cascade, D!Without, D!ServerTaken
<1>3. ASSUME NEW id \in LogFileIds, NEW row \in D!LogFileRows, D!CreateLogFile(id, row)
      PROVE  KeysUnique'
  BY <1>3, NoRowAssumption DEF D!CreateLogFile, D!PathTaken, D!ServerTaken
<1>4. ASSUME NEW id \in LogFileIds, NEW path \in Paths, D!UpdateLogFile(id, path)
      PROVE  KeysUnique'
  <2>1. logFiles[id] \in D!LogFileRows
    BY <1>4 DEF D!UpdateLogFile
  <2>2. logFiles'[id] = [server |-> logFiles[id].server, path |-> path]
    BY <1>4, <2>1 DEF D!UpdateLogFile, D!LogFileRows
  <2>3. \A f \in LogFileIds \ {id} : logFiles'[f] = logFiles[f]
    BY <1>4 DEF D!UpdateLogFile
  <2>4. \A f \in LogFileIds \ {id} : logFiles[f] # NoRow => logFiles'[f] # logFiles'[id]
    BY <1>4, <2>2, <2>3 DEF D!UpdateLogFile, D!PathTaken
  <2>5. \A f, g \in D!Stored(logFiles') : logFiles'[f] = logFiles'[g] => f = g
    BY <2>3, <2>4
  <2> QED BY <1>4, <2>5 DEF D!UpdateLogFile, D!ServerTaken
<1>5. ASSUME NEW id \in LogFileIds, D!DeleteLogFile(id) PROVE KeysUnique'
  BY <1>5 DEF D!DeleteLogFile, D!Cascade, D!Without, D!ServerTaken
<1>6. ASSUME NEW file \in LogFileIds,
             NEW lineOf \in D!Numberings(EntryIds, Lines), NEW numberOf \in D!Numberings(ChunkIds, Numbers),
             D!CreateLogEntriesWithChunks(file, lineOf, numberOf)
      PROVE  KeysUnique'
  <2>1. \A e, o \in D!Stored(entries') : entries'[e] = entries'[o] => e = o
    BY <1>6 DEF D!CreateLogEntriesWithChunks, D!LineTaken, D!RowsOf
  <2>2. \A c, o \in D!Stored(chunks') : chunks'[c] = chunks'[o] => c = o
    BY <1>6 DEF D!CreateLogEntriesWithChunks, D!NumberTaken, D!RowsOf
  <2> QED BY <1>6, <2>1, <2>2 DEF D!CreateLogEntriesWithChunks, D!ServerTaken
<1>7. ASSUME NEW file \in LogFileIds,
             D!DeleteLogEntriesByLogFile(file) \/ D!DeleteLogChunksByLogFile(file)
      PROVE  KeysUnique'
  BY <1>7 DEF D!DeleteLogEntriesByLogFile, D!DeleteLogChunksByLogFile, D!Without, D!ServerTaken
<1>8. ASSUME NEW id \in CheckIds, NEW file \in LogFileIds, D!CreateCheckResult(id, file)
      PROVE  KeysUnique'
  BY <1>8 DEF D!CreateCheckResult, D!ServerTaken
<1>9. CASE UNCHANGED D!tables
  BY <1>9 DEF D!tables, D!ServerTaken
<1> QED BY <1>1, <1>2, <1>3, <1>4, <1>5, <1>6, <1>7, <1>8, <1>9 DEF D!Next
-----------------------------------------------------------------------------
(* Every method keeps the indexes exact                                    *)

IndexTypes ==
  /\ logFilesByServer \in [ServerIds -> [Paths -> LogFileIds \cup {NoId}]]
  /\ entriesByLogFile \in [LogFileIds -> [Lines -> EntryIds \cup {NoId}]]
  /\ chunksByLogFile \in [LogFileIds -> SUBSET ChunkIds]
  /\ checksByLogFile \in [LogFileIds -> SUBSET CheckIds]

LEMMA TypesSplit == TypeOK <=> Tables /\ IndexTypes
BY DEF TypeOK, Tables, IndexTypes

RowIndexes == EntriesIndexed /\ ChunksIndexed /\ ChecksIndexed

LEMMA EntriesDropped ==
  ASSUME TypeOK, EntriesIndexed, NEW files \in SUBSET LogFileIds,
         entries' = D!Without(entries, IndexedEntries(files)),
         entriesByLogFile' = [f \in LogFileIds |-> IF f \in files THEN NoLines ELSE entriesByLogFile[f]]
  PROVE  EntriesIndexed'
<1> SUFFICES ASSUME NEW e \in EntryIds, NEW f \in LogFileIds, NEW l \in Lines
             PROVE  entriesByLogFile'[f][l] = e <=> entries'[e] = [file |-> f, line |-> l]
  BY DEF EntriesIndexed
<1>1. entries' = D!Without(entries, D!RowsOf(entries, files))
  BY FoundEntries
<1>2. [file |-> f, line |-> l] # NoRow
  BY NoRowAssumption DEF D!EntryRows
<1>3. entriesByLogFile[f][l] = e <=> entries[e] = [file |-> f, line |-> l]
  BY DEF EntriesIndexed
<1>4. entries[e] = [file |-> f, line |-> l] => (e \in D!RowsOf(entries, files) <=> f \in files)
  BY <1>2 DEF D!RowsOf, D!Stored, TypeOK
<1>5. entries'[e] = IF e \in D!RowsOf(entries, files) THEN NoRow ELSE entries[e]
  BY <1>1 DEF D!Without, TypeOK
<1>6. entriesByLogFile'[f][l] = IF f \in files THEN NoId ELSE entriesByLogFile[f][l]
  BY DEF NoLines
<1>7. CASE f \in files
  BY <1>2, <1>4, <1>5, <1>6, <1>7, NoIdAssumption
<1>8. CASE f \notin files
  BY <1>2, <1>3, <1>4, <1>5, <1>6, <1>8
<1> QED BY <1>7, <1>8

LEMMA DeletionKeepsRowIndexes ==
  ASSUME TypeOK, IndexesExact, NEW files \in SUBSET LogFileIds, DeleteLogFiles(files)
  PROVE  RowIndexes'
<1>1. EntriesIndexed'
  BY EntriesDropped DEF IndexesExact, DeleteLogFiles
<1>2. ChunksIndexed'
  <2>1. chunks' = D!Without(chunks, D!RowsOf(chunks, files))
    BY FoundChunks DEF IndexesExact, DeleteLogFiles
  <2> QED BY <2>1 DEF IndexesExact, ChunksIndexed, DeleteLogFiles, D!Without, D!RowsOf, D!Stored, TypeOK
<1>3. ChecksIndexed'
  <2>1. checks' = D!Without(checks, D!RowsOf(checks, files))
    BY FoundChecks DEF IndexesExact, DeleteLogFiles
  <2> QED BY <2>1 DEF IndexesExact, ChecksIndexed, DeleteLogFiles, D!Without, D!RowsOf, D!Stored, TypeOK
<1> QED BY <1>1, <1>2, <1>3 DEF RowIndexes

LEMMA DeletionKeepsLogFileIndex ==
  ASSUME TypeOK, LogFilesIndexed, NEW files \in SUBSET LogFileIds,
         logFiles' = D!Without(logFiles, files), logFilesByServer' = Unindexed(files)
  PROVE  LogFilesIndexed'
<1> SUFFICES ASSUME NEW f \in LogFileIds, NEW s \in ServerIds, NEW p \in Paths
             PROVE  logFilesByServer'[s][p] = f <=> logFiles'[f] = [server |-> s, path |-> p]
  BY DEF LogFilesIndexed
<1>1. [server |-> s, path |-> p] # NoRow
  BY NoRowAssumption DEF D!LogFileRows
<1>2. \A g \in LogFileIds : logFilesByServer[s][p] = g <=> logFiles[g] = [server |-> s, path |-> p]
  BY DEF LogFilesIndexed
<1>3. logFiles'[f] = IF f \in files THEN NoRow ELSE logFiles[f]
  BY DEF D!Without, TypeOK
<1>4. logFilesByServer'[s][p] =
        IF \E g \in files : logFiles[g] = [server |-> s, path |-> p]
          THEN NoId ELSE logFilesByServer[s][p]
  BY DEF Unindexed
<1>5. CASE \E g \in files : logFiles[g] = [server |-> s, path |-> p]
  <2>1. PICK g \in files : logFiles[g] = [server |-> s, path |-> p]
    BY <1>5
  <2>2. logFilesByServer[s][p] = g
    BY <1>2, <2>1
  <2>3. logFiles'[f] # [server |-> s, path |-> p]
    BY <1>1, <1>2, <1>3, <2>1, <2>2
  <2> QED BY <1>4, <1>5, <2>3, NoIdAssumption
<1>6. CASE ~\E g \in files : logFiles[g] = [server |-> s, path |-> p]
  BY <1>1, <1>2, <1>3, <1>4, <1>6
<1> QED BY <1>5, <1>6
LEMMA ServerLeavesNoPath ==
  ASSUME TypeOK, LogFilesIndexed, NEW id \in ServerIds
  PROVE  [Unindexed(LogFilesByServerIDs(id)) EXCEPT ![id] = NoPaths] = Unindexed(LogFilesByServerIDs(id))
<1> DEFINE files == LogFilesByServerIDs(id)
<1>1. ASSUME NEW p \in Paths PROVE Unindexed(files)[id][p] = NoId
  <2>1. CASE logFilesByServer[id][p] = NoId
    BY <2>1 DEF Unindexed
  <2>2. CASE logFilesByServer[id][p] # NoId
    <3>1. logFilesByServer[id][p] \in LogFileIds
      BY <2>2 DEF TypeOK
    <3>2. logFilesByServer[id][p] \in files
      BY <2>2 DEF LogFilesByServerIDs
    <3>3. logFiles[logFilesByServer[id][p]] = [server |-> id, path |-> p]
      BY <3>1 DEF LogFilesIndexed
    <3> QED BY <3>2, <3>3 DEF Unindexed
  <2> QED BY <2>1, <2>2
<1>2. Unindexed(files)[id] = NoPaths
  BY <1>1 DEF Unindexed, NoPaths
<1> QED BY <1>2 DEF Unindexed

LEMMA NewLogFileIndexed ==
  ASSUME TypeOK, LogFilesIndexed, NEW id \in LogFileIds, NEW row \in D!LogFileRows,
         CreateLogFile(id, row)
  PROVE  LogFilesIndexed'
<1> SUFFICES ASSUME NEW f \in LogFileIds, NEW s \in ServerIds, NEW p \in Paths
             PROVE  logFilesByServer'[s][p] = f <=> logFiles'[f] = [server |-> s, path |-> p]
  BY DEF LogFilesIndexed
<1>1. row.server \in ServerIds /\ row.path \in Paths /\ row = [server |-> row.server, path |-> row.path]
  BY DEF D!LogFileRows
<1>2. [server |-> s, path |-> p] # NoRow
  BY NoRowAssumption DEF D!LogFileRows
<1>3. \A g \in LogFileIds : logFilesByServer[s][p] = g <=> logFiles[g] = [server |-> s, path |-> p]
  BY DEF LogFilesIndexed
<1>4. logFiles'[f] = IF f = id THEN row ELSE logFiles[f]
  BY DEF CreateLogFile, TypeOK
<1>5. logFilesByServer'[s][p] = IF s = row.server /\ p = row.path THEN id ELSE logFilesByServer[s][p]
  BY <1>1 DEF CreateLogFile, TypeOK
<1>6. logFiles[id] = NoRow /\ logFilesByServer[row.server][row.path] = NoId
  BY DEF CreateLogFile
<1>7. CASE s = row.server /\ p = row.path
  <2>1. logFilesByServer[s][p] = NoId
    BY <1>6, <1>7
  <2>2. logFiles[f] # [server |-> s, path |-> p]
    BY <1>3, <2>1, NoIdAssumption
  <2> QED BY <1>1, <1>4, <1>5, <1>7, <2>2
<1>8. CASE ~(s = row.server /\ p = row.path)
  <2>1. row # [server |-> s, path |-> p]
    BY <1>8
  <2>2. logFilesByServer[s][p] # id
    BY <1>2, <1>3, <1>6
  <2> QED BY <1>3, <1>4, <1>5, <1>8, <2>1, <2>2
<1> QED BY <1>7, <1>8

LEMMA MovedLogFileIndexed ==
  ASSUME TypeOK, LogFilesIndexed, NEW id \in LogFileIds, NEW path \in Paths,
         UpdateLogFile(id, path)
  PROVE  LogFilesIndexed' /\ logFilesByServer' \in [ServerIds -> [Paths -> LogFileIds \cup {NoId}]]
<1> DEFINE server == logFiles[id].server
           old == logFiles[id].path
<1>1. server \in ServerIds /\ old \in Paths /\ logFiles[id] = [server |-> server, path |-> old]
  BY DEF UpdateLogFile, TypeOK, D!LogFileRows
<1>2. logFilesByServer[server][path] \in {NoId, id} /\ logFiles[id] # NoRow
  BY DEF UpdateLogFile
<1>3. ASSUME NEW s \in ServerIds, NEW p \in Paths
      PROVE  logFilesByServer'[s][p] =
               IF s = server /\ p = path THEN id
               ELSE IF s = server /\ p = old THEN NoId ELSE logFilesByServer[s][p]
  BY <1>1 DEF UpdateLogFile, Moved, TypeOK
<1>4. logFilesByServer' \in [ServerIds -> [Paths -> LogFileIds \cup {NoId}]]
  BY <1>1 DEF UpdateLogFile, Moved, TypeOK
<1>5. ASSUME NEW f \in LogFileIds, NEW s \in ServerIds, NEW p \in Paths
      PROVE  logFilesByServer'[s][p] = f <=> logFiles'[f] = [server |-> s, path |-> p]
  <2>1. \A g \in LogFileIds : logFilesByServer[s][p] = g <=> logFiles[g] = [server |-> s, path |-> p]
    BY DEF LogFilesIndexed
  <2>2. logFiles'[f] = IF f = id THEN [server |-> server, path |-> path] ELSE logFiles[f]
    BY <1>1 DEF UpdateLogFile, TypeOK
  <2>3. CASE s = server /\ p = path
    <3>1. f # id => logFiles[f] # [server |-> s, path |-> p]
      BY <1>2, <2>1, <2>3, NoIdAssumption
    <3> QED BY <1>3, <2>2, <2>3, <3>1
  <2>4. CASE s = server /\ p = old /\ p # path
    <3>1. f # id => logFiles[f] # [server |-> s, path |-> p]
      BY <1>1, <2>1, <2>4
    <3> QED BY <1>3, <2>2, <2>4, <3>1, NoIdAssumption
  <2>5. CASE ~(s = server /\ (p = path \/ p = old))
    <3>1. logFilesByServer[s][p] # id
      BY <1>1, <2>1, <2>5
    <3> QED BY <1>3, <2>1, <2>2, <2>5, <3>1
  <2> QED BY <2>3, <2>4, <2>5
<1> QED BY <1>4, <1>5 DEF LogFilesIndexed

LEMMA BatchIndexed ==
  ASSUME TypeOK, IndexesExact, NEW file \in LogFileIds,
         NEW lineOf \in D!Numberings(EntryIds, Lines), NEW numberOf \in D!Numberings(ChunkIds, Numbers),
         CreateLogEntriesWithChunks(file, lineOf, numberOf)
  PROVE  /\ EntriesIndexed' /\ ChunksIndexed'
         /\ entriesByLogFile' \in [LogFileIds -> [Lines -> EntryIds \cup {NoId}]]
         /\ chunksByLogFile' \in [LogFileIds -> SUBSET ChunkIds]
<1>1. /\ DOMAIN lineOf \subseteq EntryIds /\ \A e \in DOMAIN lineOf : lineOf[e] \in Lines
      /\ DOMAIN numberOf \subseteq ChunkIds /\ \A c \in DOMAIN numberOf : numberOf[c] \in Numbers
  BY NumberingShape
<1>2. ASSUME NEW f \in LogFileIds, NEW l \in Lines
      PROVE  /\ f # file => entriesByLogFile'[f][l] = entriesByLogFile[f][l]
             /\ f = file /\ (\A e \in DOMAIN lineOf : lineOf[e] # l)
                  => entriesByLogFile'[f][l] = entriesByLogFile[f][l]
             /\ f = file => \A e \in DOMAIN lineOf : lineOf[e] = l => entriesByLogFile'[f][l] = e
  BY DEF CreateLogEntriesWithChunks, ValidEntries, StoreEntries, TypeOK
<1>3. ASSUME NEW e \in EntryIds, NEW f \in LogFileIds, NEW l \in Lines
      PROVE  entriesByLogFile'[f][l] = e <=> entries'[e] = [file |-> f, line |-> l]
  <2>1. entriesByLogFile[f][l] = e <=> entries[e] = [file |-> f, line |-> l]
    BY DEF IndexesExact, EntriesIndexed
  <2>2. e \in DOMAIN lineOf => entries[e] = NoRow
    BY DEF CreateLogEntriesWithChunks, ValidEntries
  <2>3. [file |-> f, line |-> l] # NoRow
    BY NoRowAssumption DEF D!EntryRows
  <2>4. entries'[e] = IF e \in DOMAIN lineOf THEN [file |-> file, line |-> lineOf[e]] ELSE entries[e]
    BY DEF CreateLogEntriesWithChunks, StoreEntries, NewEntry
  <2>5. CASE f # file
    BY <1>2, <2>1, <2>2, <2>3, <2>4, <2>5
  <2>6. CASE f = file /\ \A o \in DOMAIN lineOf : lineOf[o] # l
    BY <1>2, <2>1, <2>2, <2>3, <2>4, <2>6
  <2>7. CASE f = file /\ \E o \in DOMAIN lineOf : lineOf[o] = l
    <3>1. PICK o \in DOMAIN lineOf : lineOf[o] = l
      BY <2>7
    <3>2. entriesByLogFile'[f][l] = o
      BY <1>2, <2>7, <3>1
    <3>3. entriesByLogFile[f][l] = NoId
      BY <2>7, <3>1 DEF CreateLogEntriesWithChunks, ValidEntries
    <3>4. entries[e] # [file |-> f, line |-> l]
      BY <2>1, <3>3, NoIdAssumption
    <3>5. e \in DOMAIN lineOf /\ lineOf[e] = l => e = o
      BY <3>1 DEF CreateLogEntriesWithChunks, ValidEntries
    <3> QED BY <2>4, <2>7, <3>1, <3>2, <3>4, <3>5
  <2> QED BY <2>5, <2>6, <2>7
<1>4. entriesByLogFile' \in [LogFileIds -> [Lines -> EntryIds \cup {NoId}]]
  <2> DEFINE new == [l \in Lines |-> IF \E e \in DOMAIN lineOf : lineOf[e] = l
                                      THEN CHOOSE e \in DOMAIN lineOf : lineOf[e] = l
                                      ELSE entriesByLogFile[file][l]]
  <2>1. new \in [Lines -> EntryIds \cup {NoId}]
    BY <1>1 DEF TypeOK
  <2>2. entriesByLogFile' = [entriesByLogFile EXCEPT ![file] = new]
    BY DEF CreateLogEntriesWithChunks, StoreEntries
  <2> QED BY <2>1, <2>2 DEF TypeOK
<1>5. ChunksIndexed'
  <2> SUFFICES ASSUME NEW f \in LogFileIds PROVE chunksByLogFile'[f] = D!RowsOf(chunks', {f})
    BY DEF ChunksIndexed, D!RowsOf, D!Stored
  <2>1. \A n \in Numbers : [file |-> file, number |-> n] # NoRow
    BY NoRowAssumption DEF D!ChunkRows
  <2>2. chunksByLogFile[f] = D!RowsOf(chunks, {f})
    BY DEF IndexesExact, ChunksIndexed
  <2>3. ASSUME NEW c \in ChunkIds PROVE c \in D!RowsOf(chunks', {f}) <=> c \in chunksByLogFile'[f]
    BY <1>1, <2>1, <2>2
    DEF CreateLogEntriesWithChunks, ValidChunks, StoreChunks, D!RowsOf, D!Stored, TypeOK
  <2>4. chunksByLogFile'[f] \subseteq ChunkIds
    BY <1>1 DEF CreateLogEntriesWithChunks, StoreChunks, TypeOK
  <2>5. D!RowsOf(chunks', {f}) \subseteq ChunkIds
    BY DEF CreateLogEntriesWithChunks, StoreChunks, D!RowsOf, D!Stored
  <2> QED BY <2>3, <2>4, <2>5
<1>6. chunksByLogFile' \in [LogFileIds -> SUBSET ChunkIds]
  BY <1>1 DEF CreateLogEntriesWithChunks, StoreChunks, TypeOK
<1> QED BY <1>3, <1>4, <1>5, <1>6 DEF EntriesIndexed
LEMMA RowsDroppedIndexed ==
  ASSUME TypeOK, IndexesExact, NEW file \in LogFileIds
  PROVE  /\ DeleteLogEntriesByLogFile(file) => EntriesIndexed'
         /\ DeleteLogChunksByLogFile(file) => ChunksIndexed'
<1>1. ASSUME DeleteLogEntriesByLogFile(file) PROVE EntriesIndexed'
  <2>1. entriesByLogFile' = [f \in LogFileIds |-> IF f \in {file} THEN NoLines ELSE entriesByLogFile[f]]
    BY <1>1 DEF DeleteLogEntriesByLogFile, TypeOK
  <2> QED BY <1>1, <2>1, EntriesDropped DEF IndexesExact, DeleteLogEntriesByLogFile
<1>2. ASSUME DeleteLogChunksByLogFile(file) PROVE ChunksIndexed'
  <2>1. chunks' = D!Without(chunks, D!RowsOf(chunks, {file}))
    BY <1>2, FoundChunks DEF IndexesExact, DeleteLogChunksByLogFile
  <2>2. ASSUME NEW f \in LogFileIds
        PROVE  D!RowsOf(chunks', {f}) = IF f = file THEN {} ELSE D!RowsOf(chunks, {f})
    BY <2>1 DEF D!Without, D!RowsOf, D!Stored, TypeOK
  <2>3. ASSUME NEW f \in LogFileIds
        PROVE  chunksByLogFile'[f] = IF f = file THEN {} ELSE chunksByLogFile[f]
    BY <1>2 DEF DeleteLogChunksByLogFile, TypeOK
  <2>4. \A f \in LogFileIds : chunksByLogFile[f] = D!RowsOf(chunks, {f})
    BY DEF IndexesExact, ChunksIndexed
  <2>5. \A f \in LogFileIds : chunksByLogFile'[f] = D!RowsOf(chunks', {f})
    BY <2>2, <2>3, <2>4
  <2> QED BY <2>5 DEF ChunksIndexed, D!RowsOf, D!Stored
<1> QED BY <1>1, <1>2

LEMMA CheckIndexed ==
  ASSUME TypeOK, IndexesExact, NEW id \in CheckIds, NEW file \in LogFileIds,
         CreateCheckResult(id, file)
  PROVE  ChecksIndexed'
<1>1. [file |-> file] # NoRow
  BY NoRowAssumption DEF D!CheckRows
<1> QED BY <1>1 DEF IndexesExact, ChecksIndexed, CreateCheckResult, D!RowsOf, D!Stored, TypeOK

LEMMA DeletionTypes ==
  ASSUME TypeOK, NEW files \in SUBSET LogFileIds, DeleteLogFiles(files)
  PROVE  /\ entriesByLogFile' \in [LogFileIds -> [Lines -> EntryIds \cup {NoId}]]
         /\ chunksByLogFile' \in [LogFileIds -> SUBSET ChunkIds]
         /\ checksByLogFile' \in [LogFileIds -> SUBSET CheckIds]
         /\ Unindexed(files) \in [ServerIds -> [Paths -> LogFileIds \cup {NoId}]]
BY DEF TypeOK, DeleteLogFiles, NoLines, Unindexed

LEMMA IndexesPreserved ==
  TypeOK /\ IndexesExact /\ [Next]_vars => IndexTypes' /\ IndexesExact'
<1> SUFFICES ASSUME TypeOK, IndexesExact, [Next]_vars PROVE IndexTypes' /\ IndexesExact'
  OBVIOUS
<1> DEFINE Goal == IndexTypes /\ IndexesExact
<1>1. ASSUME NEW id \in ServerIds, NEW row \in D!ServerRows,
             CreateServer(id, row) \/ UpdateServer(id, row)
      PROVE  Goal'
  BY <1>1 DEF TypeOK, IndexTypes, CreateServer, UpdateServer, indexes, IndexesExact,
              LogFilesIndexed, EntriesIndexed, ChunksIndexed, ChecksIndexed, D!RowsOf, D!Stored
<1>2. ASSUME NEW id \in ServerIds, DeleteServer(id) PROVE Goal'
  <2> DEFINE files == LogFilesByServerIDs(id)
  <2>1. files \in SUBSET LogFileIds
    BY DEF LogFilesByServerIDs, TypeOK
  <2>2. DeleteLogFiles(files) /\ logFilesByServer' = Unindexed(files)
    BY <1>2, ServerLeavesNoPath DEF DeleteServer, IndexesExact
  <2>3. LogFilesIndexed'
    BY <2>1, <2>2, DeletionKeepsLogFileIndex DEF DeleteLogFiles, IndexesExact
  <2>4. RowIndexes'
    BY <2>1, <2>2, DeletionKeepsRowIndexes
  <2>5. IndexTypes'
    BY <2>1, <2>2, DeletionTypes DEF IndexTypes
  <2> QED BY <2>3, <2>4, <2>5 DEF IndexesExact, RowIndexes
<1>3. ASSUME NEW id \in LogFileIds, NEW row \in D!LogFileRows, CreateLogFile(id, row)
      PROVE  Goal'
  <2>1. LogFilesIndexed'
    BY <1>3, NewLogFileIndexed DEF IndexesExact
  <2>2. RowIndexes'
    BY <1>3 DEF CreateLogFile, IndexesExact, RowIndexes, EntriesIndexed, ChunksIndexed,
                ChecksIndexed, D!RowsOf, D!Stored
  <2>3. IndexTypes'
    BY <1>3 DEF CreateLogFile, TypeOK, IndexTypes, D!LogFileRows
  <2> QED BY <2>1, <2>2, <2>3 DEF IndexesExact, RowIndexes
<1>4. ASSUME NEW id \in LogFileIds, NEW path \in Paths, UpdateLogFile(id, path) PROVE Goal'
  <2>1. LogFilesIndexed' /\ logFilesByServer' \in [ServerIds -> [Paths -> LogFileIds \cup {NoId}]]
    BY <1>4, MovedLogFileIndexed DEF IndexesExact
  <2>2. RowIndexes'
    BY <1>4 DEF UpdateLogFile, IndexesExact, RowIndexes, EntriesIndexed, ChunksIndexed,
                ChecksIndexed, D!RowsOf, D!Stored
  <2>3. IndexTypes'
    BY <1>4, <2>1 DEF UpdateLogFile, TypeOK, IndexTypes
  <2> QED BY <2>1, <2>2, <2>3 DEF IndexesExact, RowIndexes
<1>5. ASSUME NEW id \in LogFileIds, DeleteLogFile(id) PROVE Goal'
  <2>1. DeleteLogFiles({id}) /\ logFilesByServer' = Unindexed({id}) /\ {id} \in SUBSET LogFileIds
    BY <1>5 DEF DeleteLogFile
  <2>2. LogFilesIndexed'
    BY <2>1, DeletionKeepsLogFileIndex DEF DeleteLogFiles, IndexesExact
  <2>3. RowIndexes'
    BY <2>1, DeletionKeepsRowIndexes
  <2>4. IndexTypes'
    BY <2>1, DeletionTypes DEF IndexTypes
  <2> QED BY <2>2, <2>3, <2>4 DEF IndexesExact, RowIndexes
<1>6. ASSUME NEW file \in LogFileIds,
             NEW lineOf \in D!Numberings(EntryIds, Lines), NEW numberOf \in D!Numberings(ChunkIds, Numbers),
             CreateLogEntriesWithChunks(file, lineOf, numberOf)
      PROVE  Goal'
  <2>1. LogFilesIndexed' /\ ChecksIndexed'
    BY <1>6 DEF CreateLogEntriesWithChunks, IndexesExact, LogFilesIndexed, ChecksIndexed,
                D!RowsOf, D!Stored
  <2>2. logFilesByServer' = logFilesByServer /\ checksByLogFile' = checksByLogFile
    BY <1>6 DEF CreateLogEntriesWithChunks
  <2> QED BY <1>6, <2>1, <2>2, BatchIndexed DEF IndexesExact, IndexTypes, TypeOK
<1>7. ASSUME NEW file \in LogFileIds, DeleteLogEntriesByLogFile(file) PROVE Goal'
  <2>1. LogFilesIndexed' /\ ChunksIndexed' /\ ChecksIndexed'
    BY <1>7 DEF DeleteLogEntriesByLogFile, IndexesExact, LogFilesIndexed, ChunksIndexed,
                ChecksIndexed, D!RowsOf, D!Stored
  <2>2. IndexTypes'
    BY <1>7 DEF DeleteLogEntriesByLogFile, IndexTypes, TypeOK, NoLines
  <2> QED BY <1>7, <2>1, <2>2, RowsDroppedIndexed DEF IndexesExact
<1>8. ASSUME NEW file \in LogFileIds, DeleteLogChunksByLogFile(file) PROVE Goal'
  <2>1. LogFilesIndexed' /\ EntriesIndexed' /\ ChecksIndexed'
    BY <1>8 DEF DeleteLogChunksByLogFile, IndexesExact, LogFilesIndexed, EntriesIndexed,
                ChecksIndexed, D!RowsOf, D!Stored
  <2>2. IndexTypes'
    BY <1>8 DEF DeleteLogChunksByLogFile, IndexTypes, TypeOK
  <2> QED BY <1>8, <2>1, <2>2, RowsDroppedIndexed DEF IndexesExact
<1>9. ASSUME NEW id \in CheckIds, NEW file \in LogFileIds, CreateCheckResult(id, file) PROVE Goal'
  <2>1. LogFilesIndexed' /\ EntriesIndexed' /\ ChunksIndexed'
    BY <1>9 DEF CreateCheckResult, IndexesExact, LogFilesIndexed, EntriesIndexed, ChunksIndexed,
                D!RowsOf, D!Stored
  <2>2. IndexTypes'
    BY <1>9 DEF CreateCheckResult, IndexTypes, TypeOK
  <2> QED BY <1>9, <2>1, <2>2, CheckIndexed DEF IndexesExact
<1>10. CASE UNCHANGED vars
  BY <1>10 DEF vars, indexes, TypeOK, IndexTypes, IndexesExact, LogFilesIndexed, EntriesIndexed,
               ChunksIndexed, ChecksIndexed, D!RowsOf, D!Stored
<1> QED BY <1>1, <1>2, <1>3, <1>4, <1>5, <1>6, <1>7, <1>8, <1>9, <1>10 DEF Next

-----------------------------------------------------------------------------
(* The theorems                                                            *)

LEMMA EmptyAtFirst == Init => IInv
<1> SUFFICES ASSUME Init PROVE IInv
  OBVIOUS
<1>1. Tables /\ IndexTypes
  BY DEF Init, D!Init, Tables, IndexTypes, NoPaths, NoLines
<1>2. LogFilesIndexed
  BY NoRowAssumption, NoIdAssumption DEF Init, D!Init, LogFilesIndexed, NoPaths, D!LogFileRows
<1>3. EntriesIndexed
  BY NoRowAssumption, NoIdAssumption DEF Init, D!Init, EntriesIndexed, NoLines, D!EntryRows
<1>4. ChunksIndexed /\ ChecksIndexed /\ NoOrphans /\ KeysUnique
  BY DEF Init, D!Init, ChunksIndexed, ChecksIndexed, NoOrphans, KeysUnique, D!RowsOf, D!Stored
<1> QED BY <1>1, <1>2, <1>3, <1>4, TypesSplit DEF IInv, IndexesExact

LEMMA StepPreserves == IInv /\ [Next]_vars => IInv'
<1> SUFFICES ASSUME IInv, [Next]_vars PROVE IInv'
  OBVIOUS
<1>1. Tables /\ [D!Next]_D!tables
  BY TypesSplit, StepImplements DEF IInv
<1>2. Tables'
  BY <1>1, TablesPreserved
<1>3. IndexTypes' /\ IndexesExact'
  BY IndexesPreserved DEF IInv
<1>4. TypeOK'
  BY <1>2, <1>3 DEF TypeOK, Tables, IndexTypes
<1>5. NoOrphans' /\ KeysUnique'
  BY <1>1, <1>2, OrphansPreserved, KeysPreserved DEF IInv
<1> QED BY <1>3, <1>4, <1>5 DEF IInv

(* The inductive invariant: types, indexes, references and keys.  It takes *)
(* all four: a deletion follows the indexes, and what the indexes say of a *)
(* row can be trusted only while no two rows have the same key.            *)
THEOREM Invariance == Spec => []IInv
<1> QED BY EmptyAtFirst, StepPreserves, PTL DEF Spec

(* Every map of the repository keeps its keys and values.                  *)
THEOREM TypeCorrect == Spec => []TypeOK
<1>1. IInv => TypeOK
  BY DEF IInv
<1> QED BY <1>1, Invariance, PTL

(* The four indexes always name exactly the rows the tables hold, so the   *)
(* readers that use an index and those that scan a table agree.            *)
THEOREM IndexesAlwaysExact == Spec => []IndexesExact
<1>1. IInv => IndexesExact
  BY DEF IInv
<1> QED BY <1>1, Invariance, PTL

(* No deletion leaves an entry, a chunk or a check result without its log  *)
(* file, or a log file without its server.                                 *)
THEOREM NothingOrphaned == Spec => []NoOrphans
<1>1. IInv => NoOrphans
  BY DEF IInv
<1> QED BY <1>1, Invariance, PTL

(* The searches that stand for the unique keys of the database let no      *)
(* duplicate through.                                                      *)
THEOREM KeysAlwaysUnique == Spec => []KeysUnique
<1>1. IInv => KeysUnique
  BY DEF IInv
<1> QED BY <1>1, Invariance, PTL

(* The in-memory repository implements the relational one, whatever the    *)
(* sets of identifiers, names, paths and numbers.                          *)
THEOREM ImplementsTheDatabase == Spec => ImplementsDatabase
<1>1. Init => D!Init
  BY DEF Init
<1> QED BY <1>1, StepImplements, Invariance, PTL DEF Spec, ImplementsDatabase, D!Spec

-----------------------------------------------------------------------------
(* Lists: there is one way to put rows with different keys in order        *)

(* The rows have keys of their own, by which list puts them in order. *)
Keyed(rows, key) ==
  /\ IsFiniteSet(rows)
  /\ \A x \in rows : key[x] \in Int
  /\ \A x, y \in rows : key[x] = key[y] => x = y
InOrder(list, rows, key) ==
  /\ list \in [1 .. Cardinality(rows) -> rows]
  /\ \A i, j \in DOMAIN list : i < j => key[list[i]] < key[list[j]]

UpTo(rows, key, x) == {y \in rows : key[y] <= key[x]}
Rank(rows, key, x) == Cardinality(UpTo(rows, key, x))

LEMMA RankCounts ==
  ASSUME NEW rows, NEW key, Keyed(rows, key)
  PROVE  /\ Cardinality(rows) \in Nat
         /\ \A x \in rows : Rank(rows, key, x) \in 1 .. Cardinality(rows)
         /\ \A x, y \in rows : key[x] < key[y] <=> Rank(rows, key, x) < Rank(rows, key, y)
<1>1. Cardinality(rows) \in Nat
  BY FS_CardinalityType DEF Keyed
<1>2. ASSUME NEW x \in rows
      PROVE  /\ IsFiniteSet(UpTo(rows, key, x)) /\ Rank(rows, key, x) \in Nat
             /\ Rank(rows, key, x) <= Cardinality(rows) /\ Rank(rows, key, x) # 0
  <2>1. UpTo(rows, key, x) \in SUBSET rows /\ x \in UpTo(rows, key, x)
    BY DEF UpTo, Keyed
  <2>2. /\ IsFiniteSet(UpTo(rows, key, x))
        /\ Cardinality(UpTo(rows, key, x)) <= Cardinality(rows)
    BY <2>1, FS_Subset DEF Keyed
  <2>3. Cardinality(UpTo(rows, key, x)) \in Nat /\ Cardinality(UpTo(rows, key, x)) # 0
    BY <2>1, <2>2, FS_CardinalityType, FS_EmptySet
  <2> QED BY <2>2, <2>3 DEF Rank
<1>3. ASSUME NEW x \in rows, NEW y \in rows, key[x] <= key[y]
      PROVE  /\ Rank(rows, key, x) <= Rank(rows, key, y)
             /\ key[x] # key[y] => Rank(rows, key, x) # Rank(rows, key, y)
  <2>1. UpTo(rows, key, x) \in SUBSET UpTo(rows, key, y)
    BY <1>3 DEF UpTo, Keyed
  <2>2. key[x] # key[y] => y \in UpTo(rows, key, y) /\ y \notin UpTo(rows, key, x)
    BY <1>3 DEF UpTo, Keyed
  <2>3. IsFiniteSet(UpTo(rows, key, y))
    BY <1>2
  <2>4. /\ Cardinality(UpTo(rows, key, x)) <= Cardinality(UpTo(rows, key, y))
        /\ Cardinality(UpTo(rows, key, y)) = Cardinality(UpTo(rows, key, x))
             => UpTo(rows, key, y) = UpTo(rows, key, x)
    BY <2>1, <2>3, FS_Subset
  <2> QED BY <2>2, <2>4 DEF Rank
<1>4. \A x \in rows : Rank(rows, key, x) \in 1 .. Cardinality(rows)
  BY <1>1, <1>2
<1>5. ASSUME NEW x \in rows, NEW y \in rows
      PROVE  key[x] < key[y] <=> Rank(rows, key, x) < Rank(rows, key, y)
  <2>1. key[x] \in Int /\ key[y] \in Int /\ Rank(rows, key, x) \in Nat /\ Rank(rows, key, y) \in Nat
    BY <1>2 DEF Keyed
  <2>2. key[x] <= key[y] =>
          /\ Rank(rows, key, x) <= Rank(rows, key, y)
          /\ key[x] # key[y] => Rank(rows, key, x) # Rank(rows, key, y)
    BY <1>3
  <2>3. key[y] <= key[x] => Rank(rows, key, y) <= Rank(rows, key, x)
    BY <1>3
  <2> QED BY <2>1, <2>2, <2>3
<1> QED BY <1>1, <1>4, <1>5

(* A list in order reaches every row, each at its rank. *)
LEMMA OrderIsRank ==
  ASSUME NEW rows, NEW key, Keyed(rows, key), NEW list, InOrder(list, rows, key)
  PROVE  /\ \A x \in rows : \E i \in 1 .. Cardinality(rows) : list[i] = x
         /\ \A i \in 1 .. Cardinality(rows) : Rank(rows, key, list[i]) = i
<1> DEFINE n == Cardinality(rows)
<1>1. n \in Nat /\ DOMAIN list = 1 .. n /\ list \in [1 .. n -> rows]
  BY RankCounts DEF InOrder
<1>2. \A i, j \in 1 .. n : i < j => key[list[i]] < key[list[j]]
  BY <1>1 DEF InOrder
<1>3. \A i, j \in 1 .. n : list[i] = list[j] => i = j
  <2> SUFFICES ASSUME NEW i \in 1 .. n, NEW j \in 1 .. n, list[i] = list[j] PROVE i = j
    OBVIOUS
  <2>1. list[i] \in rows /\ key[list[i]] \in Int
    BY <1>1 DEF Keyed
  <2> QED BY <1>1, <1>2, <2>1
<1>4. list \in Injection(1 .. n, rows)
  BY <1>1, <1>3 DEF Injection, IsInjective
<1>5. IsFiniteSet(1 .. n) /\ Cardinality(1 .. n) = n
  BY <1>1, FS_Interval
<1>6. list \in Surjection(1 .. n, rows)
  BY <1>4, <1>5, FS_Injection DEF Keyed
<1>7. \A x \in rows : \E i \in 1 .. n : list[i] = x
  BY <1>6 DEF Surjection
<1>8. ASSUME NEW i \in 1 .. n PROVE Rank(rows, key, list[i]) = i
  <2> DEFINE first == [j \in 1 .. i |-> list[j]]
             below == UpTo(rows, key, list[i])
  <2>1. \A j \in 1 .. n : key[list[j]] \in Int
    BY <1>1 DEF Keyed
  <2>2. \A j \in 1 .. n : key[list[j]] <= key[list[i]] <=> j <= i
    <3> SUFFICES ASSUME NEW j \in 1 .. n PROVE key[list[j]] <= key[list[i]] <=> j <= i
      OBVIOUS
    <3> QED BY <1>1, <1>2, <2>1
  <2>3. first \in [1 .. i -> below]
    BY <1>1, <2>2 DEF UpTo
  <2>4. \A j, k \in 1 .. i : first[j] = first[k] => j = k
    BY <1>1, <1>3
  <2>5. \A x \in below : \E j \in 1 .. i : first[j] = x
    BY <1>1, <1>7, <2>2 DEF UpTo
  <2>6. first \in Bijection(1 .. i, below)
    BY <2>3, <2>4, <2>5 DEF Bijection, Injection, Surjection, IsInjective
  <2>7. IsFiniteSet(1 .. i) /\ Cardinality(1 .. i) = i
    BY <1>1, FS_Interval
  <2> HIDE DEF first, below
  <2>8. Cardinality(below) = i
    BY <2>6, <2>7, FS_Bijection DEF ExistsBijection
  <2> QED BY <2>8 DEF Rank, below
<1> QED BY <1>7, <1>8

LEMMA OneOrder ==
  ASSUME NEW rows, NEW key, Keyed(rows, key), NEW list, InOrder(list, rows, key),
         NEW other, InOrder(other, rows, key)
  PROVE  list = other
<1>1. ASSUME NEW i \in 1 .. Cardinality(rows) PROVE list[i] = other[i]
  <2>1. Rank(rows, key, list[i]) = i /\ Rank(rows, key, other[i]) = i
    BY OrderIsRank
  <2>2. list[i] \in rows /\ other[i] \in rows
    BY DEF InOrder
  <2>3. i \in Int /\ key[list[i]] \in Int /\ key[other[i]] \in Int
    BY <2>2, RankCounts DEF Keyed
  <2>4. key[list[i]] = key[other[i]]
    BY <2>1, <2>2, <2>3, RankCounts
  <2> QED BY <2>2, <2>4 DEF Keyed
<1> DEFINE places == 1 .. Cardinality(rows)
<1>2. list \in [places -> rows] /\ other \in [places -> rows]
  BY DEF InOrder
<1>3. \A i \in places : list[i] = other[i]
  BY <1>1
<1> HIDE DEF places
<1> QED BY <1>2, <1>3

LEMMA SameCardinality == \A S : D!Cardinality(S) = Cardinality(S)
BY DEF D!Cardinality, Cardinality

(* ORDER BY has a result, and only one. *)
LEMMA SortedInOrder ==
  ASSUME NEW rows, NEW key, Keyed(rows, key)
  PROVE  InOrder(D!Sorted(rows, key), rows, key)
<1> DEFINE n == Cardinality(rows)
           rank == [x \in rows |-> Rank(rows, key, x)]
           list == [i \in 1 .. n |-> CHOOSE x \in rows : rank[x] = i]
<1>1. n \in Nat /\ IsFiniteSet(1 .. n) /\ Cardinality(1 .. n) = n
  BY RankCounts, FS_Interval
<1>2. rank \in [rows -> 1 .. n]
  BY RankCounts
<1>3. \A x, y \in rows : rank[x] = rank[y] => x = y
  <2> SUFFICES ASSUME NEW x \in rows, NEW y \in rows, rank[x] = rank[y] PROVE x = y
    OBVIOUS
  <2>1. Rank(rows, key, x) = Rank(rows, key, y) /\ Rank(rows, key, x) \in Int
    BY <1>1, RankCounts
  <2>2. key[x] \in Int /\ key[y] \in Int /\ ~(key[x] < key[y]) /\ ~(key[y] < key[x])
    BY <2>1, RankCounts DEF Keyed
  <2> QED BY <2>2 DEF Keyed
<1>4. rank \in Injection(rows, 1 .. n)
  BY <1>2, <1>3 DEF Injection, IsInjective
<1>5. rank \in Surjection(rows, 1 .. n)
  <2> HIDE DEF rank
  <2> QED BY <1>1, <1>4, FS_Injection
<1>6. \A i \in 1 .. n : \E x \in rows : rank[x] = i
  BY <1>5 DEF Surjection
<1>7. \A i \in 1 .. n : list[i] \in rows /\ Rank(rows, key, list[i]) = i
  BY <1>6
<1>8. list \in [1 .. n -> rows]
  BY <1>7
<1>9. \A i, j \in DOMAIN list : i < j => key[list[i]] < key[list[j]]
  <2> HIDE DEF list
  <2> SUFFICES ASSUME NEW i \in 1 .. n, NEW j \in 1 .. n, i < j
               PROVE  key[list[i]] < key[list[j]]
    BY <1>8
  <2> QED BY <1>7, RankCounts
<1>10. InOrder(list, rows, key)
  BY <1>8, <1>9 DEF InOrder
<1> HIDE DEF list
<1> QED BY <1>10, SameCardinality DEF InOrder, D!Sorted

LEMMA SortedIsTheOrder ==
  ASSUME NEW rows, NEW key, Keyed(rows, key), NEW list, InOrder(list, rows, key)
  PROVE  list = D!Sorted(rows, key)
BY SortedInOrder, OneOrder

LEMMA FunctionIsList ==
  ASSUME NEW S, NEW n \in Nat, NEW list \in [1 .. n -> S]
  PROVE  list \in Seq(S) /\ Len(list) = n
BY SeqDef, LenProperties

LEMMA OrderIsList ==
  ASSUME NEW rows, NEW key, Keyed(rows, key), NEW list, InOrder(list, rows, key)
  PROVE  list \in Seq(rows) /\ Len(list) = Cardinality(rows)
<1>1. Cardinality(rows) \in Nat
  BY RankCounts
<1> QED BY <1>1, FunctionIsList DEF InOrder

-----------------------------------------------------------------------------
(* Pages                                                                   *)

(* OFFSET and LIMIT are what paginate cuts out. *)
LEMMA PaginateIsPart ==
  ASSUME NEW S, NEW list \in Seq(S), NEW offset \in Nat, NEW limit \in Nat
  PROVE  /\ Paginate(list, offset, limit) = D!Part(list, offset, limit)
         /\ limit # 0 => D!Part(list, offset, limit) = D!Page(list, offset, limit)
         /\ limit # 0 => Paginate(list, offset, limit) =
              SubSeq(list, offset + 1, IF offset + limit < Len(list) THEN offset + limit ELSE Len(list))
<1>1. Len(list) \in Nat /\ \A i \in 1 .. Len(list) : list[i] \in S
  BY LenProperties
<1> DEFINE last == IF limit = 0 \/ offset + limit > Len(list) THEN Len(list) ELSE offset + limit
<1>2. D!Part(list, offset, limit) = SubSeq(list, offset + 1, last)
  BY <1>1 DEF D!Part, D!Page
<1>3. last \in Nat /\ last <= Len(list)
  BY <1>1
<1>4. Paginate(list, offset, limit) = SubSeq(list, offset + 1, last)
  <2>1. CASE offset >= Len(list)
    <3>1. last < offset + 1 /\ offset + 1 \in Int /\ last \in Int
      BY <1>3, <2>1, <1>1
    <3> HIDE DEF last
    <3> QED BY <2>1, <3>1, SubSeqEmpty DEF Paginate
  <2>2. CASE offset < Len(list)
    <3> DEFINE n == PageLength(list, offset, limit)
               page == [i \in 1 .. n |-> list[offset + i]]
    <3>1. n = last - offset /\ n \in Nat
      BY <1>1, <2>2 DEF PageLength
    <3>2. \A i \in offset + 1 .. last : list[i] \in S
      BY <1>1, <1>3
    <3>3. /\ SubSeq(list, offset + 1, last) \in Seq(S)
          /\ Len(SubSeq(list, offset + 1, last)) = n
          /\ \A i \in 1 .. n : SubSeq(list, offset + 1, last)[i] = list[offset + i]
      <4> HIDE DEF last, n
      <4>1. /\ SubSeq(list, offset + 1, last) \in Seq(S)
            /\ Len(SubSeq(list, offset + 1, last)) =
                 IF offset + 1 <= last THEN last - (offset + 1) + 1 ELSE 0
            /\ \A i \in 1 .. last - (offset + 1) + 1 :
                 SubSeq(list, offset + 1, last)[i] = list[offset + 1 + i - 1]
        BY <1>3, <3>2, SubSeqProperties
      <4> QED BY <1>3, <3>1, <4>1
    <3>4. page \in [1 .. n -> S]
      BY <1>1, <3>1, <3>2, <1>3
    <3>5. page \in Seq(S) /\ Len(page) = n
      <4> HIDE DEF page, n
      <4> QED BY <3>1, <3>4, FunctionIsList
    <3>6. page = SubSeq(list, offset + 1, last)
      <4>1. \A i \in 1 .. n : page[i] = list[offset + i]
        OBVIOUS
      <4> HIDE DEF page, n, last
      <4> QED BY <3>3, <3>5, <4>1, SeqEqual
    <3> QED BY <1>1, <2>2, <3>6 DEF Paginate
  <2> QED BY <1>1, <2>1, <2>2
<1>5. ASSUME limit # 0
      PROVE  last = IF offset + limit < Len(list) THEN offset + limit ELSE Len(list)
  BY <1>1, <1>5
<1>6. limit # 0 => D!Part(list, offset, limit) = D!Page(list, offset, limit)
  BY DEF D!Part
<1> HIDE DEF last
<1> QED BY <1>2, <1>4, <1>5, <1>6

LEMMA AdjacentPages ==
  ASSUME NEW S, NEW list \in Seq(S), NEW cut \in Nat \ {0}, NEW rest \in Nat \ {0}
  PROVE  Paginate(list, 0, cut) \o Paginate(list, cut, rest) = Paginate(list, 0, cut + rest)
<1> DEFINE n == Len(list)
           end == IF cut + rest < n THEN cut + rest ELSE n
<1>1. n \in Nat
  BY LenProperties
<1>2. /\ Paginate(list, cut, rest) = SubSeq(list, cut + 1, end)
      /\ Paginate(list, 0, cut) = SubSeq(list, 1, IF cut < n THEN cut ELSE n)
      /\ Paginate(list, 0, cut + rest) = SubSeq(list, 1, end)
  <2>1. Paginate(list, cut, rest) = SubSeq(list, cut + 1, end)
    BY PaginateIsPart
  <2>2. Paginate(list, 0, cut) =
          SubSeq(list, 0 + 1, IF 0 + cut < Len(list) THEN 0 + cut ELSE Len(list))
    BY PaginateIsPart
  <2>3. /\ cut + rest \in Nat /\ cut + rest # 0
        /\ 0 + 1 = 1 /\ 0 + cut = cut /\ 0 + (cut + rest) = cut + rest
    OBVIOUS
  <2>4. Paginate(list, 0, cut + rest) =
          SubSeq(list, 0 + 1, IF 0 + (cut + rest) < Len(list) THEN 0 + (cut + rest) ELSE Len(list))
    BY <2>3, PaginateIsPart
  <2> QED BY <2>1, <2>2, <2>3, <2>4
<1>3. CASE cut < n
  <2>1. 1 \in 1 .. n + 1 /\ cut \in 1 - 1 .. n /\ end \in cut .. n
    BY <1>1, <1>3
  <2>2. Paginate(list, 0, cut) = SubSeq(list, 1, cut)
    BY <1>2, <1>3
  <2> HIDE DEF end
  <2>3. SubSeq(list, 1, cut) \o SubSeq(list, cut + 1, end) = SubSeq(list, 1, end)
    BY <2>1, ConcatAdjacentSubSeq
  <2> QED BY <1>2, <2>2, <2>3
<1>4. CASE ~(cut < n)
  <2>1. end = n /\ n < cut + 1 /\ cut + 1 \in Int /\ n \in Int
    BY <1>1, <1>4
  <2>2. SubSeq(list, cut + 1, n) = <<>>
    BY <2>1, SubSeqEmpty
  <2>3. SubSeq(list, 1, n) = list
    BY SubSeqFull
  <2> QED BY <1>2, <1>4, <2>1, <2>2, <2>3, ConcatEmptySeq
<1> QED BY <1>3, <1>4

-----------------------------------------------------------------------------
(* The loop that keeps the lines of a range                                *)

InLines(e, from, to) == entries[e].line >= from /\ entries[e].line <= to

\* What the loop has kept after each of the first k turns.
Keep(kept, e, from, to) == IF InLines(e, from, to) THEN Append(kept, e) ELSE kept
IsKept(items, list, from, to, k) ==
  items = [n \in 0 .. k |-> IF n = 0 THEN <<>> ELSE Keep(items[n - 1], list[n], from, to)]

KeptRows(list, from, to, k) == {list[j] : j \in {i \in 1 .. k : InLines(list[i], from, to)}}

LEMMA LeastElement ==
  ASSUME NEW S, S \subseteq Nat, S # {}
  PROVE  \E m \in S : \A k \in S : m <= k
<1> DEFINE R == OpToRel(<, Nat)
<1>1. IsWellFoundedOn(R, Nat)
  BY NatLessThanWellFounded
<1>2. \E x \in S : \A y \in S : ~ (<<y, x>> \in R)
  <2> HIDE DEF R
  <2> QED BY <1>1, WFMin
<1>3. \A x, y \in Nat : x < y => <<x, y>> \in R
  BY DEF OpToRel
<1> HIDE DEF R
<1>4. PICK m \in S : \A y \in S : ~ (<<y, m>> \in R)
  BY <1>2
<1>5. \A y \in S : ~ (y < m)
  BY <1>3, <1>4
<1> QED BY <1>5

LEMMA KeptExists ==
  ASSUME NEW list, NEW from, NEW to
  PROVE  \A k \in Nat : \E items : IsKept(items, list, from, to, k)
<1> DEFINE Bad == {k \in Nat : ~ \E items : IsKept(items, list, from, to, k)}
<1> SUFFICES ASSUME Bad # {} PROVE FALSE
  OBVIOUS
<1>1. PICK m \in Bad : \A k \in Bad : m <= k
  BY LeastElement
<1>2. CASE m = 0
  <2> DEFINE g == [n \in 0 .. 0 |-> <<>>]
  <2>1. IsKept(g, list, from, to, 0)
    BY DEF IsKept
  <2> QED BY <2>1, <1>2
<1>3. CASE m # 0
  <2>1. m - 1 \in Nat /\ m - 1 \notin Bad
    BY <1>1, <1>3
  <2>2. PICK f : IsKept(f, list, from, to, m - 1)
    BY <2>1
  <2> DEFINE g == [n \in 0 .. m |-> IF n = m THEN Keep(f[m - 1], list[m], from, to) ELSE f[n]]
  <2>3. IsKept(g, list, from, to, m)
    BY <2>1, <2>2, <1>3 DEF IsKept
  <2> QED BY <2>3
<1> QED BY <1>2, <1>3

LEMMA AppendInOrder ==
  ASSUME NEW rows, NEW key, Keyed(rows, key), NEW some \in SUBSET rows, NEW x \in rows \ some,
         \A y \in some : key[y] < key[x], NEW list, InOrder(list, some, key)
  PROVE  InOrder(Append(list, x), some \cup {x}, key)
<1> DEFINE n == Cardinality(some)
<1>1. IsFiniteSet(some) /\ n \in Nat
  BY FS_Subset, FS_CardinalityType DEF Keyed
<1>2. Cardinality(some \cup {x}) = n + 1
  BY <1>1, FS_AddElement
<1>3. list \in [1 .. n -> some]
  BY DEF InOrder
<1>4. \A i, j \in 1 .. n : i < j => key[list[i]] < key[list[j]]
  BY <1>3 DEF InOrder
<1> HIDE DEF n
<1>5. list \in Seq(some) /\ Len(list) = n
  BY <1>1, <1>3, FunctionIsList
<1>6. list \in Seq(some \cup {x})
  BY <1>5, SeqMonotonic
<1> DEFINE longer == Append(list, x)
<1>7. /\ longer \in Seq(some \cup {x}) /\ Len(longer) = n + 1
      /\ \A i \in 1 .. n : longer[i] = list[i]
      /\ longer[n + 1] = x
  BY <1>1, <1>5, <1>6
<1> HIDE DEF longer
<1>8. longer \in [1 .. n + 1 -> some \cup {x}]
  BY <1>7, LenProperties
<1>9. \A i, j \in 1 .. n + 1 : i < j => key[longer[i]] < key[longer[j]]
  <2> SUFFICES ASSUME NEW i \in 1 .. n + 1, NEW j \in 1 .. n + 1, i < j
               PROVE  key[longer[i]] < key[longer[j]]
    OBVIOUS
  <2>1. i \in 1 .. n /\ longer[i] = list[i] /\ list[i] \in some
    BY <1>1, <1>3, <1>7
  <2>2. CASE j \in 1 .. n
    BY <1>4, <1>7, <2>1, <2>2
  <2>3. CASE j = n + 1
    <3>1. longer[j] = x
      BY <1>7, <2>3
    <3> QED BY <2>1, <3>1
  <2> QED BY <1>1, <2>2, <2>3
<1> QED BY <1>2, <1>8, <1>9 DEF InOrder, longer

LEMMA KeptInOrder ==
  ASSUME NEW rows, NEW key, Keyed(rows, key), NEW list, InOrder(list, rows, key),
         NEW from, NEW to, NEW items, IsKept(items, list, from, to, Cardinality(rows))
  PROVE  InOrder(items[Cardinality(rows)], {e \in rows : InLines(e, from, to)}, key)
<1> DEFINE n == Cardinality(rows)
           Kept(k) == KeptRows(list, from, to, k)
           Bad == {k \in 0 .. n : ~InOrder(items[k], Kept(k), key)}
<1>1. n \in Nat /\ list \in [1 .. n -> rows]
  BY RankCounts DEF InOrder
<1>2. \A k \in 0 .. n :
        /\ Kept(k) \in SUBSET rows
        /\ items[k] = IF k = 0 THEN <<>> ELSE Keep(items[k - 1], list[k], from, to)
  BY <1>1 DEF KeptRows, IsKept
<1>3. Bad = {}
  <2> SUFFICES ASSUME Bad # {} PROVE FALSE
    OBVIOUS
  <2>1. Bad \subseteq Nat
    BY <1>1
  <2>2. PICK k \in Bad : \A j \in Bad : k <= j
    <3> HIDE DEF Bad
    <3> QED BY <2>1, LeastElement
  <2>3. CASE k = 0
    <3>1. Kept(k) = {} /\ items[k] = <<>>
      BY <1>2, <2>3, <2>2 DEF KeptRows
    <3>2. Cardinality({}) = 0
      BY FS_EmptySet
    <3>3. InOrder(<<>>, {}, key)
      BY <3>2 DEF InOrder
    <3> QED BY <2>2, <3>1, <3>3
  <2>4. CASE k # 0
    <3>1. k \in 1 .. n /\ k - 1 \in 0 .. n /\ k - 1 \in Nat /\ k - 1 \notin Bad
      BY <1>1, <2>2, <2>4
    <3>2. InOrder(items[k - 1], Kept(k - 1), key)
      BY <3>1
    <3>3. Kept(k) = IF InLines(list[k], from, to) THEN Kept(k - 1) \cup {list[k]} ELSE Kept(k - 1)
      BY <1>1, <3>1 DEF KeptRows
    <3>4. \A y \in Kept(k - 1) : key[y] < key[list[k]]
      BY <1>1, <3>1 DEF KeptRows, InOrder
    <3>5. list[k] \in rows \ Kept(k - 1)
      <4>1. list[k] \in rows /\ key[list[k]] \in Int
        BY <1>1, <3>1 DEF Keyed
      <4> QED BY <3>4, <4>1
    <3>6. Kept(k - 1) \in SUBSET rows
      BY <1>2, <3>1
    <3>7. CASE InLines(list[k], from, to)
      <4>1. items[k] = Append(items[k - 1], list[k])
        BY <1>2, <2>4, <3>1, <3>7 DEF Keep
      <4> HIDE DEF Kept
      <4>2. InOrder(Append(items[k - 1], list[k]), Kept(k - 1) \cup {list[k]}, key)
        BY <3>2, <3>4, <3>5, <3>6, AppendInOrder
      <4> QED BY <2>2, <3>3, <3>7, <4>1, <4>2
    <3>8. CASE ~InLines(list[k], from, to)
      <4>1. items[k] = items[k - 1]
        BY <1>2, <2>4, <3>1, <3>8 DEF Keep
      <4> QED BY <2>2, <3>2, <3>3, <3>8, <4>1
    <3> QED BY <3>7, <3>8
  <2> QED BY <2>3, <2>4
<1>4. InOrder(items[n], Kept(n), key)
  BY <1>1, <1>3
<1>5. Kept(n) = {e \in rows : InLines(e, from, to)}
  BY <1>1, OrderIsRank DEF KeptRows
<1> QED BY <1>4, <1>5

-----------------------------------------------------------------------------
(* What the readers find and how it is ordered                             *)

LEMMA FoundRows ==
  ASSUME TypeOK, IndexesExact, NEW file \in LogFileIds
  PROVE  /\ EntriesFound(file) = D!RowsOf(entries, {file})
         /\ chunksByLogFile[file] = D!RowsOf(chunks, {file})
         /\ \A l \in Lines : l \in LinesFound(file) =>
              /\ entriesByLogFile[file][l] \in D!RowsOf(entries, {file})
              /\ entries[entriesByLogFile[file][l]].line = l
         /\ \A e \in D!RowsOf(entries, {file}) :
              /\ entries[e].line \in LinesFound(file)
              /\ entriesByLogFile[file][entries[e].line] = e
<1> DEFINE rows == D!RowsOf(entries, {file})
<1>1. ASSUME NEW l \in Lines, l \in LinesFound(file)
      PROVE  /\ entriesByLogFile[file][l] \in rows
             /\ entries[entriesByLogFile[file][l]].line = l
  <2>1. PICK e \in EntryIds : entriesByLogFile[file][l] = e
    BY <1>1 DEF LinesFound, TypeOK
  <2>2. entries[e] = [file |-> file, line |-> l]
    BY <2>1 DEF IndexesExact, EntriesIndexed
  <2>3. entries[e] # NoRow
    BY <2>2, NoRowAssumption DEF D!EntryRows
  <2> QED BY <2>1, <2>2, <2>3 DEF D!RowsOf, D!Stored, TypeOK
<1>2. ASSUME NEW e \in rows
      PROVE  entries[e].line \in LinesFound(file) /\ entriesByLogFile[file][entries[e].line] = e
  <2>1. e \in EntryIds /\ entries[e] \in D!EntryRows /\ entries[e].file = file
    BY DEF D!RowsOf, D!Stored, TypeOK
  <2>2. entries[e].line \in Lines /\ entries[e] = [file |-> file, line |-> entries[e].line]
    BY <2>1 DEF D!EntryRows
  <2>3. entriesByLogFile[file][entries[e].line] = e
    BY <2>1, <2>2 DEF IndexesExact, EntriesIndexed
  <2> QED BY <2>1, <2>2, <2>3, NoIdAssumption DEF LinesFound
<1>3. EntriesFound(file) = rows
  <2>1. ASSUME NEW e \in EntriesFound(file) PROVE e \in rows
    <3>1. PICK l \in Lines : e = entriesByLogFile[file][l] /\ e # NoId
      BY <2>1 DEF EntriesFound
    <3>2. l \in LinesFound(file)
      BY <3>1 DEF LinesFound
    <3> QED BY <1>1, <3>1, <3>2
  <2>2. ASSUME NEW e \in rows PROVE e \in EntriesFound(file)
    <3>1. entries[e].line \in Lines /\ entriesByLogFile[file][entries[e].line] # NoId
      BY <1>2, <2>2 DEF LinesFound
    <3> QED BY <1>2, <2>2, <3>1 DEF EntriesFound
  <2> QED BY <2>1, <2>2
<1>4. chunksByLogFile[file] = D!RowsOf(chunks, {file})
  BY DEF IndexesExact, ChunksIndexed
<1> QED BY <1>1, <1>2, <1>3, <1>4

LEMMA LineNumbers == \A l \in Lines : l \in Int /\ l >= 0
BY NumbersAssumption

LEMMA EntriesKeyed ==
  ASSUME IInv, NEW file \in LogFileIds, NEW rows \in SUBSET D!RowsOf(entries, {file})
  PROVE  /\ Keyed(rows, D!ByLine(rows))
         /\ Keyed(rows, [e \in rows |-> -D!ByLine(rows)[e]])
<1>1. ASSUME NEW e \in rows
      PROVE  /\ e \in D!Stored(entries) /\ e \in EntryIds /\ entries[e].line \in Int
             /\ entries[e] = [file |-> file, line |-> entries[e].line]
  <2>1. e \in D!Stored(entries) /\ e \in EntryIds /\ entries[e] \in D!EntryRows /\ entries[e].file = file
    BY DEF D!RowsOf, D!Stored, IInv, TypeOK
  <2>2. entries[e].line \in Lines
    BY <2>1 DEF D!EntryRows
  <2>3. entries[e] = [file |-> entries[e].file, line |-> entries[e].line]
    BY <2>1 DEF D!EntryRows
  <2>4. entries[e].line \in Int
    BY <2>2, LineNumbers
  <2> QED BY <2>1, <2>3, <2>4
<1>2. IsFiniteSet(rows)
  BY <1>1, IdsAssumption, FS_Subset
<1>3. \A e, o \in rows : entries[e].line = entries[o].line => e = o
  BY <1>1 DEF IInv, KeysUnique
<1>4. \A e \in rows : D!ByLine(rows)[e] = entries[e].line
  BY DEF D!ByLine
<1>5. Keyed(rows, D!ByLine(rows))
  BY <1>1, <1>2, <1>3, <1>4 DEF Keyed
<1>6. Keyed(rows, [e \in rows |-> -D!ByLine(rows)[e]])
  <2> DEFINE down == [e \in rows |-> -D!ByLine(rows)[e]]
  <2>1. \A e \in rows : down[e] = -entries[e].line /\ entries[e].line \in Int
    BY <1>1, <1>4
  <2> HIDE DEF down
  <2>2. \A e \in rows : down[e] \in Int
    BY <2>1
  <2>3. \A e, o \in rows : down[e] = down[o] => entries[e].line = entries[o].line
    BY <2>1
  <2> QED BY <1>2, <1>3, <2>2, <2>3 DEF Keyed, down
<1> QED BY <1>5, <1>6

LEMMA ChunksKeyed ==
  ASSUME IInv, NEW file \in LogFileIds
  PROVE  LET rows == D!RowsOf(chunks, {file}) IN
         /\ Keyed(rows, D!ByNumber(rows))
         /\ Keyed(rows, [c \in rows |-> -D!ByNumber(rows)[c]])
<1> DEFINE rows == D!RowsOf(chunks, {file})
<1>1. ASSUME NEW c \in rows
      PROVE  /\ c \in D!Stored(chunks) /\ c \in ChunkIds /\ chunks[c].number \in Int
             /\ chunks[c] = [file |-> file, number |-> chunks[c].number]
  <2>1. c \in D!Stored(chunks) /\ c \in ChunkIds /\ chunks[c] \in D!ChunkRows /\ chunks[c].file = file
    BY DEF D!RowsOf, D!Stored, IInv, TypeOK
  <2> QED BY <2>1, NumbersAssumption DEF D!ChunkRows
<1>2. IsFiniteSet(rows)
  BY <1>1, IdsAssumption, FS_Subset
<1>3. \A c, o \in rows : chunks[c].number = chunks[o].number => c = o
  BY <1>1 DEF IInv, KeysUnique
<1>4. \A c \in rows : D!ByNumber(rows)[c] = chunks[c].number
  BY DEF D!ByNumber
<1> HIDE DEF rows
<1>5. Keyed(rows, D!ByNumber(rows))
  BY <1>1, <1>2, <1>3, <1>4 DEF Keyed
<1>6. Keyed(rows, [c \in rows |-> -D!ByNumber(rows)[c]])
  <2> DEFINE down == [c \in rows |-> -D!ByNumber(rows)[c]]
  <2>1. \A c \in rows : down[c] = -chunks[c].number /\ chunks[c].number \in Int
    BY <1>1, <1>4
  <2> HIDE DEF down
  <2>2. \A c \in rows : down[c] \in Int
    BY <2>1
  <2>3. \A c, o \in rows : down[c] = down[o] => chunks[c].number = chunks[o].number
    BY <2>1
  <2> QED BY <1>2, <1>3, <2>2, <2>3 DEF Keyed, down
<1> QED BY <1>5, <1>6 DEF rows

LEMMA OffsetsAndLimits ==
  /\ \A offset \in Offsets : offset \in Nat
  /\ \A limit \in Limits : limit \in Nat \ {0}
<1>1. Cardinality(EntryIds) \in Nat
  BY IdsAssumption, FS_CardinalityType
<1> QED BY <1>1 DEF Offsets, Limits

(* The list begins with the least key and ends with the greatest. *)
LEMMA EndsOfOrder ==
  ASSUME NEW rows, NEW key, Keyed(rows, key), rows # {}, NEW list, InOrder(list, rows, key)
  PROVE  LET n == Cardinality(rows) IN
         /\ n \in Nat \ {0} /\ list[1] \in rows /\ list[n] \in rows
         /\ \A x \in rows : key[list[1]] <= key[x] /\ key[x] <= key[list[n]]
<1> DEFINE n == Cardinality(rows)
<1>1. n \in Nat \ {0}
  BY FS_CardinalityType, FS_EmptySet DEF Keyed
<1>2. list \in [1 .. n -> rows] /\ 1 \in 1 .. n /\ n \in 1 .. n
  BY <1>1 DEF InOrder
<1>3. ASSUME NEW x \in rows PROVE key[list[1]] <= key[x] /\ key[x] <= key[list[n]]
  <2>1. PICK i \in 1 .. n : list[i] = x
    BY OrderIsRank
  <2>2. /\ 1 < i => key[list[1]] < key[list[i]]
        /\ i < n => key[list[i]] < key[list[n]]
    BY <1>1, <1>2 DEF InOrder
  <2>3. key[list[1]] \in Int /\ key[list[n]] \in Int /\ key[x] \in Int
    BY <1>2 DEF Keyed
  <2> QED BY <1>1, <2>1, <2>2, <2>3
<1> QED BY <1>1, <1>2, <1>3

-----------------------------------------------------------------------------
(* Both repositories answer the same                                       *)

LEMMA PagesAgree ==
  ASSUME IInv, NEW file \in LogFileIds, NEW offset \in Offsets, NEW limit \in Limits \cup {0}
  PROVE  /\ ListLogEntries(file, offset, limit) = D!ListLogEntries(file, offset, limit)
         /\ ListLogChunks(file, offset, limit) = D!ListLogChunks(file, offset, limit)
<1>1. offset \in Nat /\ limit \in Nat
  BY OffsetsAndLimits
<1>2. ListLogEntries(file, offset, limit) = D!ListLogEntries(file, offset, limit)
  <2> DEFINE rows == D!RowsOf(entries, {file})
             list == D!Sorted(rows, D!ByLine(rows))
  <2>1. EntryList(file) = list
    BY FoundRows DEF IInv, EntryList
  <2>2. list \in Seq(rows)
    BY EntriesKeyed, SortedInOrder, OrderIsList
  <2>3. D!ListLogEntries(file, offset, limit) = D!Part(list, offset, limit)
    BY DEF D!ListLogEntries
  <2> HIDE DEF list
  <2> QED BY <1>1, <2>1, <2>2, <2>3, PaginateIsPart DEF ListLogEntries
<1>3. ListLogChunks(file, offset, limit) = D!ListLogChunks(file, offset, limit)
  <2> DEFINE rows == D!RowsOf(chunks, {file})
             list == D!Sorted(rows, D!ByNumber(rows))
  <2>1. ChunkList(file) = list
    BY FoundRows DEF IInv, ChunkList
  <2>2. list \in Seq(rows)
    BY ChunksKeyed, SortedInOrder, OrderIsList
  <2>3. D!ListLogChunks(file, offset, limit) = D!Part(list, offset, limit)
    BY DEF D!ListLogChunks
  <2> HIDE DEF list
  <2> QED BY <1>1, <2>1, <2>2, <2>3, PaginateIsPart DEF ListLogChunks
<1> QED BY <1>2, <1>3

(* The list that a filter and an order select. *)
Selected(rows, order) ==
  IF order = "asc" THEN D!Sorted(rows, D!ByLine(rows)) ELSE D!Descending(rows, D!ByLine(rows))

LEMMA SelectedIsList ==
  ASSUME IInv, NEW file \in LogFileIds, NEW rows \in SUBSET D!RowsOf(entries, {file}), NEW order
  PROVE  Selected(rows, order) \in Seq(rows) /\ Len(Selected(rows, order)) = Cardinality(rows)
<1>1. /\ Keyed(rows, D!ByLine(rows))
      /\ Keyed(rows, [e \in rows |-> -D!ByLine(rows)[e]])
  BY EntriesKeyed
<1>2. /\ D!Sorted(rows, D!ByLine(rows)) \in Seq(rows)
      /\ Len(D!Sorted(rows, D!ByLine(rows))) = Cardinality(rows)
  BY <1>1, SortedInOrder, OrderIsList
<1>3. /\ D!Descending(rows, D!ByLine(rows)) \in Seq(rows)
      /\ Len(D!Descending(rows, D!ByLine(rows))) = Cardinality(rows)
  BY <1>1, SortedInOrder, OrderIsList DEF D!Descending
<1> QED BY <1>2, <1>3 DEF Selected

LEMMA FilterSelects ==
  ASSUME IInv, NEW file \in LogFileIds, NEW from \in Int, NEW to \in Int
  PROVE  {e \in D!Stored(entries) : EntryMatches(e, file, from, to)} = D!InRange(file, from, to)
<1>1. \A e \in D!Stored(entries) : entries[e].line \in Lines
  BY DEF D!Stored, IInv, TypeOK, D!EntryRows
<1>2. \A e \in D!Stored(entries) : entries[e].line \in Int
  BY <1>1, LineNumbers
<1> QED BY <1>2 DEF EntryMatches, D!InRange, D!RowsOf

LEMMA FilteredPagesAgree ==
  ASSUME IInv, NEW file \in LogFileIds, NEW from \in Lines \cup {0}, NEW to \in Lines \cup {0},
         NEW order, NEW offset \in Nat, NEW limit \in Nat \ {0}
  PROVE  ListLogEntriesFiltered(file, from, to, order, offset, limit)
           = D!ListLogEntriesFiltered(file, from, to, order, offset, limit)
<1> DEFINE rows == D!InRange(file, from, to)
           list == Selected(rows, order)
<1>1. from \in Int /\ to \in Int
  BY NumbersAssumption
<1>2. rows \in SUBSET D!RowsOf(entries, {file})
  BY DEF D!InRange
<1>3. list \in Seq(rows) /\ Len(list) = Cardinality(rows)
  <2> HIDE DEF rows
  <2> QED BY <1>2, SelectedIsList
<1>4. ListLogEntriesFiltered(file, from, to, order, offset, limit) =
        [items |-> Paginate(list, offset, limit), total |-> Len(list)]
  BY <1>1, FilterSelects DEF ListLogEntriesFiltered, Selected
<1>5. D!ListLogEntriesFiltered(file, from, to, order, offset, limit) =
        [items |-> D!Page(list, offset, limit), total |-> Cardinality(rows)]
  BY SameCardinality DEF D!ListLogEntriesFiltered, Selected
<1> HIDE DEF list
<1>6. Paginate(list, offset, limit) = D!Page(list, offset, limit)
  BY <1>3, PaginateIsPart
<1> QED BY <1>3, <1>4, <1>5, <1>6

LEMMA PagesAlwaysJoin ==
  ASSUME IInv, NEW file \in LogFileIds
  PROVE  PagesJoin(file)
<1> SUFFICES ASSUME NEW order \in {"asc", "desc"}, NEW cut \in Limits, NEW rest \in Limits
             PROVE  PageOf(file, order, 0, cut) \o PageOf(file, order, cut, rest)
                      = PageOf(file, order, 0, cut + rest)
  BY DEF PagesJoin
<1> DEFINE rows == D!InRange(file, 0, 0)
           list == Selected(rows, order)
<1>1. cut \in Nat \ {0} /\ rest \in Nat \ {0}
  BY OffsetsAndLimits
<1>2. ASSUME NEW offset, NEW limit
      PROVE  PageOf(file, order, offset, limit) = Paginate(list, offset, limit)
  BY FilterSelects DEF PageOf, ListLogEntriesFiltered, Selected
<1>3. list \in Seq(rows)
  <2>1. rows \in SUBSET D!RowsOf(entries, {file})
    BY DEF D!InRange
  <2> HIDE DEF rows
  <2> QED BY <2>1, SelectedIsList
<1> HIDE DEF list
<1>4. Paginate(list, 0, cut) \o Paginate(list, cut, rest) = Paginate(list, 0, cut + rest)
  BY <1>1, <1>3, AdjacentPages
<1> QED BY <1>2, <1>4

LEMMA LineRangesAgree ==
  ASSUME IInv, NEW file \in LogFileIds, NEW from \in Lines, NEW to \in Lines
  PROVE  ListLogEntriesByLineRange(file, from, to) = D!ListLogEntriesByLineRange(file, from, to)
<1> DEFINE rows == D!RowsOf(entries, {file})
           some == {e \in rows : InLines(e, from, to)}
           list == D!Sorted(rows, D!ByLine(rows))
           n == Cardinality(rows)
           items == CHOOSE kept : IsKept(kept, list, from, to, n)
<1>1. Keyed(rows, D!ByLine(rows))
  BY EntriesKeyed
<1>2. InOrder(list, rows, D!ByLine(rows)) /\ Len(list) = n /\ n \in Nat
  BY <1>1, SortedInOrder, OrderIsList, RankCounts
<1>3. EntryList(file) = list
  BY FoundRows DEF IInv, EntryList
<1>4. ListLogEntriesByLineRange(file, from, to) = items[n]
  <2>1. Len(EntryList(file)) = n
    BY <1>2, <1>3
  <2> HIDE DEF n
  <2> QED BY <1>3, <2>1 DEF ListLogEntriesByLineRange, IsKept, Keep, InLines
<1>5. IsKept(items, list, from, to, n)
  <2> HIDE DEF list, n
  <2> QED BY <1>2, KeptExists
<1>6. InOrder(items[n], some, D!ByLine(rows))
  <2> DEFINE key == D!ByLine(rows)
  <2> HIDE DEF list, items, rows, key
  <2>1. Keyed(rows, key) /\ InOrder(list, rows, key)
    BY <1>1, <1>2 DEF key
  <2>2. InOrder(items[Cardinality(rows)], {e \in rows : InLines(e, from, to)}, key)
    BY <1>5, <2>1, KeptInOrder
  <2> QED BY <2>2 DEF key
<1>7. InOrder(items[n], some, D!ByLine(some))
  <2> HIDE DEF items, n
  <2>1. \A e \in some : D!ByLine(some)[e] = D!ByLine(rows)[e]
    BY DEF D!ByLine
  <2> QED BY <1>6, <2>1 DEF InOrder
<1>8. Keyed(some, D!ByLine(some))
  BY EntriesKeyed
<1>9. items[n] = D!Sorted(some, D!ByLine(some))
  <2> HIDE DEF items, n, some
  <2> QED BY <1>7, <1>8, SortedIsTheOrder
<1>10. D!ListLogEntriesByLineRange(file, from, to) = D!Sorted(some, D!ByLine(some))
  <2>1. \A e \in rows : entries[e].line \in Lines
    BY DEF D!RowsOf, D!Stored, IInv, TypeOK, D!EntryRows
  <2>2. some = {e \in rows : from <= entries[e].line /\ entries[e].line <= to}
    BY <2>1, NumbersAssumption DEF InLines
  <2> QED BY <2>2 DEF D!ListLogEntriesByLineRange
<1> QED BY <1>4, <1>9, <1>10

LEMMA RowsByLine ==
  ASSUME IInv, NEW file \in LogFileIds
  PROVE  LET rows == D!RowsOf(entries, {file})
             found == LinesFound(file) IN
         /\ \A l \in found : l \in Lines /\ l \in Int /\ l >= 0
         /\ \A l \in found : \E e \in rows : entries[e].line = l
         /\ \A e \in rows : entries[e].line \in found
         /\ \A e, o \in rows : entries[e].line = entries[o].line => e = o
<1> DEFINE rows == D!RowsOf(entries, {file})
           found == LinesFound(file)
           at == entriesByLogFile[file]
<1>1. \A l \in found : l \in Lines /\ l \in Int /\ l >= 0
  BY LineNumbers DEF LinesFound
<1>2. /\ \A l \in Lines : l \in found => at[l] \in rows /\ entries[at[l]].line = l
      /\ \A e \in rows : entries[e].line \in found /\ at[entries[e].line] = e
  BY FoundRows DEF IInv
<1> HIDE DEF rows, found, at
<1>3. \A l \in found : \E e \in rows : entries[e].line = l
  BY <1>1, <1>2
<1>4. \A e, o \in rows : entries[e].line = entries[o].line => e = o
  BY <1>2
<1> QED BY <1>1, <1>2, <1>3, <1>4 DEF rows, found

LEMMA MaxLinesAgree ==
  ASSUME IInv, NEW file \in LogFileIds
  PROVE  GetMaxLineNumber(file) = D!GetMaxLineNumber(file)
<1> DEFINE rows == D!RowsOf(entries, {file})
           found == LinesFound(file)
           down == [e \in rows |-> -D!ByLine(rows)[e]]
           list == D!Sorted(rows, down)
<1>1. \A l \in found : l \in Int /\ l >= 0
  BY RowsByLine
<1>2. /\ \A e \in rows : entries[e].line \in found
      /\ \A l \in found : \E e \in rows : entries[e].line = l
  BY RowsByLine
<1>3. ASSUME NEW m \in found \cup {0}, \A l \in found : l <= m
      PROVE  GetMaxLineNumber(file) = m
  <2>1. \A k \in found \cup {0} : (\A l \in found : l <= k) => k = m
    BY <1>1, <1>3
  <2> QED BY <1>3, <2>1 DEF GetMaxLineNumber
<1>4. CASE rows = {}
  <2>1. GetMaxLineNumber(file) = 0
    BY <1>2, <1>3, <1>4
  <2> QED BY <1>4, <2>1 DEF D!GetMaxLineNumber
<1>5. CASE rows # {}
  <2>1. Keyed(rows, down)
    BY EntriesKeyed
  <2>2. InOrder(list, rows, down) /\ list \in Seq(rows) /\ Len(list) = Cardinality(rows)
    BY <2>1, SortedInOrder, OrderIsList
  <2>3. Cardinality(rows) \in Nat \ {0} /\ list[1] \in rows /\ \A x \in rows : down[list[1]] <= down[x]
    <3> HIDE DEF rows, down, list
    <3> QED BY <1>5, <2>1, <2>2, EndsOfOrder
  <2>4. \A e \in rows : down[e] = -entries[e].line
    BY DEF D!ByLine
  <2>5. list # <<>>
    <3> HIDE DEF list
    <3> QED BY <2>2, <2>3
  <2>6. Head(list) = list[1]
    <3> HIDE DEF list
    <3> QED BY <2>2, <2>5
  <2>7. D!GetMaxLineNumber(file) = entries[list[1]].line
    BY <1>5, <2>6 DEF D!GetMaxLineNumber, D!Descending
  <2> HIDE DEF list, down
  <2>8. ASSUME NEW e \in rows PROVE entries[e].line <= entries[list[1]].line
    <3>1. entries[e].line \in Int /\ entries[list[1]].line \in Int
      BY <1>1, <1>2, <2>3
    <3>2. -entries[list[1]].line <= -entries[e].line
      BY <2>3, <2>4
    <3> QED BY <3>1, <3>2
  <2>9. GetMaxLineNumber(file) = entries[list[1]].line
    BY <1>2, <1>3, <2>3, <2>8
  <2> QED BY <2>7, <2>9
<1> QED BY <1>4, <1>5

LEMMA CountsAgree ==
  ASSUME IInv, NEW file \in LogFileIds
  PROVE  CountLogEntries(file) = D!CountLogEntries(file)
<1> DEFINE rows == D!RowsOf(entries, {file})
           found == LinesFound(file)
           lineOf == [e \in rows |-> entries[e].line]
<1>2. lineOf \in [rows -> found]
  BY RowsByLine
<1>3. \A e, o \in rows : lineOf[e] = lineOf[o] => e = o
  BY RowsByLine
<1>4. \A l \in found : \E e \in rows : lineOf[e] = l
  BY RowsByLine
<1>5. lineOf \in Bijection(rows, found)
  <2> HIDE DEF lineOf, rows, found
  <2> QED BY <1>2, <1>3, <1>4 DEF Bijection, Injection, Surjection, IsInjective
<1>6. IsFiniteSet(rows)
  BY EntriesKeyed DEF Keyed
<1>7. Cardinality(found) = Cardinality(rows)
  <2> HIDE DEF lineOf, rows, found
  <2> QED BY <1>5, <1>6, FS_Bijection DEF ExistsBijection
<1> QED BY <1>7, SameCardinality DEF CountLogEntries, D!CountLogEntries

LEMMA LatestChunksAgree ==
  ASSUME IInv, NEW file \in LogFileIds
  PROVE  GetLatestLogChunk(file) = D!GetLatestLogChunk(file)
<1> DEFINE rows == D!RowsOf(chunks, {file})
           up == D!ByNumber(rows)
           down == [c \in rows |-> -up[c]]
           list == D!Sorted(rows, up)
           reversed == D!Sorted(rows, down)
           n == Cardinality(rows)
<1>1. Keyed(rows, up) /\ Keyed(rows, down)
  BY ChunksKeyed
<1>2. \A c \in rows : down[c] = -up[c]
  OBVIOUS
<1>3. ChunkList(file) = list
  BY FoundRows DEF IInv, ChunkList
<1>4. D!GetLatestLogChunk(file) = D!Page(reversed, 0, 1)
  BY DEF D!GetLatestLogChunk, D!Descending
<1> HIDE DEF rows, up, down
<1>5. /\ InOrder(list, rows, up) /\ list \in Seq(rows) /\ Len(list) = n
      /\ InOrder(reversed, rows, down) /\ reversed \in Seq(rows) /\ Len(reversed) = n
  BY <1>1, SortedInOrder, OrderIsList
<1>6. n \in Nat /\ (n = 0 <=> rows = {})
  BY <1>1, FS_CardinalityType, FS_EmptySet DEF Keyed
<1> HIDE DEF list, reversed, n
<1>7. D!Page(reversed, 0, 1) = IF n = 0 THEN <<>> ELSE <<reversed[1]>>
  <2>1. D!Page(reversed, 0, 1) = SubSeq(reversed, 1, IF 1 < n THEN 1 ELSE n)
    BY <1>5 DEF D!Page
  <2>2. n # 0 => (IF 1 < n THEN 1 ELSE n) = 1
    BY <1>6
  <2>3. n = 0 => SubSeq(reversed, 1, 0) = <<>>
    BY SubSeqEmpty
  <2>4. ASSUME n # 0 PROVE SubSeq(reversed, 1, 1) = <<reversed[1]>>
    <3>1. reversed[1] \in rows
      BY <1>5, <1>6, <2>4, ElementOfSeq
    <3>2. /\ SubSeq(reversed, 1, 1) \in Seq(rows)
          /\ Len(SubSeq(reversed, 1, 1)) = 1
          /\ SubSeq(reversed, 1, 1)[1] = reversed[1]
      <4>1. \A i \in 1 .. 1 : reversed[i] \in rows
        BY <3>1
      <4>2. /\ SubSeq(reversed, 1, 1) \in Seq(rows)
            /\ Len(SubSeq(reversed, 1, 1)) = IF 1 <= 1 THEN 1 - 1 + 1 ELSE 0
            /\ \A i \in 1 .. 1 - 1 + 1 : SubSeq(reversed, 1, 1)[i] = reversed[1 + i - 1]
        BY <4>1, SubSeqProperties
      <4> QED BY <4>2
    <3> DEFINE one == <<reversed[1]>>
               cut == SubSeq(reversed, 1, 1)
    <3>3. one \in Seq(rows) /\ Len(one) = 1 /\ one[1] = reversed[1]
      BY <3>1
    <3> HIDE DEF one, cut
    <3>4. cut \in Seq(rows) /\ Len(cut) = Len(one) /\ \A i \in 1 .. Len(cut) : cut[i] = one[i]
      BY <3>2, <3>3 DEF cut
    <3>5. cut = one
      BY <3>3, <3>4, SeqEqual
    <3> QED BY <3>5 DEF cut, one
  <2>5. CASE n = 0
    BY <2>1, <2>3, <2>5
  <2>6. CASE n # 0
    BY <2>1, <2>2, <2>4, <2>6
  <2> QED BY <2>5, <2>6
<1>8. GetLatestLogChunk(file) = IF n = 0 THEN <<>> ELSE <<list[n]>>
  <2>1. n = 0 <=> list = <<>>
    BY <1>5, <1>6, EmptySeq
  <2> QED BY <1>3, <1>5, <2>1 DEF GetLatestLogChunk
<1>9. ASSUME n # 0 PROVE list[n] = reversed[1]
  <2>1. rows # {}
    BY <1>6, <1>9
  <2>2. list[n] \in rows /\ \A x \in rows : up[x] <= up[list[n]]
    BY <1>1, <1>5, <2>1, EndsOfOrder DEF n
  <2>3. reversed[1] \in rows /\ \A x \in rows : down[reversed[1]] <= down[x]
    BY <1>1, <1>5, <2>1, EndsOfOrder
  <2>4. /\ up[list[n]] \in Int /\ up[reversed[1]] \in Int
        /\ up[reversed[1]] <= up[list[n]] /\ -up[reversed[1]] <= -up[list[n]]
    BY <1>1, <1>2, <2>2, <2>3 DEF Keyed
  <2>5. up[list[n]] = up[reversed[1]]
    BY <2>4
  <2> QED BY <1>1, <2>2, <2>3, <2>5 DEF Keyed
<1> QED BY <1>4, <1>7, <1>8, <1>9

(* The collector, the check and the API read the same lists, pages, totals *)
(* and greatest numbers from the in-memory repository, by its indexes and  *)
(* sorts, as from the database, and the pages of a list join.              *)
THEOREM ListsAlwaysAgree == Spec => []ListsAgree
<1>1. ASSUME IInv PROVE ListsAgree
  <2>1. ASSUME NEW file \in LogFileIds PROVE EntryListsAgree(file)
    BY <1>1, PagesAgree, FilteredPagesAgree, OffsetsAndLimits, LineRangesAgree, MaxLinesAgree,
       CountsAgree
    DEF EntryListsAgree
  <2>2. ASSUME NEW file \in LogFileIds PROVE ChunkListsAgree(file)
    <3>1. GetLatestLogChunk(file) = D!GetLatestLogChunk(file)
      BY <1>1, LatestChunksAgree
    <3>2. \A offset \in Offsets, limit \in Limits \cup {0} :
            ListLogChunks(file, offset, limit) = D!ListLogChunks(file, offset, limit)
      BY <1>1, PagesAgree
    <3> QED BY <3>1, <3>2 DEF ChunkListsAgree
  <2>3. \A server \in ServerIds, alphabet \in Alphabets(Paths) :
          ListLogFilesByServer(server, alphabet) = D!ListLogFilesByServer(server, alphabet)
    BY DEF ListLogFilesByServer, D!ListLogFilesByServer, D!LogFilesOf
  <2>4. \A alphabet \in Alphabets(Names) : ListServers(alphabet) = D!ListServers(alphabet)
    BY DEF ListServers, D!ListServers
  <2> QED BY <1>1, <2>1, <2>2, <2>3, <2>4, PagesAlwaysJoin DEF ListsAgree
<1> QED BY <1>1, Invariance, PTL
=============================================================================
