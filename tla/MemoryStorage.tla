----------------------------- MODULE MemoryStorage -----------------------------
(***************************************************************************)
(* The in-memory repository: the same five tables as maps from identifiers *)
(* to models, and four indexes that it searches instead of the tables.     *)
(* Every method holds the mutex from its first line to its last, so it is  *)
(* one step; a method that returns an error changes nothing.               *)
(*                                                                         *)
(* The claim is that the maps are always those of the database: that the   *)
(* indexes never miss a row, never name one that is gone, and that a       *)
(* deletion which follows them leaves nothing behind.                      *)
(***************************************************************************)
EXTENDS Integers, FiniteSets, Sequences

CONSTANTS ServerIds, LogFileIds, EntryIds, ChunkIds, CheckIds,
          Names, Hosts, Paths, Lines, Numbers, NoRow,
          NoId     \* the index has no such key

VARIABLES servers, logFiles, entries, chunks, checks,
          logFilesByServer,    \* server and path to log file
          entriesByLogFile,    \* log file and line to entry
          chunksByLogFile,     \* log file to its chunks
          checksByLogFile      \* log file to its check results

D == INSTANCE Database

indexes == <<logFilesByServer, entriesByLogFile, chunksByLogFile, checksByLogFile>>
vars == <<servers, logFiles, entries, chunks, checks, indexes>>

ASSUME NoRowAssumption ==
  NoRow \notin D!ServerRows \cup D!LogFileRows \cup D!EntryRows \cup D!ChunkRows \cup D!CheckRows
ASSUME NoIdAssumption == NoId \notin LogFileIds \cup EntryIds
\* Lines are counted from one.
ASSUME NumbersAssumption == Lines \subseteq Nat /\ Numbers \subseteq Int
\* Identifiers are eight random bytes.
ASSUME IdsAssumption == IsFiniteSet(EntryIds) /\ IsFiniteSet(ChunkIds)

-----------------------------------------------------------------------------
NoPaths == [p \in Paths |-> NoId]
NoLines == [l \in Lines |-> NoId]

Init ==
  /\ D!Init
  /\ logFilesByServer = [s \in ServerIds |-> NoPaths]
  /\ entriesByLogFile = [f \in LogFileIds |-> NoLines]
  /\ chunksByLogFile = [f \in LogFileIds |-> {}]
  /\ checksByLogFile = [f \in LogFileIds |-> {}]

\* Variation: only a server with the same name and host is a conflict.
SameNameAndHost(id, row) ==
  \E other \in D!Stored(servers) \ {id} : servers[other] = row

(* findServerByNameOrHostLocked *)
SameNameOrHost(id, row) ==
  \E other \in D!Stored(servers) \ {id} :
    servers[other].name = row.name \/ servers[other].host = row.host

CreateServer(id, row) ==
  /\ servers[id] = NoRow
  /\ ~SameNameOrHost(id, row)
  /\ servers' = [servers EXCEPT ![id] = row]
  /\ UNCHANGED <<logFiles, entries, chunks, checks, indexes>>

UpdateServer(id, row) ==
  /\ servers[id] # NoRow
  /\ ~SameNameOrHost(id, row)
  /\ servers' = [servers EXCEPT ![id] = row]
  /\ UNCHANGED <<logFiles, entries, chunks, checks, indexes>>

(* deleteLogFileLocked for each of files, by what the indexes say of them. *)
IndexedEntries(files) == {entriesByLogFile[f][l] : f \in files, l \in Lines}
IndexedChunks(files) == UNION {chunksByLogFile[f] : f \in files}
IndexedChecks(files) == UNION {checksByLogFile[f] : f \in files}
DeleteLogFiles(files) ==
  /\ entries' = D!Without(entries, IndexedEntries(files))
  /\ entriesByLogFile' = [f \in LogFileIds |->
       IF f \in files THEN NoLines ELSE entriesByLogFile[f]]
  /\ chunks' = D!Without(chunks, IndexedChunks(files))
  /\ chunksByLogFile' = [f \in LogFileIds |-> IF f \in files THEN {} ELSE chunksByLogFile[f]]
  /\ checks' = D!Without(checks, IndexedChecks(files))
  /\ checksByLogFile' = [f \in LogFileIds |-> IF f \in files THEN {} ELSE checksByLogFile[f]]
  /\ logFiles' = D!Without(logFiles, files)

(* A deleted log file gives its path free, a deleted server all its paths. *)
Unindexed(files) ==
  [s \in ServerIds |-> [p \in Paths |->
    IF \E f \in files : logFiles[f] = [server |-> s, path |-> p]
      THEN NoId ELSE logFilesByServer[s][p]]]

\* Variation: the server goes, its log files stay.
NoLogFiles(server) == {}
LogFilesByServerIDs(server) == {logFilesByServer[server][p] : p \in Paths} \ {NoId}

DeleteServer(id) ==
  /\ servers[id] # NoRow
  /\ DeleteLogFiles(LogFilesByServerIDs(id))
  /\ logFilesByServer' = [Unindexed(LogFilesByServerIDs(id)) EXCEPT ![id] = NoPaths]
  /\ servers' = [servers EXCEPT ![id] = NoRow]

CreateLogFile(id, row) ==
  /\ servers[row.server] # NoRow
  /\ logFiles[id] = NoRow
  /\ logFilesByServer[row.server][row.path] = NoId
  /\ logFiles' = [logFiles EXCEPT ![id] = row]
  /\ logFilesByServer' = [logFilesByServer EXCEPT ![row.server][row.path] = id]
  /\ UNCHANGED <<servers, entries, chunks, checks, entriesByLogFile, chunksByLogFile, checksByLogFile>>

\* Variation: the old path keeps its log file.
MovedKeepsPath(id, path) == [logFilesByServer EXCEPT ![logFiles[id].server][path] = id]
Moved(id, path) ==
  [logFilesByServer EXCEPT ![logFiles[id].server][logFiles[id].path] = NoId,
                           ![logFiles[id].server][path] = id]

UpdateLogFile(id, path) ==
  /\ logFiles[id] # NoRow
  /\ logFilesByServer[logFiles[id].server][path] \in {NoId, id}
  /\ logFiles' = [logFiles EXCEPT ![id].path = path]
  /\ logFilesByServer' = Moved(id, path)
  /\ UNCHANGED <<servers, entries, chunks, checks, entriesByLogFile, chunksByLogFile, checksByLogFile>>

DeleteLogFile(id) ==
  /\ logFiles[id] # NoRow
  /\ DeleteLogFiles({id})
  /\ logFilesByServer' = Unindexed({id})
  /\ UNCHANGED servers

-----------------------------------------------------------------------------
(* The batches.  Callers give the rows of one batch different numbers; the *)
(* combined batch checks that, the single ones (CreateLogEntries and       *)
(* CreateLogChunks) do not.                                                *)

ValidEntries(file, lineOf) ==
  /\ \A e \in DOMAIN lineOf : entries[e] = NoRow /\ entriesByLogFile[file][lineOf[e]] = NoId
  /\ \A e, other \in DOMAIN lineOf : lineOf[e] = lineOf[other] => e = other

\* Variation: a chunk is compared with the chunks of its batch only.
ValidWithinBatch(file, numberOf) ==
  /\ \A c \in DOMAIN numberOf : chunks[c] = NoRow
  /\ \A c, other \in DOMAIN numberOf : numberOf[c] = numberOf[other] => c = other
ValidChunks(file, numberOf) ==
  /\ \A c \in DOMAIN numberOf :
       /\ chunks[c] = NoRow
       /\ \A stored \in chunksByLogFile[file] : chunks[stored].number # numberOf[c]
  /\ \A c, other \in DOMAIN numberOf : numberOf[c] = numberOf[other] => c = other

\* Variation: lines are numbered from zero.
NewEntryFromZero(file, line) == [file |-> file, line |-> line - 1]
NewEntry(file, line) == [file |-> file, line |-> line]

StoreEntries(file, lineOf) ==
  /\ entries' = [e \in EntryIds |->
       IF e \in DOMAIN lineOf THEN NewEntry(file, lineOf[e]) ELSE entries[e]]
  /\ entriesByLogFile' = [entriesByLogFile EXCEPT ![file] =
       [l \in Lines |-> IF \E e \in DOMAIN lineOf : lineOf[e] = l
                         THEN CHOOSE e \in DOMAIN lineOf : lineOf[e] = l
                         ELSE @[l]]]

StoreChunks(file, numberOf) ==
  /\ chunks' = [c \in ChunkIds |->
       IF c \in DOMAIN numberOf THEN [file |-> file, number |-> numberOf[c]] ELSE chunks[c]]
  /\ chunksByLogFile' = [chunksByLogFile EXCEPT ![file] = @ \cup DOMAIN numberOf]

CreateLogEntriesWithChunks(file, lineOf, numberOf) ==
  /\ logFiles[file] # NoRow
  /\ ValidEntries(file, lineOf)
  /\ ValidChunks(file, numberOf)
  /\ StoreEntries(file, lineOf)
  /\ StoreChunks(file, numberOf)
  /\ UNCHANGED <<servers, logFiles, checks, logFilesByServer, checksByLogFile>>

DeleteLogEntriesByLogFile(file) ==
  /\ entries' = D!Without(entries, IndexedEntries({file}))
  /\ entriesByLogFile' = [entriesByLogFile EXCEPT ![file] = NoLines]
  /\ UNCHANGED <<servers, logFiles, chunks, checks, logFilesByServer, chunksByLogFile, checksByLogFile>>

DeleteLogChunksByLogFile(file) ==
  /\ chunks' = D!Without(chunks, IndexedChunks({file}))
  /\ chunksByLogFile' = [chunksByLogFile EXCEPT ![file] = {}]
  /\ UNCHANGED <<servers, logFiles, entries, checks, logFilesByServer, entriesByLogFile, checksByLogFile>>

CreateCheckResult(id, file) ==
  /\ logFiles[file] # NoRow
  /\ checks[id] = NoRow
  /\ checks' = [checks EXCEPT ![id] = [file |-> file]]
  /\ checksByLogFile' = [checksByLogFile EXCEPT ![file] = @ \cup {id}]
  /\ UNCHANGED <<servers, logFiles, entries, chunks, logFilesByServer, entriesByLogFile, chunksByLogFile>>

Next ==
  \/ \E id \in ServerIds, row \in D!ServerRows : CreateServer(id, row) \/ UpdateServer(id, row)
  \/ \E id \in ServerIds : DeleteServer(id)
  \/ \E id \in LogFileIds, row \in D!LogFileRows : CreateLogFile(id, row)
  \/ \E id \in LogFileIds, path \in Paths : UpdateLogFile(id, path)
  \/ \E id \in LogFileIds : DeleteLogFile(id)
  \/ \E file \in LogFileIds :
       \E lineOf \in D!Numberings(EntryIds, Lines), numberOf \in D!Numberings(ChunkIds, Numbers) :
         CreateLogEntriesWithChunks(file, lineOf, numberOf)
  \/ \E file \in LogFileIds : DeleteLogEntriesByLogFile(file) \/ DeleteLogChunksByLogFile(file)
  \/ \E id \in CheckIds, file \in LogFileIds : CreateCheckResult(id, file)

Spec == Init /\ [][Next]_vars

-----------------------------------------------------------------------------
(* Reads: most follow an index, the filtered list goes through the table;  *)
(* what they find is sorted and cut to a page.                             *)

PageLength(list, offset, limit) ==
  IF limit <= 0 \/ offset + limit > Len(list) THEN Len(list) - offset ELSE limit

Paginate(list, offset, limit) ==
  IF offset >= Len(list) THEN <<>>
  ELSE [i \in 1 .. PageLength(list, offset, limit) |-> list[offset + i]]

EntriesFound(file) == {entriesByLogFile[file][l] : l \in Lines} \ {NoId}
LinesFound(file) == {l \in Lines : entriesByLogFile[file][l] # NoId}

(* listLogEntriesLocked *)
EntryList(file) == D!Sorted(EntriesFound(file), D!ByLine(EntriesFound(file)))
ListLogEntries(file, offset, limit) == Paginate(EntryList(file), offset, limit)

\* Variation: the last line of a range does not belong to it.
MatchesBefore(e, file, from, to) ==
  /\ entries[e].file = file
  /\ ~(from > 0 /\ entries[e].line < from)
  /\ ~(to > 0 /\ entries[e].line >= to)
EntryMatches(e, file, from, to) ==
  /\ entries[e].file = file
  /\ ~(from > 0 /\ entries[e].line < from)
  /\ ~(to > 0 /\ entries[e].line > to)

ListLogEntriesFiltered(file, from, to, order, offset, limit) ==
  LET items == {e \in D!Stored(entries) : EntryMatches(e, file, from, to)}
      list == IF order = "asc" THEN D!Sorted(items, D!ByLine(items))
                               ELSE D!Descending(items, D!ByLine(items))
  IN [items |-> Paginate(list, offset, limit), total |-> Len(list)]

(* items[n] is what the loop has kept of the first n entries. *)
ListLogEntriesByLineRange(file, from, to) ==
  LET list == EntryList(file)
      items[n \in 0 .. Len(list)] ==
        IF n = 0 THEN <<>>
        ELSE IF entries[list[n]].line >= from /\ entries[list[n]].line <= to
               THEN Append(items[n - 1], list[n])
               ELSE items[n - 1]
  IN items[Len(list)]

GetMaxLineNumber(file) ==
  CHOOSE max \in LinesFound(file) \cup {0} : \A l \in LinesFound(file) : l <= max

CountLogEntries(file) == Cardinality(LinesFound(file))

(* listLogChunksLocked *)
ChunkList(file) == D!Sorted(chunksByLogFile[file], D!ByNumber(chunksByLogFile[file]))
ListLogChunks(file, offset, limit) == Paginate(ChunkList(file), offset, limit)
GetLatestLogChunk(file) ==
  IF ChunkList(file) = <<>> THEN <<>> ELSE <<ChunkList(file)[Len(ChunkList(file))]>>

ListLogFilesByServer(server, alphabet) ==
  LET items == {f \in D!Stored(logFiles) : logFiles[f].server = server} IN
  D!Sorted(items, [f \in items |-> alphabet[logFiles[f].path]])

ListServers(alphabet) ==
  LET items == D!Stored(servers) IN
  D!Sorted(items, [s \in items |-> alphabet[servers[s].name]])

(* What a request may ask for: parsePageQuery *)
Offsets == 0 .. Cardinality(EntryIds) + 1
Limits == 1 .. Cardinality(EntryIds) + 1

-----------------------------------------------------------------------------
(* Every map has the keys and values the code can give it. *)
TypeOK ==
  /\ servers \in [ServerIds -> D!ServerRows \cup {NoRow}]
  /\ logFiles \in [LogFileIds -> D!LogFileRows \cup {NoRow}]
  /\ entries \in [EntryIds -> D!EntryRows \cup {NoRow}]
  /\ chunks \in [ChunkIds -> D!ChunkRows \cup {NoRow}]
  /\ checks \in [CheckIds -> D!CheckRows \cup {NoRow}]
  /\ logFilesByServer \in [ServerIds -> [Paths -> LogFileIds \cup {NoId}]]
  /\ entriesByLogFile \in [LogFileIds -> [Lines -> EntryIds \cup {NoId}]]
  /\ chunksByLogFile \in [LogFileIds -> SUBSET ChunkIds]
  /\ checksByLogFile \in [LogFileIds -> SUBSET CheckIds]

(* An index names exactly the rows that its key selects from the table.    *)
(* Readers use either: GetMaxLineNumber, CountLogEntries and the deletions *)
(* the index, the filtered lists the table (memory/*.go).                  *)
LogFilesIndexed ==
  \A f \in LogFileIds, s \in ServerIds, p \in Paths :
    logFilesByServer[s][p] = f <=> logFiles[f] = [server |-> s, path |-> p]
EntriesIndexed ==
  \A e \in EntryIds, f \in LogFileIds, l \in Lines :
    entriesByLogFile[f][l] = e <=> entries[e] = [file |-> f, line |-> l]
ChunksIndexed ==
  \A f \in LogFileIds : chunksByLogFile[f] = D!RowsOf(chunks, {f})
ChecksIndexed ==
  \A f \in LogFileIds : checksByLogFile[f] = D!RowsOf(checks, {f})
IndexesExact == LogFilesIndexed /\ EntriesIndexed /\ ChunksIndexed /\ ChecksIndexed

(* No row outlives the row it refers to, although there are no foreign     *)
(* keys here and the deletions only follow the indexes (memory/servers.go, *)
(* memory/logfiles.go).                                                    *)
NoOrphans ==
  /\ \A f \in D!Stored(logFiles) : servers[logFiles[f].server] # NoRow
  /\ \A e \in D!Stored(entries) : logFiles[entries[e].file] # NoRow
  /\ \A c \in D!Stored(chunks) : logFiles[chunks[c].file] # NoRow
  /\ \A c \in D!Stored(checks) : logFiles[checks[c].file] # NoRow

(* No two servers share a name or a host, no two log files of a server a   *)
(* path, no two entries of a log file a line, no two chunks a number.      *)
KeysUnique ==
  /\ \A id \in D!Stored(servers) : ~D!ServerTaken(id, servers[id])
  /\ \A f, g \in D!Stored(logFiles) : logFiles[f] = logFiles[g] => f = g
  /\ \A e, o \in D!Stored(entries) : entries[e] = entries[o] => e = o
  /\ \A c, o \in D!Stored(chunks) : chunks[c] = chunks[o] => c = o

(* The collector, the check and the API read the same from both            *)
(* repositories, in the sortings and limits both define: the rows of a     *)
(* file by its index are those of the table, in the same order, cut at the *)
(* same places, with the same total, and the pages of a list join.         *)
PageOf(file, order, offset, limit) == ListLogEntriesFiltered(file, 0, 0, order, offset, limit).items
EntryListsAgree(file) ==
  /\ \A offset \in Offsets, limit \in Limits \cup {0} :
       ListLogEntries(file, offset, limit) = D!ListLogEntries(file, offset, limit)
  /\ \A from, to \in Lines \cup {0}, order \in {"asc", "desc"}, offset \in Offsets, limit \in Limits :
       ListLogEntriesFiltered(file, from, to, order, offset, limit)
         = D!ListLogEntriesFiltered(file, from, to, order, offset, limit)
  /\ \A from, to \in Lines :
       ListLogEntriesByLineRange(file, from, to) = D!ListLogEntriesByLineRange(file, from, to)
  /\ GetMaxLineNumber(file) = D!GetMaxLineNumber(file)
  /\ CountLogEntries(file) = D!CountLogEntries(file)
PagesJoin(file) ==
  \A order \in {"asc", "desc"}, cut, rest \in Limits :
    PageOf(file, order, 0, cut) \o PageOf(file, order, cut, rest) = PageOf(file, order, 0, cut + rest)
ChunkListsAgree(file) ==
  /\ \A offset \in Offsets, limit \in Limits \cup {0} :
       ListLogChunks(file, offset, limit) = D!ListLogChunks(file, offset, limit)
  /\ GetLatestLogChunk(file) = D!GetLatestLogChunk(file)

Alphabets(words) ==
  {order \in [words -> 1 .. Cardinality(words)] :
     \A w, v \in words : order[w] = order[v] => w = v}
ListsAgree ==
  /\ \A file \in LogFileIds : EntryListsAgree(file) /\ PagesJoin(file) /\ ChunkListsAgree(file)
  /\ \A server \in ServerIds, alphabet \in Alphabets(Paths) :
       ListLogFilesByServer(server, alphabet) = D!ListLogFilesByServer(server, alphabet)
  /\ \A alphabet \in Alphabets(Names) : ListServers(alphabet) = D!ListServers(alphabet)

(* The in-memory repository does what the database does: whatever one      *)
(* accepts or deletes, so does the other.                                  *)
ImplementsDatabase == D!Spec
=============================================================================
