-------------------------------- MODULE Database --------------------------------
(***************************************************************************)
(* The repository as a relational store: five tables with their primary    *)
(* keys, unique indexes and cascading foreign keys (migrations/*.sql), and *)
(* the statements of the PostgreSQL repository that insert, move or delete *)
(* rows.  A statement that violates a constraint returns an error and      *)
(* changes nothing; such a call is not a step.                             *)
(*                                                                         *)
(* The queries are the lists and pages that the services and the API read. *)
(*                                                                         *)
(* Columns that no key mentions are left out, and with them the statements *)
(* that change only those and the filters and orders over them.            *)
(***************************************************************************)

EXTENDS Integers, FiniteSets, Sequences

CONSTANTS
  ServerIds, LogFileIds, EntryIds, ChunkIds, CheckIds,   \* primary keys
  Names, Hosts,     \* of servers, in lower case
  Paths,            \* of log files
  Lines,            \* line numbers of entries
  Numbers,          \* numbers of chunks
  NoRow             \* there is no row with this key

VARIABLES servers, logFiles, entries, chunks, checks

tables == <<servers, logFiles, entries, chunks, checks>>

-----------------------------------------------------------------------------
ServerRows == [name : Names, host : Hosts]
LogFileRows == [server : ServerIds, path : Paths]
EntryRows == [file : LogFileIds, line : Lines]
ChunkRows == [file : LogFileIds, number : Numbers]
CheckRows == [file : LogFileIds]

Stored(table) == {id \in DOMAIN table : table[id] # NoRow}
Without(table, ids) == [id \in DOMAIN table |-> IF id \in ids THEN NoRow ELSE table[id]]

LogFilesOf(server) == {f \in Stored(logFiles) : logFiles[f].server = server}
RowsOf(table, files) == {id \in Stored(table) : table[id].file \in files}

(* ux_servers_name_lower, ux_servers_host_lower *)
ServerTaken(id, row) ==
  \E other \in Stored(servers) \ {id} :
    servers[other].name = row.name \/ servers[other].host = row.host

(* ux_log_files_server_path *)
PathTaken(id, server, path) ==
  \E other \in Stored(logFiles) \ {id} :
    logFiles[other].server = server /\ logFiles[other].path = path

(* ux_log_entries_log_file_line, ux_log_chunks_log_file_number *)
LineTaken(file, line) == \E e \in RowsOf(entries, {file}) : entries[e].line = line
NumberTaken(file, number) == \E c \in RowsOf(chunks, {file}) : chunks[c].number = number

Init ==
  /\ servers = [id \in ServerIds |-> NoRow]
  /\ logFiles = [id \in LogFileIds |-> NoRow]
  /\ entries = [id \in EntryIds |-> NoRow]
  /\ chunks = [id \in ChunkIds |-> NoRow]
  /\ checks = [id \in CheckIds |-> NoRow]

(* ON DELETE CASCADE *)
Cascade(files) ==
  /\ logFiles' = Without(logFiles, files)
  /\ entries' = Without(entries, RowsOf(entries, files))
  /\ chunks' = Without(chunks, RowsOf(chunks, files))
  /\ checks' = Without(checks, RowsOf(checks, files))

CreateServer(id, row) ==
  /\ servers[id] = NoRow
  /\ ~ServerTaken(id, row)
  /\ servers' = [servers EXCEPT ![id] = row]
  /\ UNCHANGED <<logFiles, entries, chunks, checks>>

UpdateServer(id, row) ==
  /\ servers[id] # NoRow
  /\ ~ServerTaken(id, row)
  /\ servers' = [servers EXCEPT ![id] = row]
  /\ UNCHANGED <<logFiles, entries, chunks, checks>>

DeleteServer(id) ==
  /\ servers[id] # NoRow
  /\ servers' = [servers EXCEPT ![id] = NoRow]
  /\ Cascade(LogFilesOf(id))

CreateLogFile(id, row) ==
  /\ logFiles[id] = NoRow
  /\ servers[row.server] # NoRow
  /\ ~PathTaken(id, row.server, row.path)
  /\ logFiles' = [logFiles EXCEPT ![id] = row]
  /\ UNCHANGED <<servers, entries, chunks, checks>>

(* The server of a log file never changes. *)
UpdateLogFile(id, path) ==
  /\ logFiles[id] # NoRow
  /\ ~PathTaken(id, logFiles[id].server, path)
  /\ logFiles' = [logFiles EXCEPT ![id].path = path]
  /\ UNCHANGED <<servers, entries, chunks, checks>>

DeleteLogFile(id) ==
  /\ logFiles[id] # NoRow
  /\ Cascade({id})
  /\ UNCHANGED servers

(* One transaction: all entries and all chunks of the batch, or nothing.   *)
(* lineOf and numberOf give the new rows their line and chunk numbers.     *)
CreateLogEntriesWithChunks(file, lineOf, numberOf) ==
  /\ logFiles[file] # NoRow
  /\ \A e \in DOMAIN lineOf : entries[e] = NoRow /\ ~LineTaken(file, lineOf[e])
  /\ \A e, other \in DOMAIN lineOf : lineOf[e] = lineOf[other] => e = other
  /\ \A c \in DOMAIN numberOf : chunks[c] = NoRow /\ ~NumberTaken(file, numberOf[c])
  /\ \A c, other \in DOMAIN numberOf : numberOf[c] = numberOf[other] => c = other
  /\ entries' = [e \in EntryIds |->
       IF e \in DOMAIN lineOf THEN [file |-> file, line |-> lineOf[e]] ELSE entries[e]]
  /\ chunks' = [c \in ChunkIds |->
       IF c \in DOMAIN numberOf THEN [file |-> file, number |-> numberOf[c]] ELSE chunks[c]]
  /\ UNCHANGED <<servers, logFiles, checks>>

DeleteLogEntriesByLogFile(file) ==
  /\ entries' = Without(entries, RowsOf(entries, {file}))
  /\ UNCHANGED <<servers, logFiles, chunks, checks>>

DeleteLogChunksByLogFile(file) ==
  /\ chunks' = Without(chunks, RowsOf(chunks, {file}))
  /\ UNCHANGED <<servers, logFiles, entries, checks>>

CreateCheckResult(id, file) ==
  /\ checks[id] = NoRow
  /\ logFiles[file] # NoRow
  /\ checks' = [checks EXCEPT ![id] = [file |-> file]]
  /\ UNCHANGED <<servers, logFiles, entries, chunks>>

(* The batches of a file: new rows and their numbers. *)
Numberings(ids, numbers) == UNION {[new -> numbers] : new \in SUBSET ids}

Next ==
  \/ \E id \in ServerIds, row \in ServerRows : CreateServer(id, row) \/ UpdateServer(id, row)
  \/ \E id \in ServerIds : DeleteServer(id)
  \/ \E id \in LogFileIds, row \in LogFileRows : CreateLogFile(id, row)
  \/ \E id \in LogFileIds, path \in Paths : UpdateLogFile(id, path)
  \/ \E id \in LogFileIds : DeleteLogFile(id)
  \/ \E file \in LogFileIds :
       \E lineOf \in Numberings(EntryIds, Lines), numberOf \in Numberings(ChunkIds, Numbers) :
         CreateLogEntriesWithChunks(file, lineOf, numberOf)
  \/ \E file \in LogFileIds : DeleteLogEntriesByLogFile(file) \/ DeleteLogChunksByLogFile(file)
  \/ \E id \in CheckIds, file \in LogFileIds : CreateCheckResult(id, file)

Spec == Init /\ [][Next]_tables

-----------------------------------------------------------------------------
(* Queries.  A row is sorted by a number that is its own among the rows of *)
(* the result; the order of an alphabet gives names and paths theirs.      *)

Sorted(rows, key) ==
  CHOOSE list \in [1 .. Cardinality(rows) -> rows] :
    \A i, j \in DOMAIN list : i < j => key[list[i]] < key[list[j]]

(* ORDER BY key DESC *)
Descending(rows, key) == Sorted(rows, [id \in rows |-> -key[id]])

(* OFFSET offset LIMIT limit *)
Page(list, offset, limit) ==
  SubSeq(list, offset + 1, IF offset + limit < Len(list) THEN offset + limit ELSE Len(list))

(* OFFSET offset; a limit of zero is none. *)
Part(list, offset, limit) == Page(list, offset, IF limit = 0 THEN Len(list) ELSE limit)

ByLine(rows) == [e \in rows |-> entries[e].line]
ByNumber(rows) == [c \in rows |-> chunks[c].number]

ListLogEntries(file, offset, limit) ==
  LET rows == RowsOf(entries, {file}) IN Part(Sorted(rows, ByLine(rows)), offset, limit)

(* Zero is no bound of the lines. *)
InRange(file, from, to) ==
  {e \in RowsOf(entries, {file}) :
     (from > 0 => entries[e].line >= from) /\ (to > 0 => entries[e].line <= to)}

ListLogEntriesFiltered(file, from, to, order, offset, limit) ==
  LET rows == InRange(file, from, to) IN
  [items |-> Page(IF order = "asc" THEN Sorted(rows, ByLine(rows)) ELSE Descending(rows, ByLine(rows)),
                  offset, limit),
   total |-> Cardinality(rows)]

ListLogEntriesByLineRange(file, from, to) ==
  LET rows == {e \in RowsOf(entries, {file}) : from <= entries[e].line /\ entries[e].line <= to} IN
  Sorted(rows, ByLine(rows))

GetMaxLineNumber(file) ==
  LET rows == RowsOf(entries, {file}) IN
  IF rows = {} THEN 0 ELSE entries[Head(Descending(rows, ByLine(rows)))].line

CountLogEntries(file) == Cardinality(RowsOf(entries, {file}))

ListLogChunks(file, offset, limit) ==
  LET rows == RowsOf(chunks, {file}) IN Part(Sorted(rows, ByNumber(rows)), offset, limit)

(* No row, or the one with the greatest number. *)
GetLatestLogChunk(file) ==
  LET rows == RowsOf(chunks, {file}) IN Page(Descending(rows, ByNumber(rows)), 0, 1)

ListLogFilesByServer(server, alphabet) ==
  LET rows == LogFilesOf(server) IN
  Sorted(rows, [f \in rows |-> alphabet[logFiles[f].path]])

ListServers(alphabet) ==
  Sorted(Stored(servers), [s \in Stored(servers) |-> alphabet[servers[s].name]])
=============================================================================
