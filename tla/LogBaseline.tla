----------------------------- MODULE LogBaseline -----------------------------
(***************************************************************************)
(* One remote log file, the baseline stored for it and the two operations  *)
(* that work on both: collection (service/collector) appends the lines it  *)
(* has not seen to the baseline, and the integrity check                   *)
(* (service/integrity) compares the whole file with the baseline.          *)
(*                                                                         *)
(* Every remote command and every repository call is a step of its own, so *)
(* the file may be written, rotated, truncated or edited, a call may fail  *)
(* and another operation may run between any two of them.  A call that     *)
(* fails, a canceled context and a crash of the process all end an         *)
(* operation at that point (action Fail): nothing it holds outlives it.    *)
(*                                                                         *)
(* Line contents are abstract; a hash is modelled by what it hashes, that  *)
(* is, without collisions.  The size of a file is its number of lines.     *)
(***************************************************************************)
EXTENDS Integers, Sequences, FiniteSets

CONSTANTS
  Collectors,   \* goroutines that collect the file: cron, API jobs, CLI
  Checkers,     \* goroutines that check its integrity
  Contents,     \* contents of a line
  NoLine,       \* "no such line"
  Trimmed,      \* what TrimSpace leaves of a content that ends an output
  ChunkSize,    \* collection.chunk_size
  BatchSize,    \* collection.batch_size
  Isolation,    \* workers.per_server_isolation
  Nobody,       \* "the server lock is free"
  MaxLines,     \* bound: lines in a file
  MaxInode,     \* bound: generations of the file
  MaxFaults     \* bound: calls that fail

Workers == Collectors \cup Checkers

ASSUME LinesAssumption ==
  /\ NoLine \notin Contents
  /\ Trimmed \in [Contents -> Contents]
ASSUME SizesAssumption ==
  /\ ChunkSize \in Nat \ {0}
  /\ BatchSize \in Nat \ {0}
  /\ ChunkSize <= BatchSize          \* normalizeOptions caps ChunkSize
  /\ MaxLines \in Nat \ {0}
  /\ MaxInode \in Nat \ {0}
  /\ MaxFaults \in Nat
ASSUME WorkersAssumption ==
  /\ Collectors \cap Checkers = {}
  /\ Nobody \notin Workers
  /\ Isolation \in BOOLEAN

VARIABLES
  file,      \* the remote file: its inode and its lines
  pristine,  \* history: the current generation has only been appended to
  row,       \* the log file's record: identity and last line number
  entries,   \* stored entries: line number -> hashed content
  chunks,    \* stored chunks of entries, with their aggregate hash
  verdict,   \* the last stored check result
  lock,      \* holder of the server's lock
  pc,        \* next call of each operation
  task,      \* local variables of each operation
  faults     \* failed calls so far

vars == <<file, pristine, row, entries, chunks, verdict, lock, pc, task, faults>>
store == <<row, entries, chunks>>
world == <<file, pristine>>

-----------------------------------------------------------------------------
(* Values                                                                  *)

LineNumber == 1 .. MaxLines
Numbered == [LineNumber -> Contents \cup {NoLine}]
NoLines == [n \in LineNumber |-> NoLine]
Present(lines) == {n \in LineNumber : lines[n] # NoLine}

Identity == [inode : 0 .. MaxInode, size : 0 .. MaxLines]
NoIdentity == [inode |-> 0, size |-> 0]

CollectSteps == {"inspect", "max", "read", "dropEntries", "dropChunks",
                 "build", "save", "record"}
CheckSteps == {"checkInspect", "checkRead", "checkCount", "compare"}

IdleTask == [known |-> NoIdentity, seen |-> NoIdentity, lastKnown |-> 0,
             reset |-> FALSE, after |-> 0, lines |-> NoLines, last |-> 0,
             next |-> 1, number |-> 0, total |-> 0]

-----------------------------------------------------------------------------
(* The remote file                                                         *)

FileIdentity == [inode |-> file.inode, size |-> Len(file.lines)]

(* The lines after line "after": the output of the read command is trimmed *)
(* as a whole, which touches its last line only.                           *)
ReadAfter(after) ==
  [n \in LineNumber |->
     IF n \in after + 1 .. Len(file.lines)
     THEN IF n = Len(file.lines) THEN Trimmed[file.lines[n]] ELSE file.lines[n]
     ELSE NoLine]

AppendLine ==
  /\ Len(file.lines) < MaxLines
  /\ \E c \in Contents : file' = [file EXCEPT !.lines = Append(@, c)]
  /\ UNCHANGED <<pristine, store, verdict, lock, pc, task, faults>>

Rotate ==
  /\ file.inode < MaxInode
  /\ file' = [inode |-> file.inode + 1, lines |-> <<>>]
  /\ pristine' = TRUE
  /\ UNCHANGED <<store, verdict, lock, pc, task, faults>>

(* copytruncate, or a rotation that reuses the inode *)
Truncate ==
  /\ file.lines # <<>>
  /\ file' = [file EXCEPT !.lines = <<>>]
  /\ pristine' = FALSE
  /\ UNCHANGED <<store, verdict, lock, pc, task, faults>>

EditLine ==
  /\ \E n \in 1 .. Len(file.lines), c \in Contents :
       /\ c # file.lines[n]
       /\ file' = [file EXCEPT !.lines[n] = c]
  /\ pristine' = FALSE
  /\ UNCHANGED <<store, verdict, lock, pc, task, faults>>

-----------------------------------------------------------------------------
(* Steps of an operation                                                   *)

HasIdentity(id) == id.inode # 0 \/ id.size > 0
FileShrank(previous, current) ==
  previous.size > 0 /\ current.size > 0 /\ current.size < previous.size

\* Variation: only a smaller file is taken for a rotated one.
ShouldResetOnShrink(previous, current) == FileShrank(previous, current)

ShouldReset(previous, current) ==
  /\ HasIdentity(previous)
  /\ HasIdentity(current)
  /\ \/ /\ previous.inode # 0 /\ current.inode # 0
        /\ previous.inode # current.inode
     \/ FileShrank(previous, current)

Goto(w, step) == pc' = [pc EXCEPT ![w] = step]

Finish(w) ==
  /\ pc' = [pc EXCEPT ![w] = "idle"]
  /\ task' = [task EXCEPT ![w] = IdleTask]
  /\ lock' = IF lock = w THEN Nobody ELSE lock

\* Variation: operations do not take the server's lock.
StartUnlocked(w, step) ==
  /\ pc[w] = "idle"
  /\ task' = [task EXCEPT ![w] = [IdleTask EXCEPT !.known = row.identity,
                                                  !.lastKnown = row.last]]
  /\ Goto(w, step)
  /\ UNCHANGED <<world, store, verdict, lock, faults>>

(* TryLock, then the log file's record is loaded. *)
Start(w, step) ==
  /\ pc[w] = "idle"
  /\ Isolation => lock = Nobody
  /\ lock' = IF Isolation THEN w ELSE lock
  /\ task' = [task EXCEPT ![w] = [IdleTask EXCEPT !.known = row.identity,
                                                  !.lastKnown = row.last]]
  /\ Goto(w, step)
  /\ UNCHANGED <<world, store, verdict, faults>>

(* The call ahead fails, the context is canceled, or the process dies.  A  *)
(* check whose remote read failed stores an error result.                  *)
Fail(w) ==
  /\ pc[w] # "idle"
  /\ faults < MaxFaults
  /\ faults' = faults + 1
  /\ Finish(w)
  /\ \/ UNCHANGED verdict
     \/ /\ pc[w] \in {"checkInspect", "checkRead"}
        /\ verdict' = [status |-> "error", total |-> 0, tampered |-> 0]
  /\ UNCHANGED <<world, store>>

(* InspectLogFileIdentity is best effort: when its command fails, both     *)
(* operations go on without an identity.                                   *)
InspectGives(seen) ==
  \/ seen = FileIdentity /\ UNCHANGED faults
  \/ seen = NoIdentity /\ faults < MaxFaults /\ faults' = faults + 1

-----------------------------------------------------------------------------
(* Collection: CollectLogFile                                              *)

StartCollect(w) == w \in Collectors /\ Start(w, "inspect")

Inspect(w) ==
  /\ pc[w] = "inspect"
  /\ \E seen \in {FileIdentity, NoIdentity} :
       LET reset == ShouldReset(task[w].known, seen)
       IN  /\ InspectGives(seen)
           /\ task' = [task EXCEPT ![w].seen = seen, ![w].reset = reset]
           /\ Goto(w, IF reset THEN "read" ELSE "max")
  /\ UNCHANGED <<world, store, verdict, lock>>

\* Variation: collection resumes after the line number in the record.
ResumeAtRecordedLine(m) == m = row.last

IsMaxLineNumber(m) ==
  /\ m = 0 \/ m \in Present(entries)
  /\ \A n \in Present(entries) : n <= m

GetMaxLineNumber(w) ==
  /\ pc[w] = "max"
  /\ \E m \in 0 .. MaxLines :
       /\ IsMaxLineNumber(m)
       /\ task' = [task EXCEPT ![w].after = m]
  /\ Goto(w, "read")
  /\ UNCHANGED <<world, store, verdict, lock, faults>>

ReadLines(w) ==
  /\ pc[w] = "read"
  /\ task' = [task EXCEPT ![w].lines = ReadAfter(task[w].after),
                          ![w].last = Len(file.lines)]
  /\ Goto(w, IF task[w].reset THEN "dropEntries" ELSE "build")
  /\ UNCHANGED <<world, store, verdict, lock, faults>>

DropEntries(w) ==
  /\ pc[w] = "dropEntries"
  /\ entries' = NoLines
  /\ Goto(w, "dropChunks")
  /\ UNCHANGED <<world, row, chunks, verdict, lock, task, faults>>

\* Variation: a reset drops the entries only.
DropChunksKept(w) ==
  /\ pc[w] = "dropChunks"
  /\ task' = [task EXCEPT ![w].lastKnown = 0]
  /\ Goto(w, "build")
  /\ UNCHANGED <<world, store, verdict, lock, faults>>

DropChunks(w) ==
  /\ pc[w] = "dropChunks"
  /\ chunks' = {}
  /\ task' = [task EXCEPT ![w].lastKnown = 0]
  /\ Goto(w, "build")
  /\ UNCHANGED <<world, row, entries, verdict, lock, faults>>

\* Variation: chunks are numbered from zero in every collection.
RestartNumbering(k) == k = -1

IsLatestChunk(k) ==
  /\ k = -1 \/ \E ch \in chunks : ch.number = k
  /\ \A ch \in chunks : ch.number <= k

\* Variation: the latest number is used again.
SameChunkNumber(latest) == latest
FirstChunkNumber(latest) == latest + 1

(* Nothing new to store goes straight to the record's update; otherwise    *)
(* the new lines are cut into chunks numbered after the latest stored one. *)
BuildChunks(w) ==
  /\ pc[w] = "build"
  /\ IF task[w].last <= task[w].after
     THEN Goto(w, "record") /\ UNCHANGED task
     ELSE /\ \E k \in {-1} \cup {ch.number : ch \in chunks} :
               /\ IsLatestChunk(k)
               /\ task' = [task EXCEPT ![w].next = task[w].after + 1,
                                       ![w].number = FirstChunkNumber(k)]
          /\ Goto(w, "save")
  /\ UNCHANGED <<world, store, verdict, lock, faults>>

(* Chunks hold ChunkSize entries, the last one what remains; a batch takes *)
(* whole chunks while it stays within BatchSize entries.                   *)
IsChunkEnd(e, from, last) == e = last \/ (e + 1 - from) % ChunkSize = 0
FitsBatch(e, from, last) ==
  e \in from .. last /\ IsChunkEnd(e, from, last) /\ e + 1 - from <= BatchSize
IsBatchEnd(e, from, last) ==
  /\ FitsBatch(e, from, last)
  /\ \A e2 \in from .. last : FitsBatch(e2, from, last) => e2 <= e

ChunkHash(lines, from, to) == [n \in from .. to |-> lines[n]]
ChunkEnd(from, k, e) ==
  IF from + (k + 1) * ChunkSize - 1 < e THEN from + (k + 1) * ChunkSize - 1 ELSE e
ChunkCount(from, e) == (e - from) \div ChunkSize + 1
NewChunk(lines, from, e, number, k) ==
  [number |-> number + k,
   from   |-> from + k * ChunkSize,
   to     |-> ChunkEnd(from, k, e),
   hash   |-> ChunkHash(lines, from + k * ChunkSize, ChunkEnd(from, k, e))]
NewChunks(lines, from, e, number) ==
  {NewChunk(lines, from, e, number, k) : k \in 0 .. ChunkCount(from, e) - 1}

(* Unique (file, line) and (file, chunk number) *)
Conflict(from, e, new) ==
  \/ \E n \in from .. e : entries[n] # NoLine
  \/ \E ch \in chunks, fresh \in new : ch.number = fresh.number

(* CreateLogEntriesWithChunks: one transaction for a batch's entries and   *)
(* chunks.  A conflict stores nothing and ends the collection.             *)
SaveBatch(w) ==
  /\ pc[w] = "save"
  /\ LET t == task[w] IN
     \E e \in t.next .. t.last :
       LET new == NewChunks(t.lines, t.next, e, t.number) IN
       /\ IsBatchEnd(e, t.next, t.last)
       /\ IF Conflict(t.next, e, new)
          THEN Finish(w) /\ UNCHANGED <<entries, chunks>>
          ELSE /\ entries' = [n \in LineNumber |->
                               IF n \in t.next .. e THEN t.lines[n] ELSE entries[n]]
               /\ chunks' = chunks \cup new
               /\ task' = [task EXCEPT
                             ![w].next = e + 1,
                             ![w].number = t.number + ChunkCount(t.next, e)]
               /\ Goto(w, IF e = t.last THEN "record" ELSE "save")
               /\ UNCHANGED lock
  /\ UNCHANGED <<world, row, verdict, faults>>

(* UpdateLogFile writes the snapshot of the record back. *)
Record(w) ==
  /\ pc[w] = "record"
  /\ LET t == task[w] IN
     row' = [identity |-> IF t.seen = NoIdentity THEN t.known ELSE t.seen,
             last |-> IF t.last > t.after THEN t.last ELSE t.lastKnown]
  /\ Finish(w)
  /\ UNCHANGED <<world, entries, chunks, verdict, faults>>

-----------------------------------------------------------------------------
(* Integrity check: CheckLogFile                                           *)

StartCheck(w) == w \in Checkers /\ Start(w, "checkInspect")

CheckInspect(w) ==
  /\ pc[w] = "checkInspect"
  /\ \E seen \in {FileIdentity, NoIdentity} :
       /\ InspectGives(seen)
       /\ IF ShouldReset(task[w].known, seen)   \* RequiresRecollection
          THEN /\ verdict' = [status |-> "error", total |-> 0, tampered |-> 0]
               /\ Finish(w)
          ELSE Goto(w, "checkRead") /\ UNCHANGED <<verdict, task, lock>>
  /\ UNCHANGED <<world, store>>

CheckRead(w) ==
  /\ pc[w] = "checkRead"
  /\ task' = [task EXCEPT ![w].lines = ReadAfter(0)]
  /\ Goto(w, "checkCount")
  /\ UNCHANGED <<world, store, verdict, lock, faults>>

CountLogEntries(w) ==
  /\ pc[w] = "checkCount"
  /\ task' = [task EXCEPT ![w].total = Cardinality(Present(entries))]
  /\ Goto(w, "compare")
  /\ UNCHANGED <<world, store, verdict, lock, faults>>

(* compareStoredEntries *)
Differs(current, n) == current[n] # entries[n]

StoredIn(ch) == (ch.from .. ch.to) \cap Present(entries)

(* hashCurrentChunk: the stored lines must be as many as the chunk counted *)
(* and all of them must still be in the file.                              *)
HashMatches(current, ch) ==
  /\ StoredIn(ch) = ch.from .. ch.to
  /\ StoredIn(ch) \subseteq Present(current)
  /\ ChunkHash(current, ch.from, ch.to) = ch.hash

Covered == UNION {StoredIn(ch) : ch \in chunks}

\* Variation: lines of the file that are not stored yet differ, too.
FindTamperedBothWays(current) == {n \in LineNumber : Differs(current, n)}

\* Variation: an entry is settled by any chunk whose hash matches.
FindTamperedUnsettled(current) ==
  {n \in Present(entries) :
     /\ Differs(current, n)
     /\ \A ch \in chunks : n \in StoredIn(ch) => ~HashMatches(current, ch)}

(* findTamperedEntries: the entries of a chunk are compared one by one     *)
(* only when its hash differs, and those no chunk covers always are.       *)
FindTampered(current) ==
  LET unmatched == {ch \in chunks : ~HashMatches(current, ch)}
      compared == (UNION {StoredIn(ch) : ch \in unmatched})
                    \cup (Present(entries) \ Covered)
  IN  {n \in compared : Differs(current, n)}

Compare(w) ==
  /\ pc[w] = "compare"
  /\ LET tampered == FindTampered(task[w].lines) IN
     verdict' = [status   |-> IF tampered = {} THEN "ok" ELSE "tampered",
                 total    |-> task[w].total,
                 tampered |-> Cardinality(tampered)]
  /\ Finish(w)
  /\ UNCHANGED <<world, store, faults>>

-----------------------------------------------------------------------------
Init ==
  /\ file = [inode |-> 1, lines |-> <<>>]
  /\ pristine = TRUE
  /\ row = [identity |-> NoIdentity, last |-> 0]
  /\ entries = NoLines
  /\ chunks = {}
  /\ verdict = [status |-> "none", total |-> 0, tampered |-> 0]
  /\ lock = Nobody
  /\ pc = [w \in Workers |-> "idle"]
  /\ task = [w \in Workers |-> IdleTask]
  /\ faults = 0

Collect(w) ==
  \/ Inspect(w) \/ GetMaxLineNumber(w) \/ ReadLines(w)
  \/ DropEntries(w) \/ DropChunks(w) \/ BuildChunks(w)
  \/ SaveBatch(w) \/ Record(w)

Check(w) ==
  CheckInspect(w) \/ CheckRead(w) \/ CountLogEntries(w) \/ Compare(w)

Environment == AppendLine \/ Rotate \/ Truncate \/ EditLine

Next ==
  \/ Environment
  \/ \E w \in Workers :
       StartCollect(w) \/ StartCheck(w) \/ Collect(w) \/ Check(w) \/ Fail(w)

Spec == Init /\ [][Next]_vars

(* The cron schedule starts a collection again and again, and a started    *)
(* operation is run by its goroutine; nothing is promised of the file.     *)
Fairness ==
  /\ WF_vars(\E w \in Collectors : StartCollect(w))
  /\ \A w \in Collectors : WF_vars(Collect(w))
  /\ \A w \in Checkers : WF_vars(Check(w))

(* A start from the first collection of a file that was still empty, which *)
(* recorded the identity of the file.                                      *)
CollectedInit ==
  /\ file = [inode |-> 1, lines |-> <<>>]
  /\ pristine = TRUE
  /\ row = [identity |-> FileIdentity, last |-> 0]
  /\ entries = NoLines
  /\ chunks = {}
  /\ verdict = [status |-> "none", total |-> 0, tampered |-> 0]
  /\ lock = Nobody
  /\ pc = [w \in Workers |-> "idle"]
  /\ task = [w \in Workers |-> IdleTask]
  /\ faults = 0

CollectedSpec == CollectedInit /\ [][Next]_vars /\ Fairness

-----------------------------------------------------------------------------
(* Properties                                                              *)

ChunkOK(ch) ==
  /\ ch.number \in Nat
  /\ ch.from \in LineNumber
  /\ ch.to \in ch.from .. MaxLines
  /\ ch.hash \in [ch.from .. ch.to -> Contents]

TaskType ==
  [known : Identity, seen : Identity, lastKnown : 0 .. MaxLines,
   reset : BOOLEAN, after : 0 .. MaxLines, lines : Numbered,
   last : 0 .. MaxLines, next : 1 .. MaxLines + 1, number : Nat,
   total : Nat]

(* Every variable has its type. *)
TypeOK ==
  /\ file.inode \in 1 .. MaxInode
  /\ file.lines \in Seq(Contents)
  /\ Len(file.lines) <= MaxLines
  /\ DOMAIN file = {"inode", "lines"}
  /\ pristine \in BOOLEAN
  /\ row \in [identity : Identity, last : 0 .. MaxLines]
  /\ entries \in Numbered
  /\ \A ch \in chunks : ChunkOK(ch)
  /\ verdict \in [status : {"none", "ok", "tampered", "error"},
                  total : Nat, tampered : Nat]
  /\ lock \in Workers \cup {Nobody}
  /\ pc \in [Workers -> {"idle"} \cup CollectSteps \cup CheckSteps]
  /\ task \in [Workers -> TaskType]
  /\ faults \in 0 .. MaxFaults

(* The chunked comparison of findTamperedEntries reports exactly the       *)
(* stored entries that differ from the lines read, whatever chunks an      *)
(* interrupted reset has left behind: skipping an entry because a chunk    *)
(* hash matched never hides a changed line.                                *)
VerdictExact ==
  \A w \in Checkers :
    pc[w] = "compare" =>
      FindTampered(task[w].lines) =
        {n \in Present(entries) : Differs(task[w].lines, n)}

(* The stored lines of a file have no gap: batches interrupted halfway and *)
(* resets interrupted halfway leave a prefix that the next collection      *)
(* (which starts after the greatest stored line) completes.                *)
EntriesContiguous ==
  \A n \in Present(entries) : 1 .. n \subseteq Present(entries)

(* While operations on a server are isolated, a batch never runs into the  *)
(* unique (file, line) and (file, chunk number) constraints, stale chunks  *)
(* of an interrupted reset included.                                       *)
NoSaveConflict ==
  \A w \in Collectors :
    pc[w] = "save" =>
      LET t == task[w] IN
      \A e \in t.next .. t.last :
        IsBatchEnd(e, t.next, t.last) =>
          ~Conflict(t.next, e, NewChunks(t.lines, t.next, e, t.number))

(* A file that is only ever appended to is never reported as tampered.     *)
AppendOnlyNeverTampered ==
  (file.inode = 1 /\ pristine) => verdict.status # "tampered"

(* A collection that found the file rotated or truncated replaces the      *)
(* whole baseline: when it writes the record back, the entries are the     *)
(* lines it read and the chunks cut exactly those lines up.                *)
ResetReplacesBaseline ==
  \A w \in Collectors :
    (pc[w] = "record" /\ task[w].reset) =>
      /\ entries = task[w].lines
      /\ \A ch \in chunks : ch.hash = ChunkHash(entries, ch.from, ch.to)
      /\ \A n \in Present(entries) :
           Cardinality({ch \in chunks : n \in ch.from .. ch.to}) = 1

(* As long as the record names the file's current inode and that file has  *)
(* only been appended to, the baseline holds lines of that file and of no  *)
(* earlier generation.                                                     *)
OneGeneration ==
  (row.identity.inode = file.inode /\ pristine) =>
    \A n \in Present(entries) :
      n <= Len(file.lines) /\ entries[n] = Trimmed[file.lines[n]]

(* A result does not raise a false alarm: it calls no file tampered that   *)
(* was only appended to, and it never counts more tampered lines than      *)
(* lines, although their number, the chunks and the entries are read by    *)
(* calls of their own.                                                     *)
NoFalseAlarm == AppendOnlyNeverTampered /\ verdict.tampered <= verdict.total

(* Collections catch up: once calls stop failing, the baseline of a file   *)
(* that is only appended to becomes that file, from whatever an            *)
(* interrupted collection or an earlier generation has left.               *)
EventuallyBaselined ==
  <>[](pristine =>
         /\ row.identity.inode = file.inode
         /\ entries = [n \in LineNumber |->
                         IF n <= Len(file.lines) THEN file.lines[n] ELSE NoLine])
=============================================================================
