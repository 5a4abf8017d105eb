# A verification of logmonitor in TLA+

`logmonitor` (this repository) watches log files on remote servers. Over SSH it
*discovers* log files, *collects* their lines into a hashed baseline, and later
*checks* whether the lines it collected are still what the files hold. Scheduled
sweeps, an HTTP API with asynchronous jobs and a command line start these three
operations.

This directory holds TLA+ models of the program, the TLC runs that check them on
small instances and TLAPS proofs of their main properties for every instance.
`PROJECT.json` lists components, runs, the code each definition models, mutants
of the code that the properties must reject, hazards, findings and theorems.

    tlc -workers 2 -config JobManager.cfg MCJobManager.tla     # one run
    tlapm JobManagerProofs.tla                                 # one module's proofs

## 1. Inventory

| component (source) | state it keeps | operations | what makes it correct |
|---|---|---|---|
| collection (`internal/service/collector`) | none; works on the log file's record, its entries and chunks | `CollectLogFile`: inspect identity, greatest stored line, read, reset, chunk, save in batches, write the record back | stored lines form a prefix of one generation of the file; interrupted work is completed, never repeated or skipped; a rotation replaces the baseline |
| integrity check (`internal/service/integrity`) | check results | `CheckLogFile`: inspect, read, count, compare by chunks | reports exactly the stored lines that changed; never accuses a file that only grew |
| job manager (`internal/jobs`) | queue, history, idempotency keys, active fingerprints, workers | `Submit`, `GetJob`, `ListJobsPage`, workers, `Shutdown` | no job lost or doubled; same work never runs twice at once; bounded memory; a repeated request finds its job; shutdown ends every job |
| server locks (`crons/locks`) | set of locked keys | `TryLock`, unlock | one operation per server at a time, if isolation is on |
| storage (`internal/repository/memory`, `postgres`) | servers, log files, entries, chunks, check results | create, update, delete with cascade, atomic batch, lists | unique keys, no orphan rows, batches all or nothing |
| health (`internal/service/health`) | status, counters, backoff of a server (in its record) | `ShouldSkip`, `RecordSuccess`, `RecordFailure`, `RecordDegraded`, `ClearBackoff` | status, failure count and backoff agree in whatever order outcomes arrive; a backoff ends; nothing comes back after a deletion |
| server registry (`internal/service/server`) | server records | `Create`, `Update`, `Delete`, `Retry`, `Discover`, dashboard, problems | unique name and host; a server of the configuration is never changed through the API, nor the other way round |
| seeding (`internal/app/general`) | the list of servers a start has read | `seedServers` for each entry of the configuration | every entry arrives or is warned of, also after failing calls and starts that ended early; an old copy of a record is all that takes it away |
| cron runners (`crons/collection`, `integrity`, `discovery`) | list of servers taken at the start of a sweep | `Run`, `processServer`, worker pools | inactive and backed-off servers are left alone; outcome recorded once |
| application services (`internal/service/logfile`, `check`) | none | `Collect`, `Run`: lock, per-file calls, health record | as the runners |
| discovery (`internal/service/discovery`) | none; log file records | `Discover`, `Sync` | files appear once, disappear by deactivation |
| scheduler (`crons/scheduler`) | started flag, cancel function, jobs | `AddFunc`, `Start`, `Stop`, `runJob` | each job once at a time, none after `Stop` |
| application (`internal/app`) | all of the above | `New`, `Run`, the deferred shutdown | a signal ends the process; a clean exit leaves nothing half done; nobody calls the closed repository uncanceled |
| SSH executor (`internal/ssh`) | one connection | `Connect`, `ExecuteContext`, `Close` | every command ends |
| HTTP transport (`internal/transport/http`) | listening socket, requests | serve, `Shutdown`, `readyz`, handlers | "ready" only while the process takes work |
| CLI, configuration, `pkg/*`, `models` | none that lives on | parsing and rendering | - |

How they interact. The runners, the application services (called by HTTP handlers
through the job manager) and the CLI call the same collector, integrity and
discovery services on the same repository. Inside one process they are kept apart
per server by `TryLock`, which refuses instead of waiting; two processes on one
database are kept apart only by unique constraints. The health service writes
server records that the registry and discovery write, too. Nothing is called
back; the shared state is the repository, the lock table and the job manager's
maps.

What is hard: operations of many remote calls and many repository calls, any of
which may fail or be the last before a crash; a file that is rotated, truncated
or edited between two calls; chunk hashes that let the check skip entries; jobs
that are submitted, finish, are trimmed and shut down at once; read-modify-write
of whole records. `PROJECT.json` lists these places, line by line, under
`hazards`.

## 2. Modules

| module | models | proofs |
|---|---|---|
| `LogBaseline` | one log file: the remote file, its record, entries and chunks, collection, check, the server's lock | `LogBaselineProofs`, `LogBaselineStoreProofs` |
| `JobManager` | the job manager | `JobManagerProofs` |
| `JobLedger` | what the job API promises, implemented by `JobManager` | |
| `ServerHealth` | one server's record and everybody who writes it: sweeps, manual operations, discovery, the health service, operators | `ServerHealthProofs` |
| `Database` | the tables, unique keys and cascades of the PostgreSQL repository | |
| `MemoryStorage` | the in-memory repository, which implements `Database` | `MemoryStorageProofs` |
| `LogFileCatalog` | the log files of one server: discovery and its `Sync`, collections writing the same records, the server's deletion | `LogFileCatalogProofs` |
| `ServerRegistry` | who may monitor which host: seeding of the configured servers, the API's changes and old copies written back | `ServerRegistryProofs` |
| `Application` | the process: main, scheduler, HTTP server, job workers, the repository's connections, and the shutdown | `ApplicationProofs` |
| `MCLogBaseline`, `MCJobManager`, `MCServerHealth`, `MCMemoryStorage`, `MCLogFileCatalog`, `MCServerRegistry`, `MCApplication` | constants and symmetry for TLC | |

### LogBaseline

State: `file` (inode and lines of the remote file), `row` (the `LogFile` record's
`FileIdentity` and `LastLineNumber`), `entries` (`log_entries`: line number to
hashed content), `chunks` (`log_chunks`), `verdict` (the last `CheckResult`),
`lock` (the key `server:<id>` in `locks.Manager`), and for each operation in
progress its next call (`pc`) and local variables (`task`). `pristine` is a
history variable: the current generation of the file has only been appended to.

Every remote command and every repository call is an action: `Inspect`,
`GetMaxLineNumber`, `ReadLines`, `DropEntries`, `DropChunks`, `BuildChunks` (it
asks for the latest chunk), `SaveBatch` (one transaction, several of them per
collection), `Record` (`UpdateLogFile`), and `CheckInspect`, `CheckRead`,
`CountLogEntries`, `Compare` of the check. Between any two of them the file's
writer, a rotation, a truncation in place (also a rotation that reuses the
inode), an edit, the other operations or `Fail` may take a step. `Fail` is a call
that fails, a canceled context or the end of the process: the operation is gone,
its lock with it, what it has stored stays. A failed identity command is *not* a
failure: `InspectGives` lets the operation go on without an identity, as both
operations do.

Abstractions, each with its reason:

- A hash is what it hashes (no collisions); a chunk's hash is the function from
  its line numbers to contents.
- A file's size is its number of lines: only `size > 0` and "smaller than before"
  matter to `shouldResetCollection`.
- A line has one of a few contents; `Trimmed` says what `TrimSpace` of the
  executor makes of a content that ends an output. Lines are written whole.
- Text files only: an event log has no inode and its identity is its name.
- Both repositories implement the atomic batch interface, so the other branch of
  `saveEntriesAndChunks` is not reachable in the program.
- `Compare` reads chunks and entries in one step. With isolation on nobody else
  writes them meanwhile; with isolation off this is an abstraction.
- Connecting is part of the first command's failure.

### JobManager

State: `jobs` (the map, and with identifiers in order of acceptance also
`order`), `queue` (the channel), `idempotencyKeys`, `activeFingerprints`,
`shuttingDown`, `canceled` (the context), the progress of `Shutdown`, and each
worker's step and task. A critical section of `Manager.mu` is one action:
`JoinActive`, `Enqueue`, `RefuseFull` (the three outcomes of `Submit` that change
anything), `StartRunning`, `Finish` with the trimming it calls, `CloseQueue`. A
worker's receive, its test of the context and its run are steps between them, and
`Shutdown` cancels the context in a step after closing the queue. `Init` is the
state after `Start`, which `App.Run` calls before it serves requests.

A `Submit` that finds its key, or that comes after `Shutdown`, changes nothing
and is not a step. Fingerprints are never empty: all three handlers set one.
`RunReturns` takes the return of a run and the critical section that records it
as one step, since nobody else writes that job meanwhile and the context, once
canceled, stays so. `workersStarted` only serves the readiness answer.

### JobLedger

An accepted job is queued, may run, ends once, may be forgotten after that; no
two active jobs have the same fingerprint; every accepted job ends. `JobManager`
maps a deleted job to `forgotten` and everything else to its status.

### ServerHealth

State: `record` (the `models.Server` row: status, failure count, what is left of
the backoff, whether the operating system is known), `lock` (the key
`server:<id>`), and for each actor its next call (`pc`), the copy of the record it
holds (`snap`) and, for an operation, what it is about to record (`outcome`).
Actors are scheduled sweeps, manual operations and operators (one HTTP request at
a time each); `Kind` says whether an operation collects, checks or discovers.

A sweep reads the list (`Start`), later decides by its copy whether to skip and
tries the lock (`Skip`, `TakeLock`). A manual operation reads the one record and
never skips. Discovery connects with the copy's settings and, if the copy has no
operating system, writes the whole copy back (`PersistOS`). Every operation then
works, records and unlocks; manual discovery unlocks before it records
(`RecordsLate`), as `Service.Discover` does. `RecordDegraded`, `Update` and `Retry`
are a read and, in another step, a write of the whole record, with room for all
other actors in between; `RecordSuccess` and `RecordFailure` change the stored row
in place, the latter with a backoff computed from the caller's copy. Each of them
may fail (`RecordFails`, `Write`), and all callers ignore it.

Abstractions: a backoff is the time left of it, which `Tick` lets run down in the
record and in every copy, so none and expired are one value (`ShouldSkip` does not
tell them apart). The failure count stops at `MaxFailures`; with
`NextBackoff(MaxFailures + 1) = BackoffMax`, as in the run, nothing the code does
with a greater count differs. Once the lock is held and the operating system
stored, only a copy's failure count is read again (`FailuresOf`), and the rest of
the copy is forgotten. `managed_by` never changes and is the constant
`ApiManaged`. Success count, last error, last seen and connection settings decide
nothing. A manual operation that ends without work (no file, or the files cannot
be listed) is `NoFiles`.

### Database and MemoryStorage

`Database` has one variable per table, a function from every primary key to its row
or `NoRow`. Its actions are the statements of the PostgreSQL repository; the unique
indexes are their guards, and `Cascade` is the `ON DELETE CASCADE` of the
migrations. `MemoryStorage` has the same five maps (`servers`, `logFiles`,
`entries`, `chunks`, `checks`) and the four indexes of `memory.Storage`
(`logFilesByServer`, `entriesByLogFile`, `chunksByLogFile`, `checksByLogFile`),
which its methods search and follow: `CreateLogFile` looks for a path in the index
only, a deletion removes what the indexes name, a batch compares lines by index and
chunk numbers by walking one. Every method holds the mutex to its end and is one
step; one that returns an error changes nothing and is none. Its property
`ImplementsDatabase` is that every step is a step of `Database`.

Abstractions: columns that no key mentions are left out (status, counters and
backoff of a server are in `ServerHealth`; identity, contents and hashes in
`LogBaseline`). Names and hosts are in lower case, as the migrations' indexes and
`EqualFold` compare them. `newID` gives an unused identifier, so identifiers are
chosen by the step. Chunk and check lists are sets, since every reader sorts them,
and an index without a key has an empty value. `CreateLogEntry`,
`CreateLogEntries` and their chunk counterparts are batches with only entries or
only chunks. Unlike the combined batch they do not look for duplicates *within* the
batch; no caller passes such a batch (the collector numbers lines and chunks
consecutively, and calls the combined one), so the model does not have them.

Lists. A page of entries, chunks, log files or servers is a selection, an order and a
page. `Database` defines what a statement with `WHERE`,
`ORDER BY`, `LIMIT` and `OFFSET` returns, `MemoryStorage` what `paginate` cuts out of
the sorted result of following an index and testing each row; `ListsAgree` compares
both in every state, for pages at and beyond the end, limits of zero and line bounds
of zero, which mean none. It is about the sortings and limits for which both
repositories promise the same. They do differ, and nothing in the repository's
documents decides between them: without a sort field memory sorts in descending order
always, the statements sort entries by line and servers by name in ascending order and
checks by time in descending order; a limit of zero or less is everything in memory
and 50 rows of a filtered list in SQL; a status is ranked in one and
alphabetical in the other; empty values come first or last; `%` and `_` in a search
are wildcards of `LIKE` only; ties keep no order in memory.

### LogFileCatalog

State: what the host has (`present`, and the `generation` of each file), whether the
server's record `exists`, the records of its log files (`rows`, of which only
`IsActive` and `FileIdentity` are kept), the `lock`, and each operation's next call
(`pc`) and local variables (`task`): the files found, its copies of the records, what
it still has to handle and, for a collection, the files its workers are at.

Discovery is `Find` (the remote command), `ListExisting`, one step per call of
`Sync`'s two loops (`KeepFound`, `Reactivate`, `Create`, then `Deactivate`), and the
return with the deferred unlock. A write that meets a row against what the copies say
(`SyncConflicts`), a failed call or a cancellation (`DiscoveryFails`) ends it where it
is, what it has written stays. A collection lists the files (`ListFiles`: a sweep the
active ones, an operator all or one), its workers inspect and later write whole rows
back (`StartFile`, `Record`), any of them may fail, a canceled sweep starts no further
file. `DeleteServer` takes no lock and may come between any two steps, and so may
files that appear, disappear and rotate.

Abstractions: one path has one record (`KeysUnique` of `MemoryStorage`), so records are
indexed by path. The order of a loop over a map or over the remote output is left
open. A log's type is a function of its path, so `Sync` never finds it changed. A
generation stands for an inode that is not used again. What a collection does between
inspecting and writing the record back is `LogBaseline`; what is recorded of the
server afterwards, and why it is skipped, is `ServerHealth`. Identities only ever
change in `Record`.

### ServerRegistry

State: the `servers` table (name, host and `managed_by`, by identifier), the servers
section of the configuration (`file`), the start in progress (`start`, the entry it is
`at`, the list of servers it read once (`existing`) with the order of the list
(`place`), the entries it has `warned` of), and for each writer its next call
(`step`) and what it will store (`draft`). `undone` is a history of the start: the
entries it had applied and an old copy has replaced. Writers are API requests,
discoveries and records of the health service, one server of one of them at a time.

`ListServers` is the one call with which `seedServers` begins; when it fails the start
ends and has done nothing. Then one step per entry:
`Refuse` (the entry names a server of the API: the start ends), `Overwrite` (it names
one of the configuration), `Create`, or `Skip`: the call that writes the entry answers
with an error (a duplicate, a missing row, or any other), which becomes a
warning, and the start goes on. `Crash` ends the process between two entries, and
`EditConfig` changes the file between two starts.

An API request tests and writes in different
calls: `CreateChecked` (`ensureUniqueIdentity`) and `CreateServer`; `GetToUpdate`
(`ensureAPIServerMutable`), `UpdateChecked` and `UpdateServer`; `GetToDelete` and
`DeleteServer`. `ReadWhole` and `WriteBack` are the other two callers of the
repository's `UpdateServer`: discovery, which stores the copy it was given once it has
found the operating system (`discovery/service.go:60-72`), and the health service's
`mutateServer` (`RecordDegraded`; `ClearBackoff`, also for a request to retry). They
change other columns than these, but store all of them, and do not ask who manages the server. Starts
and writers run side by side, because a command line process seeds the same repository
that the server process serves. A failed call is `Abandon`, and changes nothing.

Abstractions: two starts at once are not modelled, nor an edit of the file during a
start, nor a call that fails although it was carried out. A name is a number, its place
in the alphabet. `RecordServerSuccess` and `RecordServerFailure` write none of these
columns and are left to `ServerHealth`, with all else a server keeps.

What the model shows, where no document promises otherwise: a record read before a
start and written back after it (a retry, a degraded outcome, a detected operating
system) brings name and host of before back, without a warning, until the next start
(`SeededOrWarned` names it, `undone`). Of two entries with one name or host the later
replaces the earlier without a word (`Replaced`). Two entries that exchange
their hosts between two starts are both skipped with a warning, at every start,
because each meets the other's stored host (the operator has to delete one, which the
API refuses for servers of the configuration). One API-managed server with the name
or host of an entry refuses the whole start, so the entries behind it do not arrive
either. `EveryEntryArrives` names these two exceptions.

### Application

State: the next step of `main`, what `App.Run` will return (`err`), the repository
(`store`), the `listener`, the job `manager`, the `scheduler`, the three contexts
(`signaled`, `sweepsCanceled`, `jobsCanceled`), and what each sweep, request and job is
`doing`. `refused` are the actors that have met the closed repository.

`OpenStore`, `CreateSSHFactory`, `SeedServers`, `RegisterJobs` build the process;
`StartJobs`, `StartScheduler`, `ListenAndServe` start it; a `Signal` or a listener that
fails (`StopListening`, `ListenFailed`) begins the deferred calls in their order:
`ShutdownServer` (five seconds), `CloseStore` and `ConnectionsReturned` (a pool waits for
its connections), `CancelSweeps` and `JoinSweeps` (no time limit), `CloseQueue`,
`CancelJobs`, `ShutdownJobs` (ten seconds). In between sweeps run and wait for ticks,
requests arrive, submit jobs, ask for readiness one part after the other, jobs are
taken by workers, and everybody calls the repository (`Query`, `QueryReturns`,
`QueryRefused`). The end of main is everybody's end.

Abstractions: what an actor does with the repository is left out; that it holds a
connection meanwhile and under which context it runs is what counts. A pool refuses a
canceled call before it looks whether it is closed (`pgxpool`'s `Acquire`, external).
The manager is two states here; `JobManager` has its detail. Before main asks for
signals (`signal.NotifyContext`), a signal ends the process as any other would, and is
no step. A request's context is not canceled by `Shutdown`; that its client may go away
is not modelled, a request may respond at any time. Memory and a dry run have nothing
to close (`InDatabase`).

With isolation off the runtime passes the services a nil `*locks.Manager` in an
interface that is not nil. Their test for nil does not hold, `TryLock` panics, and no
job worker recovers: `JobPanics`. The run has isolation off, so every property holds
with such a crash possible; the models of the operations have isolation off as "no
lock", which is what the sweeps do.

## 3. Runs

| run (cfg) | instance | checks | states |
|---|---|---|---|
| `LogBaselineCheck` | 1 collector, 1 checker, 2 contents, 2 lines, 2 generations, chunk = batch = 1, 1 fault | `TypeOK`, `VerdictExact`, `NoFalseAlarm` | 1.7 million |
| `LogBaselineStore` | 2 collectors, 3 lines, chunks of 1 in batches of 2, 2 generations, 1 fault | `EntriesContiguous`, `NoSaveConflict`, `ResetReplacesBaseline` | 4.0 million |
| `LogBaselineCatchUp` | 1 collector, fairness, from a recorded identity | `OneGeneration`, `EventuallyBaselined` | 330 thousand |
| `LogBaselineFirstCollect` | 1 collector, 1 fault | `OneGeneration` violated | |
| `LogBaselinePadding` | a content that ends in white space | `AppendOnlyNeverTampered` violated | |
| `JobManager` | 2 workers, queue 2, history 2, 4 jobs, 3 fingerprints, 2 keys | `TypeOK`, `JobsAccountedFor`, `OneActivePerFingerprint`, `HistoryBounded`, `ShutdownLeavesNoActiveJob`, `KeyKeepsItsJob` | 380 thousand |
| `JobManagerEnds` | 2 workers, queue 1, history 1, 3 jobs, fairness | `KeepsLedger`, `ShutdownCompletes` | 30 thousand |
| `ServerHealth` | a collection sweep, a manual discovery, an operator; threshold 1, backoff 1 tick and then 2, count up to 1, isolation on, fairness | `TypeOK`, `RecordOfOnePiece`, `OneOperationAtATime`, `DeletedStaysDeleted`, `AttendedAgain` | 360 thousand |
| `MemoryStorage` | 2 servers, log files, names, hosts, paths, lines, chunks, numbers and results, 3 entries | `TypeOK`, `IndexesExact`, `NoOrphans`, `KeysUnique`, `ListsAgree`, `ImplementsDatabase` | 2 thousand (with symmetry) |
| `LogFileCatalog` | 2 paths, a discovery sweep, a collection sweep with 2 file workers, a manual collection, 2 generations, 2 changes of the host, 1 failed call, isolation on, fairness | `TypeOK`, `SyncExact`, `DeletedForGood`, `NothingUndone`, `Catalogued` | 280 thousand |
| `ServerRegistry` | 2 names, 2 hosts, 4 configurations (two servers, their hosts exchanged, a name of one with the host of the other, two entries with one host), 1 writer, 3 identifiers, 1 edit, 1 failing call or process, fairness | `TypeOK`, `SeededOrWarned`, `EveryEntryArrives` | 190 thousand |
| `Application` | 2 sweeps, 1 connection, 2 jobs, 1 worker, queue 1, isolation off, dry run and database either way, fairness | `TypeOK`, `ClosedUnderCancelOnly`, `CleanExit`, `ReadyMeansAccepting`, `SignalEndsProcess` | 178 thousand |

Why the bounds are enough. One fault already interrupts a reset or a series of
batches anywhere, and what it leaves meets a second generation of the file and
a second operation. Two generations let a collection resume over a file that was
rotated; three lines with chunks of one in batches of two give a collection of
two batches of different sizes; two contents tell a changed line from an
unchanged one. The general case (sizes, chunk boundaries that overlap after an
interrupted reset, any number of workers) is what the proofs of `VerdictExact`
and `TypeOK` add. In the job manager four jobs exceed history, workers and queue
in every combination, three fingerprints let two jobs run while a third is
queued, and two keys let one of them join. For the server's record, one actor of
each sort is enough for every pair of a stale write and what it overwrites: the
discovery writes its copy over the sweep's outcome, the operator over both, and
manual discovery records late. The threshold is 1 and the backoff doubles once: a
failure counted from none has a backoff of one tick, any other one of two, the maximum; a
count that stops at 1 gives both, because the backoff is that of the count plus one.
Larger thresholds and longer series of doublings are what `BackoffWithinMax` adds. In the storage, two of everything make a
duplicate, a move onto a free and onto a taken path, and a deletion that must spare
the other's rows; a third entry lets a batch meet stored ones. In the catalog, two changes make a file
disappear and come back, a failed call leaves a `Sync` half done between two paths, and
two collections of both sorts hold copies while the discovery waits. In the registry,
one edit turns any of the four files into another, which gives an entry that is moved, one
that meets the other's host, one that is new and one that replaces another; one writer beside
one start already has its test or read and its write on either side of every step of
seeding; one fault is a start that ends with any prefix of the file applied, or an entry
skipped while nothing stands against it. In the application, two sweeps let one hold
a connection while the other is joined; two jobs with one worker and a queue of one fill
the queue while a job runs; one connection is enough for a request that outlives the
shutdown, submits and asks for readiness. Any number of actors and any values are
what the proofs add.

Symmetry is used where identifiers are only compared and no liveness is checked.

`CHECK_DEADLOCK FALSE` stands in the job manager's, the server health, the catalog's, the
registry's and the application's configurations only: after `Shutdown` and the exit of the
workers, or of the process, the program has nothing left to do, neither has it with a
server that was deleted, and identifiers, edits and faults of starts are bounded.

Fairness. `LogBaseline`: the cron schedule starts a collection again and again
(`runJob`), and a started operation is carried on by its goroutine; nothing is
assumed of the file or of faults, and faults are bounded, so "once calls stop
failing" is what `EventuallyBaselined` says. `JobManager`: each worker goroutine
goes on, the run included, because every remote command has a timeout
(`ExecuteContext`); a `Shutdown` that has closed the queue goes on to cancel the
context. That a client submits anything, that `Shutdown` is called or that its
caller waits is not assumed. `ServerHealth`: sweeps start again and again, an
operation or a request that has begun goes on, time passes; no operator and no
manual operation has to come. `AttendedAgain` therefore rests on the sweep alone. `LogFileCatalog`: discovery sweeps
start again and again and operations that have begun go on. `TryLock` refuses instead
of waiting, so collections that hold the lock whenever a discovery comes can keep it out
for ever; `Catalogued` is therefore about behaviours in which discoveries get to the
host again and again. `ServerRegistry`: a start
that has begun goes on with its entries, and that is all; nothing restarts a process, so
`EveryEntryArrives` is about behaviours in which processes are started again and again, and
in which old copies at last stop changing servers: without the latter, a copy written
back during every start keeps an entry out for ever. `Application`: main goes on, its
timers included; a repository call returns, because contexts and connections have time
limits; a run of a sweep ends however often it calls the repository, and a canceled
scheduler job is left in the end although `select` may prefer ticks (strong fairness of
`RunReturns` and `Leave`: the goroutine alternates between running and waiting, and
`select` chooses at random among what is ready). No signal has to come, no request has to
end, no job has to: main does not wait for them without a limit. A silent host during the SSH handshake is outside
this assumption (see the hazards).

### What the runs found

- **First collection fails** (`LogBaselineFirstCollect`): identity is recorded by
  the last call of a collection, entries before it. A first collection that fails
  after a batch leaves entries of no named generation; after a rotation the next
  collection appends to them and records the new inode over the old lines.
- **Trailing white space** (`LogBaselinePadding`): the executor trims an output's
  end, so a last line is hashed without its trailing white space and differs from
  itself as soon as another line follows it.

What the other models show, where the code does so and no document promises otherwise:

- History is trimmed in order of creation in the step that ends a job
  (`manager.go:396`), so a long job that ends as the oldest one is deleted before its
  result can be read.
- A success or failure recorded between the read and the write of `Service.Update`
  (`service.go:121-152`) is undone: the write puts failure count, backoff and status of
  before back.
- On shutdown the repository is closed while sweeps and jobs still run
  (`http/app.go:91`). They meet it under a canceled context (`ClosedUnderCancelOnly`); what some runners
  then try to record as a failure is refused like every other canceled call. When the
  listener fails nothing is canceled, and failures that are none meet the closed
  repository itself.
- An operation that ends records `active` or `error` over the `inactive` an operator
  has set meanwhile; a sweep contacts a server whose deactivation or backoff came after
  its list; the write of a detected operating system brings an older status and count
  back; a backoff may belong to a failure count that is not the stored one. The
  record stays of one piece through all of it (`RecordOfOnePiece`).

## 4. Proofs

`LogBaselineProofs` (assumptions: the named assumptions on the constants, that is,
positive sizes, `ChunkSize <= BatchSize` as `normalizeOptions` ensures, and
distinct workers; `Isolation` may be on or off):

- `TypeCorrect`: `Spec => []TypeOK`. `TypeOK` alone is not inductive: `SaveBatch`
  stores the lines an operation holds, which must be lines and not gaps.
  `ReadOK` says which line numbers the operation's lines cover at each step, and
  `TypeInv == TypeOK /\ ReadOK` is inductive.
- `VerdictIsExact`: `Spec => []VerdictExact`. The comparison of a check skips the
  entries of a chunk whose hash matches. What makes this sound is `AllDescribed`:
  a stored line is covered by no chunk (then it is compared anyway) or by one whose
  hash was computed from that very line (then a change of the line breaks that
  hash). Stale chunks of an interrupted reset may overlap and mismatch, which only
  costs a comparison. `ChunkStart`, `ChunkOfLine` and `NewChunkShape` are the
  arithmetic of cutting a range into chunks, needed because a batch must describe
  every line it stores (`SaveDescribes`); `ComparisonExact` is the pure fact that
  under the invariant the comparison by chunks equals the comparison of all entries.

`LogBaselineStoreProofs` (the same assumptions) is about what collections leave in the
store, and its theorems have hypotheses, each of them needed:

- `Isolation`, the configuration the server runs with by default: without it two
  collections read the same greatest line and one of them meets the unique keys.
- `PlainTrimming` (`Trimmed[c] = c`: no line ends in white space) for the two theorems
  that compare contents. Without it they are false: run `trailing_space` finds the false
  alarm.
- `OneGeneration` starts from `CollectedSpec`, a first collection that has recorded the
  file's identity. From `Init` it is false: run `first_collection_fails`.

Its invariants:

- `StoreInv`. Whoever is at work holds the lock (`Alone`); the stored lines are 1 to some
  number at every moment (`Gapless`); and at each step of a collection its locals describe
  the store: what it has read are the lines after those it has seen, all of them
  (`ReadWhole`), without a reset it goes on behind the last stored line, with one it finds
  no line and, when it builds chunks, no chunk left (`StoreKnown`), and what it has saved
  so far are its lines cut up by its chunks, each line in one (`Replacing`). This is what
  an interruption may not destroy: `Fail` frees the lock with the store as it is, and the
  next collection relies on `Gapless` only. From it `EntriesStayContiguous`,
  `SavesNeverConflict` and `ResetsReplaceBaseline`.
- `AlarmInv`, for `NoFalseAlarmEver`. While the file is the first one and was only
  appended to, the stored lines and those a collection holds are its lines, and a check
  that is going to compare has read every stored line as it is stored and counted all of
  them. The lock carries this through a check: nobody stores between its calls.
- `GenerationInv`, for `BaselineOfOneGeneration`. The recorded identity is one the file
  once had, and while it is still current, the entries are lines of the file. A
  collection in progress knows the recorded identity, has seen one that the file had
  (or none), resets only when the recorded one is current no more, and holds lines of the
  generation it is going to record: of the identity it has seen when it resets, of the
  recorded one when it does not.

`JobManagerProofs` (assumptions: positive capacities, finitely many workers and at least one):
`IInv` is the conjunction of `TypeOK`, `Statuses` (a queued task's job is queued, a
worker's is queued until it runs), `OnePlace` (no task is in two places),
`Somewhere` (an active job is in one), `Registered` (an active job's fingerprint
finds it), `Fresh` (identifiers not drawn yet name no job) and `Drained` (a worker
exits only behind a closed, empty queue). None of the properties is inductive
alone: that a job is not run twice rests on where tasks are, that the same work
is not queued twice on the map of fingerprints, and that nothing is left on the
order of closing the queue and draining it. From it:
`TypeCorrect`, `NoJobLost`, `ActiveWorkUnique`, `NothingLeftActive`,
`KeysKeepTheirJobs`, and `ImplementsLedger`, the step-by-step refinement of
`JobLedger`'s safety part. `HistoryStaysBounded` counts. An end adds one ended job and
trims in the same step: the first job that is kept has as many before it as there are
too many, and those are removed (`OldestEnough`), so at most `HistoryLimit` are left
(`FinishTrims`). An active job is queued or at a worker (`Somewhere`), which bounds the
active ones by the queue's capacity and the number of workers (`ActiveBound`).

`ServerHealthProofs` (assumptions: distinct actors, a positive threshold and a
maximum that is even in ticks, as whole seconds are; `Isolation` and `ApiManaged`
either way): `IInv` is `TypeOK`, `WholeCopies` and `OnePieceEach` (every copy that
somebody may still write is of one piece, too: a record is only as good as the
copies that will overwrite it) and `Locked` (who works holds the lock; the two
orders of unlocking and recording make this more than mutual exclusion). From it
`TypeCorrect`, `OnePieceAlways`, `MutualExclusion` and `NoResurrection`.
`BackoffWithinMax` is about the doubling loop, a recursive function; facts about
such a function are proved by the least counterexample (`LeastElement`, from the
library's well-foundedness of `<`), since induction theorems cannot be
instantiated.

`MemoryStorageProofs` (assumptions: `NoRow` is no row, `NoId` no identifier, lines are
natural numbers and chunk numbers integers, identifiers are finitely many, as `newID`'s
eight random bytes are): `IInv`
is `TypeOK`, `IndexesExact`, `NoOrphans` and `KeysUnique` together. The argument goes
through the database. While the indexes are exact, what a method finds by them is
what the database finds by its keys (`FoundLogFiles`, `FoundEntries`, `FoundChunks`,
`FoundChecks`, `PathFree`, `LineFree`, `NumberFree`), so each method does what its
statement does (`StepImplements`); the statements of the database preserve types,
references and keys (`TablesPreserved`, `OrphansPreserved`, `KeysPreserved`), and the
methods preserve the indexes (`IndexesPreserved`), where the hard cases are a
log file that moves to another path and the deletion of a server with all its paths
(`MovedLogFileIndexed`, `ServerLeavesNoPath`). From it follow `TypeCorrect`,
`IndexesAlwaysExact`, `NothingOrphaned`, `KeysAlwaysUnique` and the refinement
`ImplementsTheDatabase`.

`ListsAlwaysAgree` follows from the same invariant. Rows with keys of their own have one
order and it exists: a row's place is the number of rows up to it (`RankCounts`,
`OrderIsRank`, `OneOrder`, `SortedInOrder`), so what memory sorts is what `ORDER BY`
returns. That the keys differ is `KeysUnique`, that both sort the same rows `IndexesExact`.
`paginate` cuts what `OFFSET` and `LIMIT` cut (`PaginateIsPart`), neighbouring pages join
(`AdjacentPages`), the loop of `ListLogEntriesByLineRange` keeps an ordered list of the
lines in the range after every turn (`KeptInOrder`, by the least turn at which it would
not), the greatest line and the latest chunk stand at the ends of the two orders
(`EndsOfOrder`), and lines are counted by a bijection (`CountsAgree`).

`LogFileCatalogProofs` (assumptions: distinct operations, at least one file worker;
`Isolation` either way, but `SyncIsExact` and `NothingIsUndone` say something only with
it): `Inv` is the types (`Typed`, `Roles`, `Copied`, `Narrow`), `Past` (no record and no
copy knows of a generation that is not there yet) and `Alone`: whoever is past the lock
holds it (`Locked`), and until it lets go what it has copied is what is stored, but for
a deleted server. `SyncedAs` says so call by call for a discovery, which files are already
active and which rows are still as copied, and `CollectedAs` for a collection. Neither
property is inductive without this, since each write stores a whole row of a copy. The
steps of others keep it because they are not past the lock (`SyncedByOthers`,
`CollectedByOthers`), an operation's own steps by `SyncedAfter` and `CollectedAfter`. From
it `TypeCorrect`, `SyncIsExact`, `NothingIsUndone` and `DeletedServersStayEmpty`.

`ApplicationProofs` (assumptions: sweeps, requests and jobs are different, jobs are
finitely many, at least one worker and one place in the queue; `Isolation` either way):
`IInv` adds to the properties which parts are up at each step of main, which contexts are
canceled by then (`Order`), and where requests and sweeps can be (`NoRequestLeft`,
`SweepsTaken`): that a closed repository is met under cancellation rests on
main's having seen the signal before it closes anything, that no sweep is left behind on the
scheduler's join. The counts of the queue and of busy workers change by one
(`FiniteSetTheorems`). From it `TypeCorrect`, `ClosedUnderCancel`, `ExitsClean` and
`ReadyIsTrue`; the last is an action property: a request past the manager's answer in a
process with a scheduler finds the scheduler started, and main stops the scheduler first.

`ServerRegistryProofs` (assumptions: names are numbers and have a last one,
`NoServer` is no server; the file may hold duplicates): `IInv` is `TypeOK` and what the
others rest on. `Fresh`: identifiers not drawn are free. `ListOwned`: what a start believes
to be of the configuration is stored and is of the configuration, though its name and host
may differ from the list by now. `DraftOfApi`: a request that is going to write holds a
server of the API, so what it replaces or deletes is the API's, however long ago it asked.
`CopyOwned`: a copy that is going to be written back has the owner of its row. `EntriesKept`:
each entry that was passed was warned of, has been replaced, or is noted in the start's list
under an identifier whose row holds it or was changed by an old copy. `SeededOrWarned` alone is not
inductive, since overwriting a row that the list shows otherwise might take another entry
away. `Steady` says of every step that it keeps owners, revives nothing and deletes no
configured server. From it `TypeCorrect`, `SeedingIsHonest` and `OwnersAreKept`, the
property `OwnersKeep`, which is proved only: a server stays with the configuration or with the
API for good, and one of the configuration stays, though both sides test `managed_by` on what an
earlier call has read and whole rows are written back.

Only model-checked: liveness
(`ShutdownCompletes`, `EventuallyBaselined`, `AttendedAgain`,
`Catalogued`, `SignalEndsProcess`, `EveryEntryArrives`, the fairness part of
`KeepsLedger`), which is out of the prover's reach. Every invariant that a run checks is
stated by a theorem; `OneGeneration` and `NoFalseAlarm` under the hypotheses above, and
in the runs with the values of their configurations.

## 5. Plan

In order of importance:

1. `LogBaseline` and its proofs - done.
2. `JobLedger`, `JobManager` and proofs - done.
3. `ServerHealth` and its proofs - done.
4. `Database`, `MemoryStorage` with the lists, and proofs - done; left: a server's deletion
   during a collection, composed with `LogBaseline`.
5. `LogFileCatalog` and proofs - done.
6. `ServerRegistry` (seeding, the API's changes, old copies) and proofs - done.
7. `Application` (scheduler, HTTP server, workers, shutdown) and proofs - done.
8. Left: a line that is written in two pieces (`LogBaseline`); two processes that seed at
   once; pure algorithms against reference definitions (`nextBackoffUntil`,
   `splitEntryChunkBatches`, `ParseInterval`).

Theorems left: action properties of `LogBaseline` and `JobManager` from the invariants
above (what one step may do to a stored line, or to a key of the history), the exact
result of the backoff loop, and `LogBaseline` without isolation (what two collections at
once still cannot do).

## 6. Not modelled

- Parsing and rendering: HTTP routing and bodies, the command line and its output, reading
  and validating the configuration, the swagger page. None keeps state; what a
  request or an entry may ask for is the input of the other models.
- SSH and SQL drivers, the text of remote commands and the parsing of their output. The
  executor's effect on a line (trimming) and its failures are in `LogBaseline`.
- Hash functions, encryption of secrets, logging. A hash is taken to be without
  collisions.
- `internal/service/server`'s dashboard and problem lists, which only read.
- A silent host during the SSH handshake, which has no time limit: fairness assumes that
  operations end (see the hazards).
