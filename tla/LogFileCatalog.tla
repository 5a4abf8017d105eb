----------------------------- MODULE LogFileCatalog -----------------------------
(***************************************************************************)
(* The log files of one server: discovery finds them on the remote host    *)
(* and reconciles their records, collections write the records of the      *)
(* files they have read, an operator may delete the server at any time.    *)
(*                                                                         *)
(* A record is one row with fields of two owners, the active flag of the   *)
(* discovery and the identity of the collection, and both write the whole  *)
(* row from a copy they have read earlier.  One path of the server has at  *)
(* most one record (MemoryStorage), so records are indexed by paths here.  *)
(***************************************************************************)
EXTENDS Integers, FiniteSets

CONSTANTS
  Paths,            \* paths a log file may have on the host
  Discoverers,      \* discovery sweeps and manual discoveries
  Collectors,       \* collection sweeps and manual collections
  Manual,           \* those an operator has started
  FileWorkers,      \* max_log_file_workers_per_host
  Isolation,        \* per_server_isolation
  NoRow,            \* there is no record
  Nobody,           \* the server's lock is free
  MaxGeneration,    \* bound: rotations of a file
  MaxChanges,       \* bound: files that appear or disappear
  MaxFaults         \* bound: failed calls of a discovery

VARIABLES
  present,      \* paths on the remote host
  generation,   \* identity of the file at a path
  exists,       \* the server's record is stored
  rows,         \* records of its log files
  lock,         \* holder of the key server:<id>
  pc,           \* next call of each operation
  task,         \* its local variables
  changes, faults

vars == <<present, generation, exists, rows, lock, pc, task, changes, faults>>

Operations == Discoverers \cup Collectors

ASSUME OperationsAssumption == Discoverers \cap Collectors = {} /\ Nobody \notin Operations
ASSUME ManualAssumption == Manual \subseteq Operations
ASSUME FileWorkersAssumption == FileWorkers \in Nat \ {0}
ASSUME IsolationAssumption == Isolation \in BOOLEAN
ASSUME BoundsAssumption ==
  MaxGeneration \in Nat \ {0} /\ MaxChanges \in Nat /\ MaxFaults \in Nat

-----------------------------------------------------------------------------
Generations == 1..MaxGeneration
NoIdentity == 0
Rows == [active : BOOLEAN, identity : Generations \cup {NoIdentity}]
ASSUME NoRowAssumption == NoRow \notin Rows

NewRow == [active |-> TRUE, identity |-> NoIdentity]

Recorded(table) == {p \in Paths : table[p] # NoRow}
Active(table) == {p \in Recorded(table) : table[p].active}

DiscoverySteps == {"find", "list", "sync", "drop"}
CollectionSteps == {"files", "work"}
Steps == {"idle", "listed", "done"} \cup DiscoverySteps \cup CollectionSteps

(* found: what the host has; known: copies of the records; todo: paths     *)
(* still to be handled; busy: paths a file worker is at.                   *)
NoRows == [p \in Paths |-> NoRow]
IdleTask == [found |-> {}, known |-> NoRows, todo |-> {}, busy |-> {}]
Tasks == [found : SUBSET Paths, known : [Paths -> Rows \cup {NoRow}],
          todo : SUBSET Paths, busy : SUBSET Paths]

Init ==
  /\ present \in SUBSET Paths
  /\ generation = [p \in Paths |-> 1]
  /\ exists = TRUE
  /\ rows = NoRows
  /\ lock = Nobody
  /\ pc = [o \in Operations |-> "idle"]
  /\ task = [o \in Operations |-> IdleTask]
  /\ changes = 0 /\ faults = 0

remote == <<present, generation, changes>>
stored == <<exists, rows>>

-----------------------------------------------------------------------------
(* The remote host and the operator                                        *)

Appear(p) ==
  /\ p \notin present /\ changes < MaxChanges
  /\ present' = present \cup {p}
  /\ changes' = changes + 1
  /\ UNCHANGED <<generation, stored, lock, pc, task, faults>>

Disappear(p) ==
  /\ p \in present /\ changes < MaxChanges
  /\ present' = present \ {p}
  /\ changes' = changes + 1
  /\ UNCHANGED <<generation, stored, lock, pc, task, faults>>

Rotate(p) ==
  /\ p \in present /\ generation[p] < MaxGeneration
  /\ generation' = [generation EXCEPT ![p] = @ + 1]
  /\ UNCHANGED <<present, changes, stored, lock, pc, task, faults>>

(* Service.Delete: no lock, the records of the files go with the server.   *)
DeleteServer ==
  /\ exists
  /\ exists' = FALSE
  /\ rows' = NoRows
  /\ UNCHANGED <<remote, lock, pc, task, faults>>

-----------------------------------------------------------------------------
(* Every operation                                                         *)

\* Variation: the lock does not keep anybody out.
IgnoreLock == TRUE
LockFree == Isolation => lock = Nobody

Goto(o, step) == pc' = [pc EXCEPT ![o] = step]
Assign(o, local) == task' = [task EXCEPT ![o] = local]

(* ListServers of a sweep, GetServerByID of a manual operation. *)
Start(o) ==
  /\ pc[o] = "idle" /\ exists
  /\ Goto(o, "listed")
  /\ UNCHANGED <<remote, stored, lock, task, faults>>

(* A sweep skips a server that is busy, inactive or in backoff, a manual   *)
(* operation one that is busy.                                             *)
Skip(o) ==
  /\ pc[o] = "listed" /\ (o \in Manual => ~LockFree)
  /\ Goto(o, "idle")
  /\ UNCHANGED <<remote, stored, lock, task, faults>>

TakeLock(o) ==
  /\ pc[o] = "listed" /\ LockFree
  /\ lock' = IF Isolation THEN o ELSE lock
  /\ Goto(o, IF o \in Discoverers THEN "find" ELSE "files")
  /\ UNCHANGED <<remote, stored, task, faults>>

(* The operation returns, its deferred unlock with it. *)
Return(o) ==
  /\ lock' = IF Isolation THEN Nobody ELSE lock
  /\ Goto(o, "idle")
  /\ Assign(o, IdleTask)

Unlock(o) ==
  /\ pc[o] = "done"
  /\ Return(o)
  /\ UNCHANGED <<remote, stored, faults>>

-----------------------------------------------------------------------------
(* Discovery                                                               *)

Find(d) ==
  /\ pc[d] = "find"
  /\ Assign(d, [task[d] EXCEPT !.found = present])
  /\ Goto(d, "list")
  /\ UNCHANGED <<remote, stored, lock, faults>>

ListExisting(d) ==
  /\ pc[d] = "list"
  /\ Assign(d, [task[d] EXCEPT !.known = rows, !.todo = task[d].found])
  /\ Goto(d, "sync")
  /\ UNCHANGED <<remote, stored, lock, faults>>

\* Variation: UpdateLogFile stores the row whether or not there is one.
Upsert(p, row) == rows' = [rows EXCEPT ![p] = row]
UpdateLogFile(p, row) == rows[p] # NoRow /\ rows' = [rows EXCEPT ![p] = row]
CreateLogFile(p, row) == exists /\ rows[p] = NoRow /\ rows' = [rows EXCEPT ![p] = row]

SetActive(row, flag) == [row EXCEPT !.active = flag]
Handled(o, p) == Assign(o, [task[o] EXCEPT !.todo = @ \ {p}])

(* A path that was found: left alone, active again, or new. *)

\* Variation: also an inactive or a new path may be left alone.
KeepAny(d, p) == UNCHANGED rows
KeepFound(d, p) ==
  /\ p \in Active(task[d].known)
  /\ UNCHANGED rows
Reactivate(d, p) ==
  /\ p \in Recorded(task[d].known) \ Active(task[d].known)
  /\ UpdateLogFile(p, SetActive(task[d].known[p], TRUE))
Create(d, p) ==
  /\ p \notin Recorded(task[d].known)
  /\ CreateLogFile(p, NewRow)

SyncFound(d, p) ==
  /\ pc[d] = "sync" /\ p \in task[d].todo
  /\ KeepFound(d, p) \/ Reactivate(d, p) \/ Create(d, p)
  /\ Handled(d, p)
  /\ UNCHANGED <<remote, exists, lock, pc, faults>>

\* Variation: only what was found is reconciled.
NothingGone(d) == {}
Gone(d) == Active(task[d].known) \ task[d].found

FoundSynced(d) ==
  /\ pc[d] = "sync" /\ task[d].todo = {}
  /\ Assign(d, [task[d] EXCEPT !.todo = Gone(d)])
  /\ Goto(d, "drop")
  /\ UNCHANGED <<remote, stored, lock, faults>>

Deactivate(d, p) ==
  /\ pc[d] = "drop" /\ p \in task[d].todo
  /\ UpdateLogFile(p, SetActive(task[d].known[p], FALSE))
  /\ Handled(d, p)
  /\ UNCHANGED <<remote, exists, lock, pc, faults>>

GoneSynced(d) ==
  /\ pc[d] = "drop" /\ task[d].todo = {}
  /\ Goto(d, "done")
  /\ UNCHANGED <<remote, stored, lock, task, faults>>

(* A write meets a row that is there or gone against what the copies say:  *)
(* the first such error ends Sync.                                         *)
Conflicts(d, p) ==
  \/ pc[d] = "sync" /\ p \notin Recorded(task[d].known) /\ (rows[p] # NoRow \/ ~exists)
  \/ pc[d] = "sync" /\ p \in Recorded(task[d].known) \ Active(task[d].known) /\ rows[p] = NoRow
  \/ pc[d] = "drop" /\ rows[p] = NoRow
SyncConflicts(d) ==
  /\ \E p \in task[d].todo : Conflicts(d, p)
  /\ Return(d)
  /\ UNCHANGED <<remote, stored, faults>>

(* A command or a call fails, or the operation is canceled. *)
DiscoveryFails(d) ==
  /\ pc[d] \in DiscoverySteps /\ faults < MaxFaults
  /\ faults' = faults + 1
  /\ Return(d)
  /\ UNCHANGED <<remote, stored>>

Discovery(d) ==
  \/ Start(d) \/ Skip(d) \/ TakeLock(d) \/ Unlock(d)
  \/ Find(d) \/ ListExisting(d) \/ FoundSynced(d) \/ GoneSynced(d)
  \/ \E p \in Paths : SyncFound(d, p) \/ Deactivate(d, p)
  \/ SyncConflicts(d) \/ DiscoveryFails(d)

-----------------------------------------------------------------------------
(* Collection                                                              *)

(* A sweep takes the active files, an operator all of them or one. *)
Chosen(c) ==
  IF c \in Manual THEN {Recorded(rows)} \cup {{p} : p \in Recorded(rows)}
                  ELSE {Active(rows)}

CopyOf(files) == [p \in Paths |-> IF p \in files THEN rows[p] ELSE NoRow]

ListFiles(c) ==
  /\ pc[c] = "files"
  /\ \E files \in Chosen(c) :
       /\ Assign(c, [task[c] EXCEPT !.todo = files, !.known = CopyOf(files)])
       /\ Goto(c, IF files = {} THEN "done" ELSE "work")
  /\ UNCHANGED <<remote, stored, lock, faults>>

ListFilesFails(c) ==
  /\ pc[c] = "files"
  /\ Return(c)
  /\ UNCHANGED <<remote, stored, faults>>

(* A manual collection takes one file after the other. *)
Width(c) == IF c \in Manual THEN 1 ELSE FileWorkers

\* Variation: there is room for one more.
OneMoreFree(c) == Cardinality(task[c].busy) <= Width(c)
WorkerFree(c) == Cardinality(task[c].busy) < Width(c)

(* CollectLogFile up to the identity, which stays the old one if the       *)
(* command fails or the file is gone.                                      *)
Identities(c, p) == {task[c].known[p].identity} \cup {generation[q] : q \in present \cap {p}}

StartFile(c, p) ==
  /\ pc[c] = "work" /\ p \in task[c].todo /\ WorkerFree(c)
  /\ \E identity \in Identities(c, p) :
       Assign(c, [task[c] EXCEPT !.todo = @ \ {p}, !.busy = @ \cup {p},
                                 !.known = [@ EXCEPT ![p].identity = identity]])
  /\ UNCHANGED <<remote, stored, lock, pc, faults>>

FileDone(c, p) ==
  Assign(c, [task[c] EXCEPT !.busy = @ \ {p}, !.known = [@ EXCEPT ![p] = NoRow]])

Record(c, p) ==
  /\ pc[c] = "work" /\ p \in task[c].busy
  /\ UpdateLogFile(p, task[c].known[p])
  /\ FileDone(c, p)
  /\ UNCHANGED <<remote, exists, lock, pc, faults>>

(* Also when its record is gone. *)
FileFails(c, p) ==
  /\ pc[c] = "work" /\ p \in task[c].busy
  /\ FileDone(c, p)
  /\ UNCHANGED <<remote, stored, lock, pc, faults>>

(* A canceled sweep starts no further file. *)
Cancel(c) ==
  /\ pc[c] = "work" /\ c \notin Manual /\ task[c].todo # {}
  /\ Assign(c, [task[c] EXCEPT !.todo = {}])
  /\ UNCHANGED <<remote, stored, lock, pc, faults>>

FilesDone(c) ==
  /\ pc[c] = "work" /\ task[c].todo = {} /\ task[c].busy = {}
  /\ Goto(c, "done")
  /\ UNCHANGED <<remote, stored, lock, task, faults>>

Collection(c) ==
  \/ Start(c) \/ Skip(c) \/ TakeLock(c) \/ Unlock(c)
  \/ ListFiles(c) \/ ListFilesFails(c) \/ Cancel(c) \/ FilesDone(c)
  \/ \E p \in Paths : StartFile(c, p) \/ Record(c, p) \/ FileFails(c, p)

Next ==
  \/ \E p \in Paths : Appear(p) \/ Disappear(p) \/ Rotate(p)
  \/ DeleteServer
  \/ \E d \in Discoverers : Discovery(d)
  \/ \E c \in Collectors : Collection(c)

Spec == Init /\ [][Next]_vars

(* Goroutines go on; who gets the lock and how often is left open. *)
Fairness ==
  /\ \A d \in Discoverers : WF_vars(Discovery(d))
  /\ \A c \in Collectors : WF_vars(pc[c] # "idle" /\ Collection(c))
FairSpec == Spec /\ Fairness

-----------------------------------------------------------------------------
(* Variables keep their types; no operation is at more files at once than  *)
(* the options allow (collection/runner.go, runLogFileWorkers).            *)
TypeOK ==
  /\ present \in SUBSET Paths
  /\ generation \in [Paths -> Generations]
  /\ exists \in BOOLEAN
  /\ rows \in [Paths -> Rows \cup {NoRow}]
  /\ lock \in Operations \cup {Nobody}
  /\ pc \in [Operations -> Steps]
  /\ task \in [Operations -> Tasks]
  /\ \A o \in Operations : Cardinality(task[o].busy) <= Width(o)
  /\ changes \in 0..MaxChanges /\ faults \in 0..MaxFaults

(* A Sync that returns without an error leaves exactly the files it found  *)
(* active, whatever earlier syncs have left half done (discovery/          *)
(* service.go, Sync); unless the server has been deleted under it.         *)
SyncExact ==
  Isolation =>
    \A d \in Discoverers : pc[d] = "done" /\ exists => Active(rows) = task[d].found

(* Neither owner of a record undoes what the other has written: the        *)
(* identity never goes back to an older file, and only a discovery changes *)
(* the active flag, although each writes whole rows of old copies.         *)
Discovering == \E d \in Discoverers : pc[d] \in {"sync", "drop"}
NothingUndone ==
  [][Isolation => \A p \in Recorded(rows) : rows'[p] # NoRow =>
       /\ rows'[p].identity >= rows[p].identity
       /\ rows'[p].active # rows[p].active => Discovering]_vars

(* No operation brings a record of a deleted server back, although the     *)
(* deletion waits for none of them.                                        *)
DeletedForGood == ~exists => Recorded(rows) = {}

(* If discoveries get to the host again and again, the active records are  *)
(* in the end the files of the host, once it and the calls have settled.   *)
Catalogued ==
  (\E d \in Discoverers : []<>(pc[d] = "find"))
    => <>[](~exists \/ Active(rows) = present)
=============================================================================
