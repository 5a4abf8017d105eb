------------------------------ MODULE ServerHealth ------------------------------
(***************************************************************************)
(* The record of one monitored server and everybody who writes it: the     *)
(* three cron sweeps, which work from a list read long before, the manual  *)
(* operations of the API, discovery, which writes a whole record to keep   *)
(* the operating system it has found, the health service and the operator. *)
(*                                                                         *)
(* A repository call is one step.  The time of a backoff is what is left   *)
(* of it, so it runs down in the stored record and in every copy alike;    *)
(* none and expired are both 0.  Counters that no decision reads, the last *)
(* error and the operator's connection settings are left out.              *)
(***************************************************************************)
EXTENDS Integers

CONSTANTS
  Sweeps,             \* scheduled operations
  Manuals,            \* operations of the API
  Operators,          \* requests that change the record
  Kind,               \* what each operation does
  FailureThreshold,   \* health.failure_threshold
  BackoffBase,        \* health.backoff_base, in ticks
  BackoffMax,         \* health.backoff_max, in ticks
  MaxFailures,        \* bound: the failure count stops here
  Isolation,          \* workers.per_server_isolation
  ApiManaged          \* managed_by is "api", not "config"

Operations == Sweeps \cup Manuals
Actors == Operations \cup Operators
NoActor == "nobody"

ASSUME ActorsAssumption ==
  /\ Sweeps \cap Manuals = {}
  /\ Operations \cap Operators = {}
  /\ NoActor \notin Actors
  /\ Kind \in [Operations -> {"collection", "integrity", "discovery"}]
(* The configuration gives whole seconds: half of the maximum is exact. *)
ASSUME BackoffAssumption ==
  /\ FailureThreshold \in Nat \ {0}
  /\ BackoffBase \in Nat
  /\ BackoffMax \in Nat /\ BackoffMax % 2 = 0
  /\ MaxFailures \in Nat \ {0}
ASSUME SwitchesAssumption == Isolation \in BOOLEAN /\ ApiManaged \in BOOLEAN

VARIABLES
  record,    \* the stored record of the server
  lock,      \* who holds the key of the server
  pc,        \* next step of each actor
  snap,      \* the copy of the record each actor holds
  outcome    \* what each operation is going to record

vars == <<record, lock, pc, snap, outcome>>

-----------------------------------------------------------------------------
Statuses == {"active", "degraded", "inactive", "error"}
Outcomes == {"none", "success", "failure", "degraded"}
OperationSteps == {"idle", "listed", "connecting", "persisting", "working",
                   "recording", "writing", "unlocking"}
OperatorSteps == {"idle", "updating", "clearing"}

Records == [status : Statuses, failures : 0 .. MaxFailures,
            backoff : 0 .. BackoffMax, osKnown : BOOLEAN]
Deleted == [status |-> "deleted", failures |-> 0, backoff |-> 0, osKnown |-> FALSE]
Exists == record # Deleted
(* A copy of which only the failures are left has no status. *)
Copies == [status : Statuses \cup {"deleted"}, failures : 0 .. MaxFailures,
           backoff : 0 .. BackoffMax, osKnown : BOOLEAN]

(* Create: status active unless the request says inactive. *)
Init ==
  /\ record \in {r \in Records : /\ r.status \in {"active", "inactive"}
                                 /\ r.failures = 0
                                 /\ r.backoff = 0}
  /\ lock = NoActor
  /\ pc = [a \in Actors |-> "idle"]
  /\ snap = [a \in Actors |-> Deleted]
  /\ outcome = [p \in Operations |-> "none"]

-----------------------------------------------------------------------------
(* nextBackoffUntil: the first delay, doubled for every failure beyond the *)
(* threshold.  The loop stops once the next doubling reaches the maximum.  *)

Duration(failures) ==
  LET after[n \in 0 .. failures - FailureThreshold] ==
        IF n = 0 THEN BackoffBase
        ELSE IF after[n - 1] >= BackoffMax \div 2 THEN BackoffMax ELSE after[n - 1] * 2
  IN  after[failures - FailureThreshold]

NextBackoff(failures) ==
  IF BackoffBase = 0 \/ BackoffMax = 0 \/ failures < FailureThreshold
    THEN 0
    ELSE IF Duration(failures) > BackoffMax THEN BackoffMax ELSE Duration(failures)

(* What each call makes of a record r. *)
Success(r) == [status |-> "active", failures |-> 0, backoff |-> 0, osKnown |-> r.osKnown]

Saturated(count) == IF count < MaxFailures THEN count ELSE MaxFailures

(* The stored count is incremented, the backoff is that of the caller's. *)
Failure(r, counted) ==
  [status   |-> "error",
   failures |-> Saturated(r.failures + 1),
   backoff  |-> NextBackoff(counted),
   osKnown  |-> r.osKnown]

Degraded(r) == [status |-> "degraded", failures |-> 0, backoff |-> 0, osKnown |-> r.osKnown]

\* Variation: a server in error keeps its status.
ClearedKeepsStatus(r) == [r EXCEPT !.failures = 0, !.backoff = 0]

Cleared(r) ==
  [status   |-> IF r.status = "error" THEN "active" ELSE r.status,
   failures |-> 0,
   backoff  |-> 0,
   osKnown  |-> r.osKnown]

\* Variation: a request without a status stores none.
UpdatedAsGiven(r, status, osKnown) ==
  [r EXCEPT !.status = status, !.osKnown = osKnown]

(* Update: a request without a status keeps that of the record. *)
Updated(r, status, osKnown) ==
  [r EXCEPT !.status = IF status = "" THEN @ ELSE status, !.osKnown = osKnown]

-----------------------------------------------------------------------------
(* Locks and the order of the last steps.  Manual discovery releases the   *)
(* lock before it records its outcome; all others record first.            *)

RecordsLate(p) == p \in Manuals /\ Kind[p] = "discovery"
AfterWork(p) == IF RecordsLate(p) THEN "unlocking" ELSE "recording"
AfterRecord(p) == IF RecordsLate(p) THEN "idle" ELSE "unlocking"
AfterUnlock(p) == IF RecordsLate(p) THEN "recording" ELSE "idle"

Goto(a, step) == pc' = [pc EXCEPT ![a] = step]

(* What is still read of a copy once the operation has its lock and the    *)
(* operating system is stored: the number of failures.                     *)
FailuresOf(r) ==
  [status |-> "deleted", failures |-> r.failures, backoff |-> 0, osKnown |-> FALSE]

(* The actor is done: what it held is forgotten. *)
Done(p) ==
  /\ Goto(p, "idle")
  /\ snap' = [snap EXCEPT ![p] = Deleted]
  /\ outcome' = [outcome EXCEPT ![p] = "none"]

Fail(p) ==
  /\ Goto(p, AfterWork(p))
  /\ snap' = [snap EXCEPT ![p] = FailuresOf(@)]
  /\ outcome' = [outcome EXCEPT ![p] = "failure"]

\* Variation: the lock is taken whoever holds it.
IgnoreLock == TRUE
LockFree == ~Isolation \/ lock = NoActor

(* A sweep reads the list of servers, a manual operation the one record.   *)
Start(p) ==
  /\ pc[p] = "idle"
  /\ Exists
  /\ Goto(p, "listed")
  /\ snap' = [snap EXCEPT ![p] = record]
  /\ UNCHANGED <<record, lock, outcome>>

(* Only a sweep skips a server, and it judges by its copy. *)
Skips(p) == p \in Sweeps /\ (snap[p].status = "inactive" \/ snap[p].backoff > 0)

Skip(p) ==
  /\ pc[p] = "listed"
  /\ Skips(p) \/ ~LockFree
  /\ Done(p)
  /\ UNCHANGED <<record, lock>>

TakeLock(p) ==
  /\ pc[p] = "listed"
  /\ ~Skips(p)
  /\ LockFree
  /\ lock' = IF Isolation THEN p ELSE lock
  /\ IF Kind[p] = "discovery"
       THEN Goto(p, "connecting") /\ UNCHANGED snap
       ELSE Goto(p, "working") /\ snap' = [snap EXCEPT ![p] = FailuresOf(@)]
  /\ UNCHANGED <<record, outcome>>

(* The log files of the server are listed first: an error counts as a      *)
(* failure for a sweep only; without files there is nothing to record.     *)
\* Variation: the early return does not release the lock.
NoFilesKeepsLock(p) ==
  /\ pc[p] = "working" /\ Kind[p] # "discovery"
  /\ Done(p)
  /\ UNCHANGED <<record, lock>>

NoFiles(p) ==
  /\ pc[p] = "working" /\ Kind[p] # "discovery"
  /\ Goto(p, "unlocking")
  /\ UNCHANGED <<record, lock, snap, outcome>>

ListFilesFails(p) ==
  /\ pc[p] = "working" /\ Kind[p] # "discovery"
  /\ p \in Sweeps
  /\ Fail(p)
  /\ UNCHANGED <<record, lock>>

(* Discovery connects; when the copy's operating system is unknown it     *)
(* finds it out and stores the copy it has, all of it.                     *)
Connect(p) ==
  /\ pc[p] = "connecting"
  /\ IF snap[p].osKnown
       THEN Goto(p, "working") /\ snap' = [snap EXCEPT ![p] = FailuresOf(@)]
       ELSE Goto(p, "persisting") /\ snap' = [snap EXCEPT ![p].osKnown = TRUE]
  /\ UNCHANGED <<record, lock, outcome>>

ConnectFails(p) ==
  /\ pc[p] = "connecting"
  /\ Fail(p)
  /\ UNCHANGED <<record, lock>>

PersistOS(p) ==
  /\ pc[p] = "persisting"
  /\ Exists
  /\ record' = snap[p]
  /\ Goto(p, "working")
  /\ snap' = [snap EXCEPT ![p] = FailuresOf(@)]
  /\ UNCHANGED <<lock, outcome>>

PersistOSFails(p) ==
  /\ pc[p] = "persisting"
  /\ Fail(p)
  /\ UNCHANGED <<record, lock>>

(* The remote work, the listing of the files included.  Only operations on *)
(* log files can end half done.                                            *)
Work(p) ==
  /\ pc[p] = "working"
  /\ \E result \in {"success", "failure", "degraded"} :
       /\ result = "degraded" => Kind[p] # "discovery"
       /\ outcome' = [outcome EXCEPT ![p] = result]
  /\ Goto(p, AfterWork(p))
  /\ UNCHANGED <<record, lock, snap>>

-----------------------------------------------------------------------------
(* The health service.  Its errors are ignored by every caller.            *)

\* Variation: a record that is missing is created.
Upsert(r) == r
(* UpdateServer: a record that was deleted is not found. *)
Stored(r) == IF Exists THEN r ELSE Deleted

Recorded(p) ==
  /\ pc' = [pc EXCEPT ![p] = AfterRecord(p)]
  /\ snap' = [snap EXCEPT ![p] = Deleted]
  /\ outcome' = [outcome EXCEPT ![p] = "none"]

RecordSuccess(p) ==
  /\ pc[p] = "recording" /\ outcome[p] = "success"
  /\ record' = Stored(Success(record))
  /\ Recorded(p)
  /\ UNCHANGED lock

RecordFailure(p) ==
  /\ pc[p] = "recording" /\ outcome[p] = "failure"
  /\ record' = Stored(Failure(record, snap[p].failures + 1))
  /\ Recorded(p)
  /\ UNCHANGED lock

(* RecordDegraded: read, change and, in a step of its own, write all. *)
RecordDegraded(p) ==
  /\ pc[p] = "recording" /\ outcome[p] = "degraded"
  /\ Exists
  /\ snap' = [snap EXCEPT ![p] = Degraded(record)]
  /\ Goto(p, "writing")
  /\ UNCHANGED <<record, lock, outcome>>

WriteDegraded(p) ==
  /\ pc[p] = "writing"
  /\ record' = Stored(snap[p])
  /\ Recorded(p)
  /\ UNCHANGED lock

(* The repository fails, or the server is gone. *)
RecordFails(p) ==
  /\ pc[p] \in {"recording", "writing"}
  /\ Recorded(p)
  /\ UNCHANGED <<record, lock>>

Unlock(p) ==
  /\ pc[p] = "unlocking"
  /\ lock' = IF Isolation THEN NoActor ELSE lock
  /\ IF AfterUnlock(p) = "idle"
       THEN Done(p)
       ELSE Goto(p, AfterUnlock(p)) /\ UNCHANGED <<snap, outcome>>
  /\ UNCHANGED record

Continue(p) ==
  \/ Skip(p) \/ TakeLock(p)
  \/ NoFiles(p) \/ ListFilesFails(p)
  \/ Connect(p) \/ ConnectFails(p) \/ PersistOS(p) \/ PersistOSFails(p)
  \/ Work(p)
  \/ RecordSuccess(p) \/ RecordFailure(p) \/ RecordDegraded(p) \/ WriteDegraded(p)
  \/ RecordFails(p)
  \/ Unlock(p)

-----------------------------------------------------------------------------
(* The operator.  Update and Retry read the record and write all of it     *)
(* back; servers of the configuration can only be retried.                 *)

Update(o, status, osKnown) ==
  /\ pc[o] = "idle"
  /\ ApiManaged
  /\ Exists
  /\ snap' = [snap EXCEPT ![o] = Updated(record, status, osKnown)]
  /\ Goto(o, "updating")
  /\ UNCHANGED <<record, lock, outcome>>

Retry(o) ==
  /\ pc[o] = "idle"
  /\ Exists
  /\ snap' = [snap EXCEPT ![o] = Cleared(record)]
  /\ Goto(o, "clearing")
  /\ UNCHANGED <<record, lock, outcome>>

(* UpdateServer, or its failure. *)
Write(o) ==
  /\ pc[o] \in {"updating", "clearing"}
  /\ record' \in {record, Stored(snap[o])}
  /\ snap' = [snap EXCEPT ![o] = Deleted]
  /\ Goto(o, "idle")
  /\ UNCHANGED <<lock, outcome>>

Delete(o) ==
  /\ pc[o] = "idle"
  /\ ApiManaged
  /\ Exists
  /\ record' = Deleted
  /\ UNCHANGED <<lock, pc, snap, outcome>>

OperatorStep(o) ==
  \/ \E status \in {"", "active", "inactive"}, osKnown \in BOOLEAN : Update(o, status, osKnown)
  \/ Retry(o)
  \/ Write(o)
  \/ Delete(o)

-----------------------------------------------------------------------------
Later(r) == [r EXCEPT !.backoff = IF @ > 0 THEN @ - 1 ELSE @]

Tick ==
  /\ record.backoff > 0 \/ \E a \in Actors : snap[a].backoff > 0
  /\ record' = Later(record)
  /\ snap' = [a \in Actors |-> Later(snap[a])]
  /\ UNCHANGED <<lock, pc, outcome>>

Next ==
  \/ \E p \in Operations : Start(p) \/ Continue(p)
  \/ \E o \in Operators : OperatorStep(o)
  \/ Tick

Spec == Init /\ [][Next]_vars

(* The scheduler starts every sweep again and again; an operation or an    *)
(* update that has begun goes on; time passes.  Nobody has to start a      *)
(* manual operation.                                                       *)
Fairness ==
  /\ \A p \in Sweeps : WF_vars(Start(p))
  /\ \A p \in Operations : WF_vars(Continue(p))
  /\ \A o \in Operators : WF_vars(Write(o))
  /\ WF_vars(Tick)

FairSpec == Spec /\ Fairness

-----------------------------------------------------------------------------
(* Every variable has the values the code can give it. *)
TypeOK ==
  /\ record \in Records \cup {Deleted}
  /\ lock \in Operations \cup {NoActor}
  /\ pc \in [Actors -> OperationSteps \cup OperatorSteps]
  /\ snap \in [Actors -> Copies]
  /\ outcome \in [Operations -> Outcomes]

(* A record is of one piece: a server in error or in backoff has failed    *)
(* since its last success, a degraded one has not.                         *)
OfOnePiece(r) ==
  /\ r.status = "error" => r.failures > 0
  /\ r.backoff > 0 => r.failures >= 1
  /\ r.status = "degraded" => r.failures = 0

(* The stored record stays of one piece although sweeps, manual operations *)
(* and operators write whole copies that are out of date and the health    *)
(* service changes single fields (health/service.go, memory/servers.go).   *)
RecordOfOnePiece == OfOnePiece(record)

(* With isolation, at most one operation works on the server at a time     *)
(* (TryLock in crons/*/runner.go and in the services), whatever early      *)
(* return the others take and although manual discovery unlocks early.     *)
AtWork == {"connecting", "persisting", "working"}
OneOperationAtATime ==
  Isolation => \A p, q \in Operations :
                 pc[p] \in AtWork /\ pc[q] \in AtWork => p = q

(* A server the operator has deleted does not come back through a copy     *)
(* somebody still holds (UpdateServer and Record* of both repositories).   *)
DeletedStaysDeleted == [][record = Deleted => record' = Deleted]_vars

(* A server that is neither deleted nor inactive is attended to again and  *)
(* again: no backoff is for ever and no early return keeps the lock.       *)
AttendedAgain ==
  []<>(\/ ~Exists
       \/ record.status = "inactive"
       \/ \E p \in Operations : pc[p] \notin {"idle", "listed"})
=============================================================================
