------------------------------ MODULE JobManager ------------------------------
(***************************************************************************)
(* The in-memory job manager of the HTTP API (internal/jobs): handlers     *)
(* submit jobs to a bounded queue, workers run them, a bounded history     *)
(* answers polls, idempotency keys and fingerprints find the job that an   *)
(* earlier request made.                                                   *)
(*                                                                         *)
(* A critical section of Manager.mu is one step; a worker's steps between  *)
(* its critical sections and the two halves of Shutdown interleave freely. *)
(* The initial state is the one Start leaves.  Job identifiers are drawn   *)
(* in the order of acceptance, which is the order Manager.order keeps.     *)
(***************************************************************************)
EXTENDS Integers, Sequences, FiniteSets

CONSTANTS
  Workers,         \* worker goroutines
  QueueSize,       \* capacity of the queue
  HistoryLimit,    \* jobs.history_limit
  Keys,            \* X-Idempotency-Key values
  NoKey,           \* "no such header"
  Fingerprints,    \* what a request works on
  NoFingerprint,   \* "no such job"
  MaxJobs          \* bound: jobs accepted

ASSUME SizesAssumption ==
  /\ QueueSize \in Nat \ {0}
  /\ HistoryLimit \in Nat \ {0}
  /\ MaxJobs \in Nat
  /\ Workers # {} /\ IsFiniteSet(Workers)
ASSUME NamesAssumption ==
  /\ NoKey \notin Keys
  /\ NoFingerprint \notin Fingerprints

VARIABLES
  jobs,                 \* the history: every job by identifier
  nextId,               \* the next identifier
  queue,                \* the channel of queued tasks
  idempotencyKeys,      \* the job each key stands for
  activeFingerprints,   \* the active job of each fingerprint
  shuttingDown,         \* no more submissions; the queue is closed
  canceled,             \* the workers' context is canceled
  shutdown,             \* progress of Shutdown
  pc,                   \* next step of each worker
  current               \* the task each worker holds

maps == <<idempotencyKeys, activeFingerprints>>
closing == <<shuttingDown, canceled, shutdown>>
vars == <<jobs, nextId, queue, maps, closing, pc, current>>

-----------------------------------------------------------------------------
JobId == 1 .. MaxJobs
NoId == 0

Active == {"queued", "running"}
Terminal == {"succeeded", "failed", "canceled"}   \* isTerminalJobStatus

NoJob == [status |-> "none", key |-> NoKey, fingerprint |-> NoFingerprint]

InHistory(id) == id # NoId /\ jobs[id].status # "none"
History == {id \in JobId : InHistory(id)}

\* Variation: only a job that runs already is joined.
FingerprintRuns(fingerprint) ==
  /\ InHistory(activeFingerprints[fingerprint])
  /\ jobs[activeFingerprints[fingerprint]].status = "running"

KeyHit(key) == key # NoKey /\ InHistory(idempotencyKeys[key])
FingerprintHit(fingerprint) == InHistory(activeFingerprints[fingerprint])

WithKey(key, id) ==
  IF key = NoKey THEN idempotencyKeys ELSE [idempotencyKeys EXCEPT ![key] = id]

-----------------------------------------------------------------------------
(* Submit: a request whose key stands for a job of the history changes     *)
(* nothing, and neither does one that comes after Shutdown.                *)

\* Variation: the idempotency keys are not looked up.
NewRequestByWork(key) == ~shuttingDown
\* Variation: a request is not refused while the manager shuts down.
NewRequestAlways(key) == ~KeyHit(key)

NewRequest(key) == ~shuttingDown /\ ~KeyHit(key)

(* The same work is active: the key now stands for that job. *)
JoinActive(key, fingerprint) ==
  /\ NewRequest(key)
  /\ FingerprintHit(fingerprint)
  /\ idempotencyKeys' = WithKey(key, activeFingerprints[fingerprint])
  /\ UNCHANGED <<jobs, nextId, queue, activeFingerprints, closing, pc, current>>

\* Variation: one task more than the queue holds.
HasRoomForOneMore == Len(queue) <= QueueSize
HasRoom == Len(queue) < QueueSize

Enqueue(key, fingerprint) ==
  /\ NewRequest(key)
  /\ ~FingerprintHit(fingerprint)
  /\ HasRoom
  /\ nextId <= MaxJobs
  /\ queue' = Append(queue, nextId)
  /\ jobs' = [jobs EXCEPT ![nextId] = [status      |-> "queued",
                                       key         |-> key,
                                       fingerprint |-> fingerprint]]
  /\ nextId' = nextId + 1
  /\ idempotencyKeys' = WithKey(key, nextId)
  /\ activeFingerprints' = [activeFingerprints EXCEPT ![fingerprint] = nextId]
  /\ UNCHANGED <<closing, pc, current>>

(* ErrQueueFull: what is left is the removal of stale map entries. *)
RefuseFull(key, fingerprint) ==
  /\ NewRequest(key)
  /\ ~FingerprintHit(fingerprint)
  /\ ~HasRoom
  /\ idempotencyKeys' = WithKey(key, NoId)
  /\ activeFingerprints' = [activeFingerprints EXCEPT ![fingerprint] = NoId]
  /\ UNCHANGED <<jobs, nextId, queue, closing, pc, current>>

Submit(key, fingerprint) ==
  \/ JoinActive(key, fingerprint)
  \/ Enqueue(key, fingerprint)
  \/ RefuseFull(key, fingerprint)

-----------------------------------------------------------------------------
(* The history                                                             *)

\* Variation: the oldest jobs are trimmed whether they have ended or not.
OldestOfAll(ended, excess) ==
  {id \in History : Cardinality({j \in History : j < id}) < excess}
\* Variation: one job too many is kept.
OldestButOne(ended, excess) ==
  {id \in ended : Cardinality({j \in ended : j < id}) < excess - 1}

Oldest(ended, excess) ==
  {id \in ended : Cardinality({j \in ended : j < id}) < excess}

(* trimHistoryLocked, called when id has just ended: while the history is  *)
(* too long, the first job of the order that has ended is deleted.         *)
TrimmedWith(id) ==
  Oldest({j \in History : j = id \/ jobs[j].status \in Terminal},
         Cardinality(History) - HistoryLimit)

Released(id) ==
  [activeFingerprints EXCEPT
     ![jobs[id].fingerprint] = IF @ = id THEN NoId ELSE @]

(* Only a trimmed job's own key is deleted. *)
KeysWithout(trimmed) ==
  [key \in Keys |->
     IF /\ idempotencyKeys[key] \in trimmed
        /\ jobs[idempotencyKeys[key]].key = key
     THEN NoId ELSE idempotencyKeys[key]]

(* finishSucceeded, finishFailed, finishCanceled *)
FinishJob(id, outcome) ==
  IF ~InHistory(id)
  THEN UNCHANGED <<jobs, maps>>
  ELSE LET trimmed == TrimmedWith(id) IN
       /\ jobs' = [j \in JobId |->
                    IF j \in trimmed THEN NoJob
                    ELSE IF j = id THEN [jobs[j] EXCEPT !.status = outcome]
                    ELSE jobs[j]]
       /\ activeFingerprints' = Released(id)
       /\ idempotencyKeys' = KeysWithout(trimmed)

-----------------------------------------------------------------------------
(* Workers                                                                 *)

Receive(w) ==
  /\ pc[w] = "receive"
  /\ queue # <<>>
  /\ current' = [current EXCEPT ![w] = Head(queue)]
  /\ queue' = Tail(queue)
  /\ pc' = [pc EXCEPT ![w] = "received"]
  /\ UNCHANGED <<jobs, nextId, maps, closing>>

\* Variation: a worker returns at once when the context is canceled.
ExitOnCancel(w) ==
  /\ pc[w] = "receive"
  /\ canceled \/ (shuttingDown /\ queue = <<>>)
  /\ pc' = [pc EXCEPT ![w] = "exited"]
  /\ UNCHANGED <<jobs, nextId, queue, maps, closing, current>>

(* The range over a closed channel ends when the channel is empty. *)
Exit(w) ==
  /\ pc[w] = "receive"
  /\ shuttingDown /\ queue = <<>>
  /\ pc' = [pc EXCEPT ![w] = "exited"]
  /\ UNCHANGED <<jobs, nextId, queue, maps, closing, current>>

Admit(w) ==
  /\ pc[w] = "received"
  /\ ~canceled
  /\ pc' = [pc EXCEPT ![w] = "starting"]
  /\ UNCHANGED <<jobs, nextId, queue, maps, closing, current>>

StartRunning(w) ==
  /\ pc[w] = "starting"
  /\ IF InHistory(current[w])
     THEN jobs' = [jobs EXCEPT ![current[w]].status = "running"]
     ELSE UNCHANGED jobs
  /\ pc' = [pc EXCEPT ![w] = "running"]
  /\ UNCHANGED <<nextId, queue, maps, closing, current>>

Finish(w, outcome) ==
  /\ FinishJob(current[w], outcome)
  /\ pc' = [pc EXCEPT ![w] = "receive"]
  /\ current' = [current EXCEPT ![w] = NoId]
  /\ UNCHANGED <<nextId, queue, closing>>

SkipCanceled(w) == pc[w] = "received" /\ canceled /\ Finish(w, "canceled")

(* A run reports context.Canceled only when the context is canceled, and   *)
(* may still succeed or fail then.                                         *)
RunReturns(w) ==
  /\ pc[w] = "running"
  /\ \E outcome \in Terminal :
       /\ outcome = "canceled" => canceled
       /\ Finish(w, outcome)

Work(w) ==
  \/ Receive(w) \/ Exit(w) \/ Admit(w) \/ SkipCanceled(w)
  \/ StartRunning(w) \/ RunReturns(w)

-----------------------------------------------------------------------------
(* Shutdown                                                                *)

CloseQueue ==
  /\ shutdown = "none"
  /\ shuttingDown' = TRUE
  /\ shutdown' = "closed"
  /\ UNCHANGED <<jobs, nextId, queue, maps, canceled, pc, current>>

CancelWorkers ==
  /\ shutdown = "closed"
  /\ canceled' = TRUE
  /\ shutdown' = "waiting"
  /\ UNCHANGED <<jobs, nextId, queue, maps, shuttingDown, pc, current>>

AllExited == \A w \in Workers : pc[w] = "exited"

(* Shutdown returns when the workers are gone, or when its context ends. *)
Return ==
  /\ shutdown = "waiting"
  /\ shutdown' \in {"timedOut"} \cup (IF AllExited THEN {"returned"} ELSE {})
  /\ UNCHANGED <<jobs, nextId, queue, maps, shuttingDown, canceled, pc, current>>

(* The parent context ends first on a signal. *)
CancelParent ==
  /\ ~canceled
  /\ canceled' = TRUE
  /\ UNCHANGED <<jobs, nextId, queue, maps, shuttingDown, shutdown, pc, current>>

-----------------------------------------------------------------------------
Init ==
  /\ jobs = [id \in JobId |-> NoJob]
  /\ nextId = 1
  /\ queue = <<>>
  /\ idempotencyKeys = [key \in Keys |-> NoId]
  /\ activeFingerprints = [fingerprint \in Fingerprints |-> NoId]
  /\ shuttingDown = FALSE
  /\ canceled = FALSE
  /\ shutdown = "none"
  /\ pc = [w \in Workers |-> "receive"]
  /\ current = [w \in Workers |-> NoId]

Next ==
  \/ \E key \in Keys \cup {NoKey}, fingerprint \in Fingerprints :
       Submit(key, fingerprint)
  \/ \E w \in Workers : Work(w)
  \/ CloseQueue \/ CancelWorkers \/ Return \/ CancelParent

Spec == Init /\ [][Next]_vars

(* A worker goroutine runs and the operations it runs return (every remote *)
(* command has a timeout); a Shutdown that has begun goes on.              *)
Fairness ==
  /\ \A w \in Workers : WF_vars(Work(w))
  /\ WF_vars(CancelWorkers)

FairSpec == Spec /\ Fairness

-----------------------------------------------------------------------------
(* Properties                                                              *)

Job == [status : {"none"} \cup Active \cup Terminal,
        key : Keys \cup {NoKey},
        fingerprint : Fingerprints \cup {NoFingerprint}]

(* Every variable has its type, and the queue never overflows. *)
TypeOK ==
  /\ jobs \in [JobId -> Job]
  /\ nextId \in 1 .. MaxJobs + 1
  /\ queue \in Seq(JobId)
  /\ Len(queue) <= QueueSize
  /\ idempotencyKeys \in [Keys -> JobId \cup {NoId}]
  /\ activeFingerprints \in [Fingerprints -> JobId \cup {NoId}]
  /\ shuttingDown \in BOOLEAN
  /\ canceled \in BOOLEAN
  /\ shutdown \in {"none", "closed", "waiting", "returned", "timedOut"}
  /\ pc \in [Workers -> {"receive", "received", "starting", "running", "exited"}]
  /\ current \in [Workers -> JobId \cup {NoId}]

Busy == {"received", "starting", "running"}
Queued == {queue[i] : i \in 1 .. Len(queue)}
Held(states) == {current[w] : w \in {v \in Workers : pc[v] \in states}}

(* No job is lost or run twice: the queued jobs of the history are those   *)
(* in the queue and those a worker has taken and not started, the running  *)
(* ones those that workers run, and no job is in two of these places.      *)
JobsAccountedFor ==
  /\ {id \in JobId : jobs[id].status = "queued"} =
       Queued \cup Held({"received", "starting"})
  /\ {id \in JobId : jobs[id].status = "running"} = Held({"running"})
  /\ \A i, j \in 1 .. Len(queue) : queue[i] = queue[j] => i = j
  /\ \A w \in Workers : pc[w] \in Busy =>
       /\ current[w] \notin Queued
       /\ \A v \in Workers : pc[v] \in Busy /\ current[v] = current[w] => v = w

(* Two requests for the same work never run as two jobs side by side.      *)
OneActivePerFingerprint ==
  \A i, j \in JobId :
    (/\ jobs[i].status \in Active
     /\ jobs[j].status \in Active
     /\ jobs[i].fingerprint = jobs[j].fingerprint) => i = j

(* However many jobs are submitted between two ends, no more than          *)
(* HistoryLimit ended ones are kept, and active ones are as many as the    *)
(* queue and the workers hold.                                             *)
HistoryBounded ==
  /\ Cardinality({id \in JobId : jobs[id].status \in Terminal}) <= HistoryLimit
  /\ Cardinality(History) <= HistoryLimit + QueueSize + Cardinality(Workers)

(* While its job is in the history, a key stands for that job: a repeated  *)
(* request is never answered with another one.                             *)
KeyKeepsItsJob ==
  [][\A key \in Keys :
       (InHistory(idempotencyKeys[key]) /\ InHistory(idempotencyKeys[key])')
         => idempotencyKeys'[key] = idempotencyKeys[key]]_vars

(* Once the workers are gone, no job is left queued or running for a       *)
(* client to poll forever, and a Shutdown that reports success left none.  *)
ShutdownLeavesNoActiveJob ==
  (AllExited \/ shutdown = "returned") =>
    \A id \in JobId : jobs[id].status \notin Active

(* Shutdown gets its workers to exit, the full queue drained.              *)
ShutdownCompletes == (shutdown = "closed") ~> (AllExited /\ queue = <<>>)

(* The manager keeps what JobLedger promises, ends of all jobs included.   *)
LedgerStatus(id) ==
  IF InHistory(id) THEN jobs[id].status
  ELSE IF id < nextId THEN "forgotten" ELSE "none"

Ledger == INSTANCE JobLedger
            WITH status <- [id \in JobId |-> LedgerStatus(id)],
                 work <- [id \in JobId |-> jobs[id].fingerprint]

KeepsLedger == Ledger!FairSpec
=============================================================================
