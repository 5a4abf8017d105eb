------------------------------ MODULE Application ------------------------------
(***************************************************************************)
(* The life of the server process: how main builds it, which goroutines    *)
(* it starts (HTTP server, scheduler, job workers), what they ask of the   *)
(* repository, and the order in which the deferred calls of App.Run take   *)
(* them down again.  It composes the scheduler, the HTTP server, the job   *)
(* manager (in detail: JobManager) and the repository's connections.       *)
(*                                                                         *)
(* An actor is whoever uses the repository: a scheduled sweep, an HTTP     *)
(* request, a job.  What it does there is left out; that it holds a        *)
(* connection meanwhile, and under which context it runs, is what counts.  *)
(***************************************************************************)
EXTENDS Naturals, FiniteSets

CONSTANTS
  Sweeps,       \* the scheduled jobs: discovery, collection, integrity
  Requests,     \* HTTP connections
  Jobs,         \* bound: jobs that can be submitted
  Workers,      \* jobs.workers, a number
  QueueSize,    \* jobs.queue_size
  Isolation     \* workers.per_server_isolation

Actors == Sweeps \cup Requests \cup Jobs

ASSUME ActorsAssumption ==
  /\ Sweeps \cap Requests = {}
  /\ Sweeps \cap Jobs = {}
  /\ Requests \cap Jobs = {}
  /\ IsFiniteSet(Jobs)
ASSUME OptionsAssumption ==
  /\ Workers \in Nat \ {0}
  /\ QueueSize \in Nat \ {0}
  /\ Isolation \in BOOLEAN

VARIABLES
  dryRun,             \* runtime.dry_run
  postgres,           \* the database is configured
  main,               \* next step of main
  err,                \* what App.Run returns
  store,              \* the repository
  listener,           \* the listening socket
  manager,            \* the job manager
  scheduler,          \* the scheduler
  signaled,           \* the context of main is canceled
  sweepsCanceled,     \* ... that of the scheduler
  jobsCanceled,       \* ... that of the job manager
  doing,              \* what each actor does
  refused             \* actors a closed repository has refused

config == <<dryRun, postgres>>
contexts == <<signaled, sweepsCanceled, jobsCanceled>>
parts == <<store, listener, manager, scheduler>>
vars == <<config, main, err, parts, contexts, doing, refused>>

-----------------------------------------------------------------------------
Building == {"opening", "connecting", "seeding", "registering"}
Running == {"starting", "scheduling", "serving", "shuttingDown", "closing",
            "draining connections", "stopping", "joining", "ending",
            "canceling jobs", "draining jobs"}
Ended == {"failed", "exited", "crashed"}

Alive == main \notin Ended

Active == {"queued", "running", "querying"}
Doing(a, what) == doing' = [doing EXCEPT ![a] = what]
All(actors, what) == [a \in Actors |-> IF a \in actors THEN what ELSE doing[a]]

(* Scheduler and workers derive their contexts from that of main; a        *)
(* request has its own, which no shutdown cancels.                         *)

\* Variation: the scheduler's context is not derived from that of main.
OwnContext(a) ==
  \/ a \in Sweeps /\ sweepsCanceled
  \/ a \in Jobs /\ (signaled \/ jobsCanceled)

Canceled(a) ==
  \/ a \in Sweeps /\ (signaled \/ sweepsCanceled)
  \/ a \in Jobs /\ (signaled \/ jobsCanceled)

InDatabase == postgres /\ ~dryRun
\* The in-memory repository has nothing to close.
StoreClosed == IF InDatabase THEN "closed" ELSE store

-----------------------------------------------------------------------------
(* main and App.New                                                        *)

OpenStore ==
  /\ main = "opening"
  /\ \/ main' = "connecting" /\ store' = "open"
     \/ InDatabase /\ main' = "failed" /\ store' = store
  /\ UNCHANGED <<config, err, listener, manager, scheduler, contexts, doing, refused>>

(* Without a usable known_hosts file NewRuntime returns at once and leaves *)
(* the store open.                                                         *)
CreateSSHFactory ==
  /\ main = "connecting"
  /\ main' \in {"seeding", "failed"}
  /\ UNCHANGED <<config, err, parts, contexts, doing, refused>>

(* seedServers and registerJobs: an error closes the store.                *)
BuildStep(from, to, mayFail) ==
  /\ main = from
  /\ \/ main' = to /\ store' = store
     \/ mayFail /\ main' = "failed" /\ store' = StoreClosed
  /\ UNCHANGED <<config, err, listener, manager, scheduler, contexts, doing, refused>>

SeedServers == BuildStep("seeding", "registering", TRUE)
RegisterJobs == BuildStep("registering", "starting", ~dryRun)

-----------------------------------------------------------------------------
(* App.Run starts the parts ...                                            *)

StartJobs ==
  /\ main = "starting"
  /\ manager' = "accepting"
  /\ main' = "scheduling"
  /\ UNCHANGED <<config, err, store, listener, scheduler, contexts, doing, refused>>

(* Every job runs at once.  Then apiServer.Run starts the listener.        *)
StartScheduler ==
  /\ main = "scheduling"
  /\ IF dryRun
     THEN UNCHANGED <<scheduler, doing>>
     ELSE scheduler' = "started" /\ doing' = All(Sweeps, "running")
  /\ listener' = "starting"
  /\ main' = "serving"
  /\ UNCHANGED <<config, err, store, manager, contexts, refused>>

ListenAndServe ==
  /\ main = "serving"
  /\ \/ listener = "starting" /\ listener' = "up"
     \/ listener \in {"starting", "up"} /\ listener' = "failed"
  /\ UNCHANGED <<config, main, err, store, manager, scheduler, contexts, doing, refused>>

(* A signal before NotifyContext ends the process as any other.            *)
Signal ==
  /\ main \in Running
  /\ ~signaled
  /\ signaled' = TRUE
  /\ UNCHANGED <<config, main, err, parts, sweepsCanceled, jobsCanceled, doing, refused>>

(* ... waits for a signal or a listener that fails, ...                    *)
StopListening ==
  /\ main = "serving"
  /\ signaled
  /\ listener' = "down"
  /\ main' = "shuttingDown"
  /\ UNCHANGED <<config, err, store, manager, scheduler, contexts, doing, refused>>

ListenFailed ==
  /\ main = "serving"
  /\ listener = "failed"
  /\ err' = "listen"
  /\ main' = "closing"
  /\ UNCHANGED <<config, parts, contexts, doing, refused>>

\* Variation: Shutdown waits as long as requests take.
NoTimeLimit == FALSE
RequestsGone == \A r \in Requests : doing[r] = "none"
OutOfTime == ~RequestsGone

(* http.Server.Shutdown: five seconds for the requests under way.          *)
ShutdownServer ==
  /\ main = "shuttingDown"
  /\ \/ RequestsGone /\ err' = err
     \/ OutOfTime /\ err' = "requests"
  /\ main' = "closing"
  /\ UNCHANGED <<config, parts, contexts, doing, refused>>

(* ... and takes them down: the repository first, ...                      *)

\* Variation: the job manager is shut down before the scheduler.
JobsFirst == "ending"
AfterClose == IF dryRun THEN "ending" ELSE "stopping"

CloseStore ==
  /\ main = "closing"
  /\ IF InDatabase
     THEN store' = "closing" /\ main' = "draining connections"
     ELSE store' = store /\ main' = AfterClose
  /\ UNCHANGED <<config, err, listener, manager, scheduler, contexts, doing, refused>>

Idle == \A a \in Actors : doing[a] # "querying"

(* pool.Close waits for every connection. *)
ConnectionsReturned ==
  /\ main = "draining connections"
  /\ Idle
  /\ store' = "closed"
  /\ main' = AfterClose
  /\ UNCHANGED <<config, err, listener, manager, scheduler, contexts, doing, refused>>

(* ... then the scheduler, without a time limit, ...                       *)
CancelSweeps ==
  /\ main = "stopping"
  /\ sweepsCanceled' = TRUE
  /\ main' = "joining"
  /\ UNCHANGED <<config, err, parts, signaled, jobsCanceled, doing, refused>>

\* Variation: Stop does not wait for the runs.
AnyTime == TRUE
SweepsGone == \A s \in Sweeps : doing[s] = "ended"

JoinSweeps ==
  /\ main = "joining"
  /\ SweepsGone
  /\ scheduler' = "stopped"
  /\ main' = "ending"
  /\ UNCHANGED <<config, err, store, listener, manager, contexts, doing, refused>>

(* ... and the job manager, which has ten seconds.                         *)
CloseQueue ==
  /\ main = "ending"
  /\ manager' = "closed"
  /\ main' = "canceling jobs"
  /\ UNCHANGED <<config, err, store, listener, scheduler, contexts, doing, refused>>

CancelJobs ==
  /\ main = "canceling jobs"
  /\ jobsCanceled' = TRUE
  /\ main' = "draining jobs"
  /\ UNCHANGED <<config, err, parts, signaled, sweepsCanceled, doing, refused>>

WorkersGone == \A j \in Jobs : doing[j] \notin Active

ShutdownJobs ==
  /\ main = "draining jobs"
  /\ err' = IF WorkersGone \/ err # "none" THEN err ELSE "jobs"
  /\ main' = "exited"
  /\ UNCHANGED <<config, parts, contexts, doing, refused>>

Build == OpenStore \/ CreateSSHFactory \/ SeedServers \/ RegisterJobs
Run ==
  \/ StartJobs \/ StartScheduler
  \/ StopListening \/ ListenFailed \/ ShutdownServer
  \/ CloseStore \/ ConnectionsReturned
  \/ CancelSweeps \/ JoinSweeps
  \/ CloseQueue \/ CancelJobs \/ ShutdownJobs

-----------------------------------------------------------------------------
(* What every actor does with the repository.  A pool refuses a call whose *)
(* context is canceled before it looks whether it is closed.               *)

Query(a) ==
  /\ doing[a] = "running"
  /\ store = "open"
  /\ InDatabase => ~Canceled(a)
  /\ Doing(a, "querying")
  /\ UNCHANGED <<config, main, err, parts, contexts, refused>>

QueryReturns(a) ==
  /\ doing[a] = "querying"
  /\ Doing(a, "running")
  /\ UNCHANGED <<config, main, err, parts, contexts, refused>>

QueryRefused(a) ==
  /\ doing[a] = "running"
  /\ store \in {"closing", "closed"}
  /\ ~Canceled(a)
  /\ refused' = refused \cup {a}
  /\ UNCHANGED <<config, main, err, parts, contexts, doing>>

-----------------------------------------------------------------------------
(* Scheduler.runJob: one goroutine for each job.  A run ends with its work *)
(* or with a panic of its own, which is recovered; select may take a tick  *)
(* when the context is canceled, too.                                      *)

RunReturns(s) ==
  /\ doing[s] = "running"
  /\ Doing(s, "waiting")
  /\ UNCHANGED <<config, main, err, parts, contexts, refused>>

Tick(s) ==
  /\ doing[s] = "waiting"
  /\ Doing(s, "running")
  /\ UNCHANGED <<config, main, err, parts, contexts, refused>>

Leave(s) ==
  /\ doing[s] = "waiting"
  /\ Canceled(s)
  /\ Doing(s, "ended")
  /\ UNCHANGED <<config, main, err, parts, contexts, refused>>

-----------------------------------------------------------------------------
(* Requests                                                                *)

Arrive(r) ==
  /\ listener = "up"
  /\ doing[r] = "none"
  /\ Doing(r, "running")
  /\ UNCHANGED <<config, main, err, parts, contexts, refused>>

Respond(r) ==
  /\ doing[r] \in {"running", "ready"}
  /\ Doing(r, "none")
  /\ UNCHANGED <<config, main, err, parts, contexts, refused>>

Queued == {j \in Jobs : doing[j] = "queued"}

Submit(r, j) ==
  /\ doing[r] = "running"
  /\ doing[j] = "none"
  /\ manager = "accepting"
  /\ Cardinality(Queued) < QueueSize
  /\ Doing(j, "queued")
  /\ UNCHANGED <<config, main, err, parts, contexts, refused>>

(* GET /readyz asks one part after the other: the repository, the job      *)
(* manager, the scheduler.                                                 *)
Asks(r, at, up, next) ==
  /\ doing[r] = at
  /\ Doing(r, IF up THEN next ELSE "running")
  /\ UNCHANGED <<config, main, err, parts, contexts, refused>>

Readiness(r) ==
  \/ Asks(r, "running", store = "open", "pinged")
  \/ Asks(r, "pinged", manager = "accepting", "jobs up")
  \/ Asks(r, "jobs up", dryRun \/ scheduler = "started", "ready")

-----------------------------------------------------------------------------
(* Job workers: a queued job is taken when a worker is free.               *)

Busy == {j \in Jobs : doing[j] \in {"running", "querying"}}

\* Variation: one worker too many.
OneWorkerMore == Cardinality(Busy) <= Workers
WorkerFree == Cardinality(Busy) < Workers

Take(j) ==
  /\ doing[j] = "queued"
  /\ manager # "none"
  /\ WorkerFree
  /\ Doing(j, IF Canceled(j) THEN "canceled" ELSE "running")
  /\ UNCHANGED <<config, main, err, parts, contexts, refused>>

JobReturns(j) ==
  /\ doing[j] = "running"
  /\ \/ Doing(j, "finished")
     \/ Canceled(j) /\ Doing(j, "canceled")
  /\ UNCHANGED <<config, main, err, parts, contexts, refused>>

(* With isolation off the services hold a nil *locks.Manager in an         *)
(* interface that is not nil: TryLock panics, and no worker recovers.      *)
JobPanics(j) ==
  /\ doing[j] = "running"
  /\ ~Isolation
  /\ main' = "crashed"
  /\ UNCHANGED <<config, err, parts, contexts, doing, refused>>

Act(a) ==
  \/ Query(a) \/ QueryReturns(a) \/ QueryRefused(a)
  \/ a \in Sweeps /\ (RunReturns(a) \/ Tick(a) \/ Leave(a))
  \/ a \in Requests /\ (Arrive(a) \/ Respond(a) \/ Readiness(a))
  \/ a \in Requests /\ \E j \in Jobs : Submit(a, j)
  \/ a \in Jobs /\ (Take(a) \/ JobReturns(a) \/ JobPanics(a))

-----------------------------------------------------------------------------
Init ==
  /\ dryRun \in BOOLEAN /\ postgres \in BOOLEAN
  /\ main = "opening"
  /\ err = "none"
  /\ store = "none" /\ listener = "none" /\ manager = "none" /\ scheduler = "none"
  /\ signaled = FALSE /\ sweepsCanceled = FALSE /\ jobsCanceled = FALSE
  /\ doing = [a \in Actors |-> "none"]
  /\ refused = {}

(* The end of main is the end of everybody. *)
Next ==
  /\ Alive
  /\ Build \/ Run \/ ListenAndServe \/ Signal \/ \E a \in Actors : Act(a)

Spec == Init /\ [][Next]_vars

(* main goes on, its timers included; a call to the repository returns     *)
(* (contexts and connections have time limits); a run of a sweep ends,     *)
(* however often it calls, and select is fair to the canceled context.     *)
Fairness ==
  /\ WF_vars(Alive /\ Run)
  /\ \A a \in Actors : WF_vars(Alive /\ QueryReturns(a))
  /\ \A s \in Sweeps : SF_vars(Alive /\ RunReturns(s)) /\ SF_vars(Alive /\ Leave(s))

FairSpec == Spec /\ Fairness

-----------------------------------------------------------------------------
(* Properties                                                              *)

(* Every variable has its type; an actor is only where its kind can be,    *)
(* and no more jobs are queued or worked on than there is room for.        *)
TypeOK ==
  /\ dryRun \in BOOLEAN /\ postgres \in BOOLEAN
  /\ main \in Building \cup Running \cup Ended
  /\ err \in {"none", "listen", "requests", "jobs"}
  /\ store \in {"none", "open", "closing", "closed"}
  /\ listener \in {"none", "starting", "up", "failed", "down"}
  /\ manager \in {"none", "accepting", "closed"}
  /\ scheduler \in {"none", "started", "stopped"}
  /\ signaled \in BOOLEAN /\ sweepsCanceled \in BOOLEAN /\ jobsCanceled \in BOOLEAN
  /\ doing \in [Actors -> {"none", "queued", "running", "querying", "waiting", "pinged",
                           "jobs up", "ready", "finished", "canceled", "ended"}]
  /\ \A s \in Sweeps : doing[s] \in {"none", "running", "querying", "waiting", "ended"}
  /\ \A j \in Jobs : doing[j] \in Active \cup {"none", "finished", "canceled"}
  /\ refused \subseteq Actors
  /\ Cardinality(Queued) <= QueueSize
  /\ Cardinality(Busy) <= Workers

(* App.Run closes the repository before the sweeps and the jobs that use   *)
(* it have stopped.  Whoever meets the closed repository does so under a   *)
(* canceled context.  Some runners still try to record a failure then, but *)
(* under the same context, and a canceled call is refused: nothing comes   *)
(* of it.  Excepted are requests that outlived Shutdown and, when the      *)
(* listener failed, everybody.                                             *)
ClosedUnderCancelOnly ==
  refused # {} => \/ err = "listen"
                  \/ err = "requests" /\ refused \subseteq Requests

(* A process that exits without an error leaves nothing half done: no      *)
(* sweep runs, no request waits, no accepted job is queued or running, and *)
(* the database is closed.                                                 *)
CleanExit ==
  (main = "exited" /\ err = "none") =>
    /\ \A a \in Actors : doing[a] \in {"none", "ended", "finished", "canceled"}
    /\ InDatabase => store = "closed"

(* Readiness asks the parts one after the other while main may be taking   *)
(* them down.  Because the scheduler is asked last and stopped first, a    *)
(* process with a scheduler never answers "ready" when its job manager has *)
(* closed the queue meanwhile.                                             *)
ReadyMeansAccepting ==
  [][\A r \in Requests :
       (doing'[r] = "ready" /\ doing[r] # "ready" /\ ~dryRun) => manager = "accepting"]_vars

(* A signal ends the process, whatever sweeps, requests and jobs are at.   *)
SignalEndsProcess == signaled ~> ~Alive
=============================================================================
