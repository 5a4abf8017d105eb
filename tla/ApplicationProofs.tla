--------------------------- MODULE ApplicationProofs ---------------------------
(***************************************************************************)
(* Theorems about Application, for any number of sweeps, requests and      *)
(* jobs, any workers and queue size, with and without isolation.           *)
(***************************************************************************)
EXTENDS Application, FiniteSetTheorems, TLAPS

(* main takes the parts down. *)
Taking == {"closing", "draining connections", "stopping", "joining", "ending",
           "canceling jobs", "draining jobs"}

(* The store is gone when the sweeps are stopped, the sweeps are gone when *)
(* the jobs are.                                                           *)
AfterStore == {"stopping", "joining", "ending", "canceling jobs", "draining jobs", "exited"}
AfterSweeps == {"ending", "canceling jobs", "draining jobs", "exited"}
WithScheduler == {"serving", "shuttingDown", "closing", "draining connections", "stopping", "joining"}

ErrorsInOrder ==
  /\ (main \in Building \cup {"starting", "scheduling", "serving", "shuttingDown"}) => err = "none"
  /\ Alive => err # "jobs"
TakenDownForAReason ==
  /\ main = "shuttingDown" => signaled
  /\ main \in Taking => (err = "listen" \/ signaled)
ClosedByRun ==
  (Alive /\ store \in {"closing", "closed"}) => main \in Taking \ {"closing"}
NoRequestLeft ==
  /\ main = "shuttingDown" => listener = "down"
  /\ (main \in Taking \cup {"exited"} /\ err = "none") =>
       listener = "down" /\ \A r \in Requests : doing[r] = "none"
StoreTaken == (main \in AfterStore /\ InDatabase) => store = "closed"
SweepsTaken ==
  /\ dryRun => \A s \in Sweeps : doing[s] = "none"
  /\ main \in AfterSweeps => \A s \in Sweeps : doing[s] \in {"none", "ended"}
ScheduledAndAccepting ==
  /\ dryRun => scheduler # "started"
  /\ (Alive /\ scheduler = "started") => main \in WithScheduler
  /\ main \in WithScheduler \cup {"scheduling"} => manager = "accepting"

Order ==
  /\ ErrorsInOrder /\ TakenDownForAReason /\ ClosedByRun /\ StoreTaken
  /\ ScheduledAndAccepting

IInv == TypeOK /\ Order /\ NoRequestLeft /\ SweepsTaken /\ ClosedUnderCancelOnly /\ CleanExit

-----------------------------------------------------------------------------
(* Types                                                                   *)

States == {"none", "queued", "running", "querying", "waiting", "pinged",
           "jobs up", "ready", "finished", "canceled", "ended"}
DoingTypes ==
  /\ doing \in [Actors -> States]
  /\ \A s \in Sweeps : doing[s] \in {"none", "running", "querying", "waiting", "ended"}
  /\ \A j \in Jobs : doing[j] \in Active \cup {"none", "finished", "canceled"}
Room == Cardinality(Queued) <= QueueSize /\ Cardinality(Busy) <= Workers
PartTypes ==
  /\ dryRun \in BOOLEAN /\ postgres \in BOOLEAN
  /\ main \in Building \cup Running \cup Ended
  /\ err \in {"none", "listen", "requests", "jobs"}
  /\ store \in {"none", "open", "closing", "closed"}
  /\ listener \in {"none", "starting", "up", "failed", "down"}
  /\ manager \in {"none", "accepting", "closed"}
  /\ scheduler \in {"none", "started", "stopped"}
  /\ signaled \in BOOLEAN /\ sweepsCanceled \in BOOLEAN /\ jobsCanceled \in BOOLEAN
  /\ refused \subseteq Actors

LEMMA TypesSplit == TypeOK <=> PartTypes /\ DoingTypes /\ Room
BY DEF TypeOK, PartTypes, DoingTypes, Room, States

(* An actor is of one kind only. *)
LEMMA Kinds ==
  /\ \A s \in Sweeps : s \notin Requests /\ s \notin Jobs /\ s \in Actors
  /\ \A r \in Requests : r \notin Jobs /\ r \in Actors
  /\ \A j \in Jobs : j \in Actors
BY ActorsAssumption DEF Actors

(* Sets of jobs are finite, and a smaller one has no more members. *)
LEMMA JobsCounted ==
  ASSUME NEW S \in SUBSET Jobs, NEW T \in SUBSET S
  PROVE  /\ IsFiniteSet(S) /\ Cardinality(S) \in Nat
         /\ Cardinality(T) \in Nat /\ Cardinality(T) <= Cardinality(S)
<1>1. IsFiniteSet(S)
  BY ActorsAssumption, FS_Subset
<1> QED BY <1>1, FS_Subset, FS_CardinalityType

(* Fewer jobs leave the room there was. *)
LEMMA RoomKept ==
  ASSUME Room, Queued' \subseteq Queued, Busy' \subseteq Busy
  PROVE  Room'
<1>1. Queued \subseteq Jobs /\ Busy \subseteq Jobs
  BY DEF Queued, Busy
<1>2. /\ Cardinality(Queued) \in Nat /\ Cardinality(Queued') \in Nat
      /\ Cardinality(Queued') <= Cardinality(Queued)
  BY <1>1, JobsCounted
<1>3. /\ Cardinality(Busy) \in Nat /\ Cardinality(Busy') \in Nat
      /\ Cardinality(Busy') <= Cardinality(Busy)
  BY <1>1, JobsCounted
<1> QED BY <1>2, <1>3, OptionsAssumption DEF Room

(* One more member counts for one more. *)
LEMMA OneMore ==
  ASSUME NEW S \in SUBSET Jobs, NEW j \in Jobs, NEW limit \in Nat, Cardinality(S) < limit
  PROVE  Cardinality(S \cup {j}) <= limit
<1>1. IsFiniteSet(S) /\ Cardinality(S) \in Nat
  BY JobsCounted
<1>2. Cardinality(S \cup {j}) \in {Cardinality(S), Cardinality(S) + 1}
  BY <1>1, FS_AddElement
<1> QED BY <1>1, <1>2

LEMMA RoomForQueued ==
  ASSUME DoingTypes, Room, NEW r \in Requests, NEW j \in Jobs, Submit(r, j)
  PROVE  Room'
<1>1. Queued' = Queued \cup {j} /\ Busy' = Busy
  BY Kinds DEF Submit, Doing, Queued, Busy, DoingTypes
<1>2. Queued \in SUBSET Jobs
  BY DEF Queued
<1>3. Cardinality(Queued \cup {j}) <= QueueSize
  BY <1>2, OneMore, OptionsAssumption DEF Submit
<1> QED BY <1>1, <1>3 DEF Room

LEMMA RoomForTaken ==
  ASSUME DoingTypes, Room, NEW j \in Jobs, Take(j)
  PROVE  Room'
<1>1. Queued' \subseteq Queued /\ Busy' \subseteq Busy \cup {j} /\ Busy \subseteq Busy'
  BY Kinds DEF Take, Doing, Queued, Busy, DoingTypes
<1>2. Busy \in SUBSET Jobs /\ Queued \in SUBSET Jobs /\ Queued' \in SUBSET Queued
  BY <1>1 DEF Busy, Queued
<1>3. Cardinality(Busy \cup {j}) <= Workers /\ Cardinality(Busy) < Workers
  BY <1>2, OneMore, OptionsAssumption DEF Take, WorkerFree
<1>4. Busy' = Busy \/ Busy' = Busy \cup {j}
  BY <1>1
<1>5. Cardinality(Queued') <= QueueSize
  BY <1>2, JobsCounted, OptionsAssumption DEF Room
<1>6. Cardinality(Busy') <= Workers
  BY <1>2, <1>3, <1>4, JobsCounted, OptionsAssumption
<1> QED BY <1>5, <1>6 DEF Room

(* The steps of main leave the jobs alone, starting the sweeps as well. *)
MainStep == Build \/ Run \/ ListenAndServe \/ Signal

LEMMA MainTypes ==
  ASSUME TypeOK, MainStep
  PROVE  PartTypes' /\ DoingTypes' /\ Room'
<1>0. PartTypes /\ DoingTypes /\ Room
  BY TypesSplit
<1>1. CASE UNCHANGED doing
  <2>1. PartTypes'
    <3>0. PartTypes
      BY <1>0
    <3>1. CASE Build
      BY <3>0, <3>1 DEF PartTypes, Building, Running, Ended, config, contexts, parts,
        Build, OpenStore, CreateSSHFactory, SeedServers, RegisterJobs, BuildStep, StoreClosed
    <3>2. CASE StartJobs \/ StopListening \/ ListenFailed \/ ShutdownServer
      BY <3>0, <3>2 DEF PartTypes, Running, Ended, config, contexts, parts,
        StartJobs, StopListening, ListenFailed, ShutdownServer
    <3>3. CASE StartScheduler
      BY <3>0, <3>3 DEF PartTypes, Running, Ended, config, contexts, parts, StartScheduler
    <3>4. CASE CloseStore \/ ConnectionsReturned \/ CancelSweeps \/ JoinSweeps
      BY <3>0, <3>4 DEF PartTypes, Running, Ended, config, contexts, parts,
        CloseStore, AfterClose, ConnectionsReturned, CancelSweeps, JoinSweeps
    <3>5. CASE CloseQueue \/ CancelJobs \/ ShutdownJobs
      BY <3>0, <3>5 DEF PartTypes, Running, Ended, config, contexts, parts,
        CloseQueue, CancelJobs, ShutdownJobs
    <3>6. CASE ListenAndServe \/ Signal
      BY <3>0, <3>6 DEF PartTypes, config, contexts, parts, ListenAndServe, Signal
    <3> QED BY <3>1, <3>2, <3>3, <3>4, <3>5, <3>6 DEF MainStep, Run
  <2>2. DoingTypes' /\ Queued' = Queued /\ Busy' = Busy
    BY <1>0, <1>1 DEF DoingTypes, Active, Queued, Busy
  <2> QED BY <1>0, <2>1, <2>2, RoomKept
<1>2. CASE StartScheduler /\ doing' = All(Sweeps, "running")
  <2>1. PartTypes'
    BY <1>0, <1>2 DEF PartTypes, Running, config, contexts, parts, StartScheduler
  <2>2. DoingTypes' /\ Queued' = Queued /\ Busy' = Busy
    BY <1>0, <1>2, Kinds DEF DoingTypes, States, Active, All, Queued, Busy
  <2> QED BY <1>0, <2>1, <2>2, RoomKept
<1>3. UNCHANGED doing \/ (StartScheduler /\ doing' = All(Sweeps, "running"))
  BY DEF MainStep, Build, OpenStore, CreateSSHFactory, SeedServers, RegisterJobs, BuildStep,
    Run, StartJobs, StartScheduler, StopListening, ListenFailed, ShutdownServer, CloseStore,
    ConnectionsReturned, CancelSweeps, JoinSweeps, CloseQueue, CancelJobs, ShutdownJobs,
    ListenAndServe, Signal
<1> QED BY <1>1, <1>2, <1>3

(* A sweep, a request or a job changes nothing of main's, except that a    *)
(* panic ends the process.                                                 *)
LEMMA ActorsKeepParts ==
  ASSUME NEW a \in Actors, Act(a)
  PROVE  /\ UNCHANGED <<config, err, parts, contexts>>
         /\ main' \in {main, "crashed"}
         /\ refused' \in {refused, refused \cup {a}}
BY DEF Act, Query, QueryReturns, QueryRefused, RunReturns, Tick, Leave, Arrive, Respond, Readiness,
  Asks, Submit, Take, JobReturns, JobPanics

LEMMA ActorsKeepPartTypes ==
  ASSUME PartTypes, NEW a \in Actors, Act(a)
  PROVE  PartTypes'
BY ActorsKeepParts DEF PartTypes, Ended, config, parts, contexts

(* What an actor does to itself, and to no other. *)
LEMMA ActorTypes ==
  ASSUME TypeOK, NEW a \in Actors, Act(a)
  PROVE  DoingTypes' /\ Room'
<1>0. PartTypes /\ DoingTypes /\ Room
  BY TypesSplit
<1>1. CASE Query(a) \/ QueryReturns(a)
  <2>1. DoingTypes'
    BY <1>1, Kinds, <1>0 DEF DoingTypes, States, Active, Doing,
      Query, QueryReturns
  <2>2. Queued' = Queued /\ Busy' = Busy
    BY <1>0, <1>1, Kinds DEF DoingTypes, Doing, Query, QueryReturns, Queued, Busy
  <2> QED BY <1>0, <2>1, <2>2, RoomKept
<1>2. CASE QueryRefused(a)
  <2>1. DoingTypes'
    BY <1>2, Kinds, <1>0 DEF DoingTypes, States, Active, Doing,
      QueryRefused
  <2>2. Queued' = Queued /\ Busy' = Busy
    BY <1>2 DEF QueryRefused, Queued, Busy
  <2> QED BY <1>0, <2>1, <2>2, RoomKept
<1>3. CASE a \in Sweeps /\ (RunReturns(a) \/ Tick(a) \/ Leave(a))
  <2>1. DoingTypes'
    BY <1>3, Kinds, <1>0 DEF DoingTypes, States, Active, Doing,
      RunReturns, Tick, Leave
  <2>2. Queued' = Queued /\ Busy' = Busy
    BY <1>0, <1>3, Kinds DEF DoingTypes, Doing, RunReturns, Tick, Leave, Queued, Busy
  <2> QED BY <1>0, <2>1, <2>2, RoomKept
<1>4. CASE a \in Requests /\ (Arrive(a) \/ Respond(a) \/ Readiness(a))
  <2>1. DoingTypes'
    BY <1>4, Kinds, <1>0 DEF DoingTypes, States, Active, Doing,
      Arrive, Respond, Readiness, Asks
  <2>2. Queued' = Queued /\ Busy' = Busy
    BY <1>0, <1>4, Kinds DEF DoingTypes, Doing, Arrive, Respond, Readiness, Asks, Queued, Busy
  <2> QED BY <1>0, <2>1, <2>2, RoomKept
<1>5. ASSUME a \in Requests, NEW j \in Jobs, Submit(a, j)
      PROVE  DoingTypes' /\ Room'
  <2>1. DoingTypes'
    BY <1>5, Kinds, <1>0 DEF DoingTypes, States, Active, Doing,
      Submit
  <2> QED BY <1>0, <1>5, <2>1, RoomForQueued
<1>6. CASE a \in Jobs /\ Take(a)
  <2>1. DoingTypes'
    BY <1>6, Kinds, <1>0 DEF DoingTypes, States, Active, Doing,
      Take
  <2> QED BY <1>0, <1>6, <2>1, RoomForTaken
<1>7. CASE a \in Jobs /\ JobReturns(a)
  <2>1. DoingTypes'
    BY <1>7, Kinds, <1>0 DEF DoingTypes, States, Active, Doing,
      JobReturns
  <2>2. Queued' \subseteq Queued /\ Busy' \subseteq Busy
    BY <1>0, <1>7, Kinds DEF DoingTypes, Doing, JobReturns, Queued, Busy
  <2> QED BY <1>0, <2>1, <2>2, RoomKept
<1>8. CASE a \in Jobs /\ JobPanics(a)
  <2>1. DoingTypes'
    BY <1>8, <1>0 DEF DoingTypes, States, Active, Doing,
      JobPanics, Ended
  <2>2. Queued' = Queued /\ Busy' = Busy
    BY <1>8 DEF JobPanics, Queued, Busy
  <2> QED BY <1>0, <2>1, <2>2, RoomKept
<1> QED BY <1>1, <1>2, <1>3, <1>4, <1>5, <1>6, <1>7, <1>8 DEF Act

-----------------------------------------------------------------------------
(* The order in which main takes the parts down                            *)

LEMMA ActorsKeepOrder ==
  ASSUME Order, Alive, NEW a \in Actors, Act(a)
  PROVE  Order'
BY ActorsKeepParts DEF Order, ErrorsInOrder, TakenDownForAReason, ClosedByRun, StoreTaken,
  ScheduledAndAccepting, Taking, AfterStore, WithScheduler, Building, Alive, Ended,
  config, parts, contexts, InDatabase

LEMMA MainKeepsOrder ==
  ASSUME TypeOK, Order, Alive, MainStep
  PROVE  Order'
<1> USE DEF Order, ErrorsInOrder, TakenDownForAReason, ClosedByRun, StoreTaken,
  ScheduledAndAccepting, Taking, AfterStore, WithScheduler, Building, Alive, Ended,
  config, parts, contexts, InDatabase
<1> PartTypes
  BY TypesSplit
<1>1. CASE Build
  BY <1>1 DEF Build, OpenStore, CreateSSHFactory, SeedServers, RegisterJobs, BuildStep, StoreClosed,
    PartTypes
<1>2. CASE StartJobs
  BY <1>2 DEF StartJobs
<1>3. CASE StartScheduler
  <2>1. CASE dryRun
    BY <1>3, <2>1 DEF StartScheduler
  <2>2. CASE ~dryRun
    BY <1>3, <2>2 DEF StartScheduler
  <2> QED BY <2>1, <2>2
<1>4. CASE StopListening
  BY <1>4 DEF StopListening
<1>5. CASE ListenFailed
  BY <1>5 DEF ListenFailed
<1>6. CASE ShutdownServer
  BY <1>6 DEF ShutdownServer
<1>7. CASE CloseStore
  <2>1. CASE InDatabase
    BY <1>7, <2>1 DEF CloseStore
  <2>2. CASE ~InDatabase
    BY <1>7, <2>2 DEF CloseStore, AfterClose
  <2> QED BY <2>1, <2>2
<1>8. CASE ConnectionsReturned
  BY <1>8 DEF ConnectionsReturned, AfterClose
<1>9. CASE CancelSweeps
  BY <1>9 DEF CancelSweeps
<1>10. CASE JoinSweeps
  BY <1>10 DEF JoinSweeps
<1>11. CASE CloseQueue
  BY <1>11 DEF CloseQueue
<1>12. CASE CancelJobs
  BY <1>12 DEF CancelJobs
<1>13. CASE ShutdownJobs
  BY <1>13 DEF ShutdownJobs
<1>14. CASE ListenAndServe
  BY <1>14 DEF ListenAndServe
<1>15. CASE Signal
  BY <1>15 DEF Signal
<1> QED BY <1>1, <1>2, <1>3, <1>4, <1>5, <1>6, <1>7, <1>8, <1>9, <1>10, <1>11, <1>12,
  <1>13, <1>14, <1>15 DEF MainStep, Run

-----------------------------------------------------------------------------
(* Who is left when                                                        *)

LEMMA MainLeavesNoRequest ==
  ASSUME TypeOK, Order, NoRequestLeft, Alive, MainStep
  PROVE  NoRequestLeft'
<1> USE DEF NoRequestLeft, Taking
<1>1. CASE StartScheduler
  BY <1>1 DEF StartScheduler
<1>2. CASE ShutdownServer
  <2>1. CASE RequestsGone /\ err' = err
    BY <1>2, <2>1 DEF ShutdownServer, RequestsGone, parts
  <2>2. CASE err' = "requests"
    BY <1>2, <2>2 DEF ShutdownServer
  <2> QED BY <1>2, <2>1, <2>2 DEF ShutdownServer
<1>3. CASE StopListening \/ ListenFailed
  BY <1>3 DEF StopListening, ListenFailed
<1>4. CASE Build
  BY <1>4 DEF Build, OpenStore, CreateSSHFactory, SeedServers, RegisterJobs, BuildStep
<1>5. CASE CloseStore \/ ConnectionsReturned
  BY <1>5 DEF CloseStore, ConnectionsReturned, AfterClose
<1>6. CASE CancelSweeps \/ JoinSweeps
  BY <1>6 DEF CancelSweeps, JoinSweeps, parts
<1>7. CASE CloseQueue \/ CancelJobs
  BY <1>7 DEF CloseQueue, CancelJobs, parts
<1>8. CASE ShutdownJobs
  BY <1>8 DEF ShutdownJobs, parts
<1>9. CASE StartJobs \/ ListenAndServe
  BY <1>9 DEF StartJobs, ListenAndServe
<1>10. CASE Signal
  BY <1>10 DEF Signal, parts
<1> QED BY <1>1, <1>2, <1>3, <1>4, <1>5, <1>6, <1>7, <1>8, <1>9, <1>10 DEF MainStep, Run

LEMMA RequestsStayAway ==
  ASSUME TypeOK, NoRequestLeft, Alive, NEW a \in Actors, Act(a)
  PROVE  NoRequestLeft'
<1>1. PartTypes /\ DoingTypes
  BY TypesSplit
<1>2. UNCHANGED <<err, listener>> /\ main' \in {main, "crashed"}
  BY ActorsKeepParts DEF parts
<1>3. ASSUME main \in Taking \cup {"exited"}, err = "none", NEW r \in Requests
      PROVE  doing'[r] = "none"
  <2>1. listener = "down" /\ \A q \in Requests : doing[q] = "none"
    BY <1>3 DEF NoRequestLeft
  <2>2. doing[r] = "none" /\ (a \in Requests => doing[a] = "none")
    BY <2>1
  <2>3. CASE a \in Requests
    BY <2>1, <2>2, <2>3, Kinds DEF Act, Query, QueryReturns, QueryRefused, Arrive, Respond,
      Readiness, Asks, Submit
  <2>4. CASE a \notin Requests
    BY <1>1, <2>2, <2>4, Kinds DEF Act, Query, QueryReturns, QueryRefused, RunReturns, Tick, Leave,
      Take, JobReturns, JobPanics, Doing, DoingTypes
  <2> QED BY <2>3, <2>4
<1> QED BY <1>2, <1>3 DEF NoRequestLeft, Taking

LEMMA MainTakesSweeps ==
  ASSUME TypeOK, SweepsTaken, Alive, MainStep
  PROVE  SweepsTaken'
<1>1. CASE StartScheduler
  <2>1. CASE dryRun
    BY <1>1, <2>1 DEF StartScheduler, SweepsTaken, AfterSweeps, config
  <2>2. CASE ~dryRun
    BY <1>1, <2>2 DEF StartScheduler, SweepsTaken, AfterSweeps, config
  <2> QED BY <2>1, <2>2
<1>2. CASE CloseStore \/ ConnectionsReturned
  <2>1. UNCHANGED <<dryRun, doing>> /\ main' \in {"draining connections", AfterClose}
    BY <1>2 DEF CloseStore, ConnectionsReturned, config
  <2>2. CASE dryRun
    BY <2>1, <2>2 DEF SweepsTaken
  <2>3. CASE ~dryRun
    BY <2>1, <2>3 DEF SweepsTaken, AfterSweeps, AfterClose
  <2> QED BY <2>2, <2>3
<1>3. CASE JoinSweeps
  BY <1>3 DEF JoinSweeps, SweepsGone, SweepsTaken, AfterSweeps, config
<1>4. CASE UNCHANGED <<dryRun, doing>> /\ (main' \in AfterSweeps => main \in AfterSweeps)
  BY <1>4 DEF SweepsTaken
<1>5. \/ StartScheduler \/ CloseStore \/ ConnectionsReturned \/ JoinSweeps
      \/ UNCHANGED <<dryRun, doing>> /\ (main' \in AfterSweeps => main \in AfterSweeps)
  BY DEF MainStep, Build, OpenStore, CreateSSHFactory, SeedServers, RegisterJobs, BuildStep,
    Run, StartJobs, StopListening, ListenFailed, ShutdownServer, CancelSweeps, CloseQueue,
    CancelJobs, ShutdownJobs, ListenAndServe, Signal, AfterSweeps, config
<1> QED BY <1>1, <1>2, <1>3, <1>4, <1>5

LEMMA SweepsStayAway ==
  ASSUME TypeOK, SweepsTaken, NEW a \in Actors, Act(a)
  PROVE  SweepsTaken'
<1>1. DoingTypes
  BY TypesSplit
<1>2. UNCHANGED dryRun /\ main' \in {main, "crashed"}
  BY ActorsKeepParts DEF config
<1>3. ASSUME NEW s \in Sweeps, doing[s] \in {"none", "ended"}
      PROVE  doing'[s] = doing[s]
  <2>1. CASE a \in Sweeps
    BY <1>1, <1>3, <2>1, Kinds DEF Act, Query, QueryReturns, QueryRefused, RunReturns, Tick, Leave,
      Doing, DoingTypes
  <2>2. CASE a \in Requests
    BY <1>1, <1>3, <2>2, Kinds DEF Act, Query, QueryReturns, QueryRefused, Arrive, Respond,
      Readiness, Asks, Submit, Doing, DoingTypes
  <2>3. CASE a \in Jobs
    BY <1>1, <1>3, <2>3, Kinds DEF Act, Query, QueryReturns, QueryRefused, Take, JobReturns,
      JobPanics, Doing, DoingTypes
  <2> QED BY <2>1, <2>2, <2>3 DEF Actors
<1> QED BY <1>2, <1>3 DEF SweepsTaken, AfterSweeps

-----------------------------------------------------------------------------
(* Who meets the closed repository                                         *)

LEMMA RefusalsExplained ==
  ASSUME IInv, Alive, NEW a \in Actors, Act(a)
  PROVE  ClosedUnderCancelOnly'
<1>1. UNCHANGED err
  BY ActorsKeepParts
<1>2. CASE QueryRefused(a)
  <2>1. main \in Taking /\ err # "jobs"
    BY <1>2 DEF IInv, Order, ClosedByRun, ErrorsInOrder, QueryRefused
  <2>2. SUFFICES ASSUME err # "listen" PROVE err = "requests" /\ refused' \subseteq Requests
    BY <1>1 DEF ClosedUnderCancelOnly
  <2>3. signaled
    BY <2>1, <2>2 DEF IInv, Order, TakenDownForAReason
  <2>4. a \in Requests
    BY <1>2, <2>3, Kinds DEF QueryRefused, Canceled, Actors
  <2>5. err = "requests"
    <3>1. err # "none"
      BY <1>2, <2>1, <2>4 DEF QueryRefused, IInv, NoRequestLeft
    <3> QED BY <2>1, <2>2, <3>1 DEF IInv, TypeOK
  <2>6. refused \subseteq Requests
    BY <2>2 DEF IInv, ClosedUnderCancelOnly
  <2> QED BY <1>2, <2>4, <2>5, <2>6 DEF QueryRefused
<1>3. CASE UNCHANGED refused
  BY <1>1, <1>3 DEF IInv, ClosedUnderCancelOnly
<1>4. QueryRefused(a) \/ UNCHANGED refused
  BY DEF Act, Query, QueryReturns, RunReturns, Tick, Leave, Arrive, Respond, Readiness, Asks,
    Submit, Take, JobReturns, JobPanics
<1> QED BY <1>2, <1>3, <1>4

LEMMA MainRefusesNobody ==
  ASSUME IInv, MainStep
  PROVE  ClosedUnderCancelOnly'
<1> USE DEF ClosedUnderCancelOnly
<1>1. ClosedUnderCancelOnly
  BY DEF IInv
<1>2. CASE ListenFailed
  BY <1>2 DEF ListenFailed
<1>3. CASE ShutdownServer
  BY <1>1, <1>3 DEF ShutdownServer, IInv, Order, ErrorsInOrder
<1>4. CASE ShutdownJobs
  BY <1>1, <1>4 DEF ShutdownJobs
<1>5. CASE UNCHANGED <<err, refused>>
  BY <1>1, <1>5
<1>6. ListenFailed \/ ShutdownServer \/ ShutdownJobs \/ UNCHANGED <<err, refused>>
  BY DEF MainStep, Build, OpenStore, CreateSSHFactory, SeedServers, RegisterJobs, BuildStep,
    Run, StartJobs, StartScheduler, StopListening, CloseStore, ConnectionsReturned,
    CancelSweeps, JoinSweeps, CloseQueue, CancelJobs, ListenAndServe, Signal
<1> QED BY <1>2, <1>3, <1>4, <1>5, <1>6

-----------------------------------------------------------------------------
(* What a clean exit leaves                                                *)

LEMMA ExitIsClean ==
  ASSUME IInv, ShutdownJobs
  PROVE  CleanExit'
<1> SUFFICES ASSUME err' = "none"
             PROVE  /\ \A a \in Actors : doing'[a] \in {"none", "ended", "finished", "canceled"}
                    /\ InDatabase' => store' = "closed"
  BY DEF CleanExit
<1>1. err = "none" /\ WorkersGone /\ UNCHANGED <<config, store, doing>>
  BY DEF ShutdownJobs, parts, config
<1>2. main = "draining jobs"
  BY DEF ShutdownJobs
<1>3. \A r \in Requests : doing[r] = "none"
  BY <1>1, <1>2 DEF IInv, NoRequestLeft, Taking
<1>4. \A s \in Sweeps : doing[s] \in {"none", "ended"}
  BY <1>2 DEF IInv, SweepsTaken, AfterSweeps
<1>5. \A j \in Jobs : doing[j] \in {"none", "finished", "canceled"}
  BY <1>1 DEF WorkersGone, IInv, TypeOK
<1>6. InDatabase => store = "closed"
  BY <1>2 DEF IInv, Order, StoreTaken, AfterStore
<1> QED BY <1>1, <1>3, <1>4, <1>5, <1>6 DEF Actors, InDatabase, config

LEMMA OnlyShutdownExits ==
  ASSUME Alive, MainStep, main' = "exited"
  PROVE  ShutdownJobs
BY DEF MainStep, Build, OpenStore, CreateSSHFactory, SeedServers, RegisterJobs, BuildStep,
  Run, StartJobs, StartScheduler, StopListening, ListenFailed, ShutdownServer, CloseStore,
  AfterClose, ConnectionsReturned, CancelSweeps, JoinSweeps, CloseQueue, CancelJobs,
  ListenAndServe, Signal, Alive, Ended

-----------------------------------------------------------------------------
(* Initial states, steps, theorems                                         *)

LEMMA NobodyAtFirst == Init => IInv
<1> SUFFICES ASSUME Init PROVE IInv
  OBVIOUS
<1> USE DEF Init
<1>1. Queued = {} /\ Busy = {}
  BY Kinds DEF Queued, Busy
<1>2. Room
  BY <1>1, FS_EmptySet, OptionsAssumption DEF Room
<1>3. PartTypes /\ DoingTypes
  BY Kinds DEF PartTypes, DoingTypes, Building, States, Active
<1>4. Order
  BY DEF Order, ErrorsInOrder, TakenDownForAReason, ClosedByRun, StoreTaken,
    ScheduledAndAccepting, Building, Taking, AfterStore, WithScheduler, Alive, Ended
<1>5. NoRequestLeft /\ SweepsTaken
  BY Kinds DEF NoRequestLeft, SweepsTaken, Taking, AfterSweeps
<1>6. ClosedUnderCancelOnly /\ CleanExit
  BY DEF ClosedUnderCancelOnly, CleanExit
<1> QED BY <1>2, <1>3, <1>4, <1>5, <1>6, TypesSplit DEF IInv

LEMMA StepPreserves == IInv /\ [Next]_vars => IInv'
<1> SUFFICES ASSUME IInv, [Next]_vars PROVE IInv'
  OBVIOUS
<1>0. TypeOK /\ Order /\ NoRequestLeft /\ SweepsTaken /\ ClosedUnderCancelOnly /\ CleanExit
  BY DEF IInv
<1>1. CASE Alive /\ MainStep
  <2>1. TypeOK'
    BY <1>0, <1>1, MainTypes DEF TypeOK, PartTypes, DoingTypes, Room, States
  <2>2. Order' /\ NoRequestLeft' /\ SweepsTaken' /\ ClosedUnderCancelOnly'
    BY <1>0, <1>1, MainKeepsOrder, MainLeavesNoRequest, MainTakesSweeps, MainRefusesNobody
  <2>3. CleanExit'
    <3>1. CASE main' = "exited"
      BY <1>1, <3>1, OnlyShutdownExits, ExitIsClean
    <3>2. CASE main' # "exited"
      BY <3>2 DEF CleanExit
    <3> QED BY <3>1, <3>2
  <2> QED BY <2>1, <2>2, <2>3 DEF IInv
<1>2. ASSUME Alive, NEW a \in Actors, Act(a) PROVE IInv'
  <2>1. TypeOK'
    <3>1. PartTypes
      BY <1>0, TypesSplit
    <3> QED BY <1>0, <1>2, <3>1, ActorTypes, ActorsKeepPartTypes
          DEF TypeOK, PartTypes, DoingTypes, Room, States
  <2>2. Order' /\ NoRequestLeft' /\ SweepsTaken' /\ ClosedUnderCancelOnly'
    BY <1>0, <1>2, ActorsKeepOrder, RequestsStayAway, SweepsStayAway, RefusalsExplained
  <2>3. main' # "exited"
    BY <1>2, ActorsKeepParts DEF Alive, Ended
  <2> QED BY <2>1, <2>2, <2>3 DEF IInv, CleanExit
<1>3. CASE UNCHANGED vars
  <2>1. TypeOK'
    <3>1. PartTypes /\ DoingTypes /\ Room
      BY <1>0, TypesSplit
    <3>2. PartTypes'
      BY <1>3, <3>1 DEF vars, config, contexts, parts, PartTypes
    <3>3. UNCHANGED <<doing, Queued, Busy>>
      BY <1>3 DEF vars, Queued, Busy
    <3>4. DoingTypes' /\ Room'
      BY <3>1, <3>3 DEF DoingTypes, Room
    <3> QED BY <3>2, <3>4 DEF TypeOK, PartTypes, DoingTypes, Room, States
  <2>2. Order'
    <3>1. UNCHANGED <<main, err, store, manager, scheduler, signaled, dryRun, postgres>>
      BY <1>3 DEF vars, config, contexts, parts
    <3>2. ErrorsInOrder' /\ ClosedByRun'
      BY <1>0, <3>1 DEF Order, ErrorsInOrder, ClosedByRun, Alive
    <3>3. TakenDownForAReason'
      BY <1>0, <3>1 DEF Order, TakenDownForAReason
    <3>4. StoreTaken' /\ ScheduledAndAccepting'
      BY <1>0, <3>1 DEF Order, StoreTaken, ScheduledAndAccepting, InDatabase, Alive
    <3> QED BY <3>2, <3>3, <3>4 DEF Order
  <2>3. NoRequestLeft' /\ SweepsTaken'
    BY <1>0, <1>3 DEF vars, config, parts, NoRequestLeft, SweepsTaken
  <2>4. ClosedUnderCancelOnly' /\ CleanExit'
    BY <1>0, <1>3 DEF vars, config, parts, ClosedUnderCancelOnly, CleanExit, InDatabase
  <2> QED BY <2>1, <2>2, <2>3, <2>4 DEF IInv
<1> QED BY <1>1, <1>2, <1>3 DEF Next, MainStep

(* Main takes the parts down in the order of App.Run's deferred calls, and *)
(* who uses a part that is down, and under which context, follows from it. *)
THEOREM Invariance == Spec => []IInv
BY NobodyAtFirst, StepPreserves, PTL DEF Spec

(* Every variable keeps its type, no more jobs are queued than the queue   *)
(* holds and no more are worked on than there are workers (app.go, jobs).  *)
THEOREM TypeCorrect == Spec => []TypeOK
<1>1. IInv => TypeOK
  BY DEF IInv
<1> QED BY <1>1, Invariance, PTL

(* Whoever meets the repository that App.Run has closed under it has a     *)
(* canceled context, unless it is a request that outlived Shutdown or the  *)
(* listener had failed (http/app.go, http/server.go).                      *)
THEOREM ClosedUnderCancel == Spec => []ClosedUnderCancelOnly
<1>1. IInv => ClosedUnderCancelOnly
  BY DEF IInv
<1> QED BY <1>1, Invariance, PTL

(* A process that exits without an error leaves no sweep, request or job   *)
(* behind and the database closed (http/app.go).                           *)
THEOREM ExitsClean == Spec => []CleanExit
<1>1. IInv => CleanExit
  BY DEF IInv
<1> QED BY <1>1, Invariance, PTL

(* "Ready" is answered only while the job manager accepts jobs, though the *)
(* parts are asked one after the other (handlers/probes.go).               *)
THEOREM ReadyIsTrue == Spec => ReadyMeansAccepting
<1>1. ASSUME IInv, Next, NEW r \in Requests, doing'[r] = "ready", doing[r] # "ready", ~dryRun
      PROVE  manager = "accepting"
  <2>1. DoingTypes
    BY <1>1, TypesSplit DEF IInv
  <2>2. CASE MainStep
    <3>1. doing'[r] = doing[r]
      BY <1>1, <2>2, Kinds DEF MainStep, Build, OpenStore, CreateSSHFactory, SeedServers, RegisterJobs,
        BuildStep, Run, StartJobs, StartScheduler, All, StopListening, ListenFailed, ShutdownServer,
        CloseStore, ConnectionsReturned, CancelSweeps, JoinSweeps, CloseQueue, CancelJobs,
        ShutdownJobs, ListenAndServe, Signal
    <3> QED BY <1>1, <3>1
  <2>3. ASSUME NEW a \in Actors, Act(a) PROVE manager = "accepting"
    <3>1. scheduler = "started"
      <4>1. CASE a = r
        BY <1>1, <2>1, <2>3, <4>1, Kinds DEF Act, Query, QueryReturns, QueryRefused, Arrive, Respond,
          Readiness, Asks, Submit, Doing, DoingTypes
      <4>2. CASE a # r
        BY <1>1, <2>1, <2>3, <4>2, Kinds DEF Act, Query, QueryReturns, QueryRefused, RunReturns, Tick,
          Leave, Arrive, Respond, Readiness, Asks, Submit, Take, JobReturns, JobPanics, Doing, DoingTypes
      <4> QED BY <4>1, <4>2
    <3> QED BY <1>1, <3>1 DEF Next, IInv, Order, ScheduledAndAccepting
  <2> QED BY <1>1, <2>2, <2>3 DEF Next, MainStep
<1>2. IInv /\ [Next]_vars =>
        [\A r \in Requests :
           (doing'[r] = "ready" /\ doing[r] # "ready" /\ ~dryRun) => manager = "accepting"]_vars
  BY <1>1
<1> QED BY <1>2, Invariance, PTL DEF Spec, ReadyMeansAccepting
=============================================================================
