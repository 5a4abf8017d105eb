--------------------------- MODULE JobManagerProofs ---------------------------
(***************************************************************************)
(* Theorems about JobManager, for every value of its constants.            *)
(***************************************************************************)
EXTENDS JobManager, FiniteSetTheorems, TLAPS

-----------------------------------------------------------------------------
(* The inductive invariant                                                 *)

(* What is in the queue is queued, what a worker holds is queued until it  *)
(* runs. *)
Statuses ==
  /\ \A i \in 1 .. Len(queue) : jobs[queue[i]].status = "queued"
  /\ \A w \in Workers : pc[w] \in Busy =>
       /\ current[w] \in JobId
       /\ jobs[current[w]].status = IF pc[w] = "running" THEN "running" ELSE "queued"

(* A task is in one place. *)
OnePlace ==
  /\ \A i, j \in 1 .. Len(queue) : queue[i] = queue[j] => i = j
  /\ \A w \in Workers, i \in 1 .. Len(queue) : pc[w] \in Busy => queue[i] # current[w]
  /\ \A v, w \in Workers :
       (pc[v] \in Busy /\ pc[w] \in Busy /\ current[v] = current[w]) => v = w

(* An active job is in some place. *)
Somewhere ==
  \A id \in JobId : jobs[id].status \in Active =>
    \/ \E i \in 1 .. Len(queue) : queue[i] = id
    \/ \E w \in Workers : pc[w] \in Busy /\ current[w] = id

(* An active job is the one its fingerprint finds. *)
Registered ==
  \A id \in JobId : jobs[id].status \in Active =>
    /\ jobs[id].fingerprint \in Fingerprints
    /\ activeFingerprints[jobs[id].fingerprint] = id

(* Identifiers not drawn yet name no job. *)
Fresh == \A id \in JobId : id >= nextId => jobs[id] = NoJob

(* A worker leaves when the queue is closed and drained. *)
Drained ==
  /\ \A w \in Workers : pc[w] = "exited" => shuttingDown /\ queue = <<>>
  /\ shutdown = "returned" => AllExited

IInv == TypeOK /\ Statuses /\ OnePlace /\ Somewhere /\ Registered /\ Fresh /\ Drained

-----------------------------------------------------------------------------
(* Lemmas on the queue                                                     *)

LEMMA TailElements ==
  ASSUME NEW S, NEW s \in Seq(S), s # <<>>
  PROVE  /\ Head(s) \in S /\ Head(s) = s[1] /\ 1 \in 1 .. Len(s)
         /\ Tail(s) \in Seq(S) /\ Len(Tail(s)) = Len(s) - 1
         /\ \A i \in 1 .. Len(Tail(s)) : i + 1 \in 1 .. Len(s) /\ Tail(s)[i] = s[i + 1]
         /\ \A i \in 1 .. Len(s) :
              i # 1 => i - 1 \in 1 .. Len(Tail(s)) /\ Tail(s)[i - 1] = s[i]
  OBVIOUS

LEMMA AppendElements ==
  ASSUME NEW S, NEW s \in Seq(S), NEW x \in S
  PROVE  /\ Append(s, x) \in Seq(S) /\ Len(Append(s, x)) = Len(s) + 1
         /\ \A i \in 1 .. Len(s) : i \in 1 .. Len(s) + 1 /\ Append(s, x)[i] = s[i]
         /\ Len(s) + 1 \in 1 .. Len(s) + 1 /\ Append(s, x)[Len(s) + 1] = x
  OBVIOUS

-----------------------------------------------------------------------------
(* What the end of a job does to the history: it deletes ended jobs only,  *)
(* the one that has just ended included.                                   *)
LEMMA FinishEffect ==
  ASSUME TypeOK, NEW id \in JobId, InHistory(id), NEW outcome \in Terminal,
         FinishJob(id, outcome)
  PROVE  /\ jobs' \in [JobId -> Job]
         /\ \A j \in JobId :
              \/ jobs'[j] = NoJob /\ (j = id \/ jobs[j].status \in Terminal)
              \/ j = id /\ jobs'[j] = [jobs[j] EXCEPT !.status = outcome]
              \/ j # id /\ jobs'[j] = jobs[j]
         /\ activeFingerprints' = Released(id)
         /\ activeFingerprints' \in [Fingerprints -> JobId \cup {NoId}]
         /\ idempotencyKeys' \in [Keys -> JobId \cup {NoId}]
  <1> DEFINE trimmed == TrimmedWith(id)
  <1>1. /\ jobs' = [j \in JobId |->
                     IF j \in trimmed THEN NoJob
                     ELSE IF j = id THEN [jobs[j] EXCEPT !.status = outcome]
                     ELSE jobs[j]]
        /\ activeFingerprints' = Released(id)
        /\ idempotencyKeys' = KeysWithout(trimmed)
    BY DEF FinishJob
  <1>2. \A j \in trimmed : j = id \/ jobs[j].status \in Terminal
    BY DEF TrimmedWith, Oldest
  <1> HIDE DEF trimmed
  <1>3. NoJob \in Job
    BY DEF NoJob, Job
  <1>4. \A j \in JobId : jobs[j] \in Job /\ [jobs[j] EXCEPT !.status = outcome] \in Job
    BY DEF TypeOK, Job
  <1>5. jobs' \in [JobId -> Job]
    BY <1>1, <1>3, <1>4
  <1>6. activeFingerprints' \in [Fingerprints -> JobId \cup {NoId}]
    BY <1>1 DEF Released, TypeOK
  <1>7. idempotencyKeys' \in [Keys -> JobId \cup {NoId}]
    BY <1>1 DEF KeysWithout, TypeOK
  <1> QED BY <1>1, <1>2, <1>5, <1>6, <1>7

-----------------------------------------------------------------------------
LEMMA InitInv == Init => IInv
  <1> SUFFICES ASSUME Init PROVE IInv
    OBVIOUS
  <1>1. NoJob \in Job /\ NoJob.status = "none" /\ NoJob.status \notin Active
    BY DEF NoJob, Job, Active
  <1>2. TypeOK
    <2>1. jobs \in [JobId -> Job] /\ nextId \in 1 .. MaxJobs + 1
      BY <1>1, SizesAssumption DEF Init
    <2>2. queue \in Seq(JobId) /\ Len(queue) <= QueueSize
      BY SizesAssumption DEF Init
    <2> QED BY <2>1, <2>2 DEF Init, TypeOK
  <1>3. Statuses /\ OnePlace
    BY DEF Init, Statuses, OnePlace, Busy
  <1>4. Somewhere /\ Registered /\ Fresh
    BY <1>1 DEF Init, Somewhere, Registered, Fresh
  <1>5. Drained
    BY DEF Init, Drained
  <1> QED BY <1>2, <1>3, <1>4, <1>5 DEF IInv

(* Only the maps change: a request joins an active job, or the queue is    *)
(* full and the fingerprint finds no job.                                  *)
LEMMA MapsInv ==
  ASSUME IInv, NEW key \in Keys \cup {NoKey}, NEW fingerprint \in Fingerprints,
         JoinActive(key, fingerprint) \/ RefuseFull(key, fingerprint)
  PROVE  IInv'
  <1>1. UNCHANGED <<jobs, nextId, queue, closing, pc, current>>
    BY DEF JoinActive, RefuseFull
  <1>2. idempotencyKeys' \in [Keys -> JobId \cup {NoId}]
    BY DEF IInv, TypeOK, JoinActive, RefuseFull, WithKey, NoId
  <1>3. activeFingerprints' \in [Fingerprints -> JobId \cup {NoId}]
    BY DEF IInv, TypeOK, JoinActive, RefuseFull, NoId
  <1>4. TypeOK'
    BY <1>1, <1>2, <1>3 DEF IInv, TypeOK, closing
  <1>5. Registered'
    <2>1. CASE JoinActive(key, fingerprint)
      BY <1>1, <2>1 DEF IInv, Registered, JoinActive
    <2>2. CASE RefuseFull(key, fingerprint)
      BY <1>1, <2>2
      DEF IInv, TypeOK, Registered, RefuseFull, FingerprintHit, InHistory, NoId, Active, JobId
    <2> QED BY <2>1, <2>2
  <1>6. (Statuses /\ OnePlace /\ Somewhere /\ Fresh /\ Drained)'
    BY <1>1 DEF IInv, Statuses, OnePlace, Somewhere, Fresh, Drained, AllExited, closing
  <1> QED BY <1>4, <1>5, <1>6 DEF IInv

LEMMA EnqueueInv ==
  ASSUME IInv, NEW key \in Keys \cup {NoKey}, NEW fingerprint \in Fingerprints,
         Enqueue(key, fingerprint)
  PROVE  IInv'
  <1> DEFINE job == [status |-> "queued", key |-> key, fingerprint |-> fingerprint]
  <1>1. /\ queue' = Append(queue, nextId)
        /\ jobs' = [jobs EXCEPT ![nextId] = job]
        /\ nextId' = nextId + 1
        /\ activeFingerprints' = [activeFingerprints EXCEPT ![fingerprint] = nextId]
        /\ UNCHANGED <<closing, pc, current>>
        /\ ~shuttingDown /\ ~FingerprintHit(fingerprint) /\ Len(queue) < QueueSize
    BY DEF Enqueue, NewRequest, HasRoom
  <1>2. /\ nextId \in JobId /\ nextId' \in 1 .. MaxJobs + 1
    BY SizesAssumption DEF Enqueue, IInv, TypeOK, JobId
  <1>3. /\ job \in Job /\ job.status = "queued" /\ job.fingerprint = fingerprint
        /\ "queued" \in Active
    BY DEF Job, Active
  <1> HIDE DEF job
  <1>4. /\ queue \in Seq(JobId) /\ queue' \in Seq(JobId) /\ Len(queue') = Len(queue) + 1
        /\ \A i \in 1 .. Len(queue) : i \in 1 .. Len(queue') /\ queue'[i] = queue[i]
        /\ Len(queue') \in 1 .. Len(queue') /\ queue'[Len(queue')] = nextId
    <2>1. queue \in Seq(JobId)
      BY DEF IInv, TypeOK
    <2> QED BY <1>1, <1>2, <2>1, AppendElements
  <1>5. jobs[nextId].status = "none" /\ jobs' \in [JobId -> Job]
        /\ jobs'[nextId] = job
        /\ \A id \in JobId : id # nextId => jobs'[id] = jobs[id]
    BY <1>1, <1>2, <1>3 DEF IInv, TypeOK, Fresh, NoJob, JobId
  <1>6. TypeOK'
    <2>1. idempotencyKeys' \in [Keys -> JobId \cup {NoId}]
      BY <1>2 DEF IInv, TypeOK, Enqueue, WithKey
    <2>2. activeFingerprints' \in [Fingerprints -> JobId \cup {NoId}]
      BY <1>1, <1>2 DEF IInv, TypeOK
    <2>3. Len(queue') <= QueueSize
      BY <1>1, <1>4, SizesAssumption
    <2> QED BY <1>1, <1>2, <1>4, <1>5, <2>1, <2>2, <2>3 DEF IInv, TypeOK, closing
  <1>7. /\ \A i \in 1 .. Len(queue) : queue[i] # nextId
        /\ \A w \in Workers : pc[w] \in Busy => current[w] # nextId
    BY <1>5 DEF IInv, Statuses
  <1>8. ASSUME NEW i \in 1 .. Len(queue')
        PROVE  \/ i \in 1 .. Len(queue) /\ queue'[i] = queue[i]
               \/ i = Len(queue') /\ queue'[i] = nextId
    BY <1>4
  <1>9. Statuses'
    <2>1. ASSUME NEW i \in 1 .. Len(queue')
          PROVE  jobs'[queue'[i]].status = "queued"
      <3>1. CASE i \in 1 .. Len(queue) /\ queue'[i] = queue[i]
        <4>1. queue[i] \in JobId /\ queue[i] # nextId
          BY <1>4, <1>7, <3>1
        <4> QED BY <1>5, <3>1, <4>1 DEF IInv, Statuses
      <3>2. CASE queue'[i] = nextId
        BY <1>3, <1>5, <3>2
      <3> QED BY <1>8, <3>1, <3>2
    <2>2. ASSUME NEW w \in Workers, pc'[w] \in Busy
          PROVE  /\ current'[w] \in JobId
                 /\ jobs'[current'[w]].status =
                      IF pc'[w] = "running" THEN "running" ELSE "queued"
      BY <1>1, <1>5, <1>7, <2>2 DEF IInv, Statuses
    <2> QED BY <2>1, <2>2 DEF Statuses, Busy
  <1>10. OnePlace'
    <2>1. ASSUME NEW i \in 1 .. Len(queue'), NEW j \in 1 .. Len(queue'),
                 queue'[i] = queue'[j]
          PROVE  i = j
      BY <1>7, <1>8, <2>1 DEF IInv, OnePlace
    <2>2. ASSUME NEW w \in Workers, NEW i \in 1 .. Len(queue'), pc'[w] \in Busy
          PROVE  queue'[i] # current'[w]
      BY <1>1, <1>7, <1>8, <2>2 DEF IInv, OnePlace
    <2> QED BY <1>1, <2>1, <2>2 DEF IInv, OnePlace, Busy
  <1>11. Somewhere'
    <2> SUFFICES ASSUME NEW id \in JobId, jobs'[id].status \in Active
                 PROVE  \/ \E i \in 1 .. Len(queue') : queue'[i] = id
                        \/ \E w \in Workers : pc'[w] \in Busy /\ current'[w] = id
      BY DEF Somewhere, Busy, Active
    <2>1. CASE id = nextId
      BY <1>4, <2>1
    <2>2. CASE id # nextId
      BY <1>1, <1>4, <1>5, <2>2 DEF IInv, Somewhere
    <2> QED BY <2>1, <2>2
  <1>12. Registered'
    <2> SUFFICES ASSUME NEW id \in JobId, jobs'[id].status \in Active
                 PROVE  /\ jobs'[id].fingerprint \in Fingerprints
                        /\ activeFingerprints'[jobs'[id].fingerprint] = id
      BY DEF Registered, Active
    <2>1. CASE id = nextId
      BY <1>1, <1>3, <1>5, <2>1 DEF IInv, TypeOK
    <2>2. CASE id # nextId
      <3>1. /\ jobs[id].status \in Active /\ jobs[id].fingerprint \in Fingerprints
            /\ activeFingerprints[jobs[id].fingerprint] = id /\ id # NoId
        BY <1>5, <2>2 DEF IInv, Registered, JobId, NoId
      <3>2. jobs[id].fingerprint # fingerprint
        BY <1>1, <3>1 DEF FingerprintHit, InHistory, Active
      <3> QED BY <1>1, <1>5, <2>2, <3>1, <3>2 DEF IInv, TypeOK
    <2> QED BY <2>1, <2>2
  <1>13. Fresh'
    <2> SUFFICES ASSUME NEW id \in JobId, id >= nextId + 1 PROVE jobs'[id] = NoJob
      BY <1>1 DEF Fresh, NoJob
    <2>1. id # nextId /\ id >= nextId
      BY <1>2 DEF JobId
    <2> QED BY <1>5, <2>1 DEF IInv, Fresh
  <1>14. Drained'
    BY <1>1 DEF IInv, Drained, AllExited, closing
  <1> QED BY <1>6, <1>9, <1>10, <1>11, <1>12, <1>13, <1>14 DEF IInv

(* A worker steps on without touching the history. *)
LEMMA ReceiveInv ==
  ASSUME IInv, NEW w \in Workers, Receive(w)
  PROVE  IInv'
  <1>1. /\ pc[w] = "receive" /\ queue # <<>>
        /\ current' = [current EXCEPT ![w] = Head(queue)]
        /\ queue' = Tail(queue)
        /\ pc' = [pc EXCEPT ![w] = "received"]
        /\ UNCHANGED <<jobs, nextId, maps, closing>>
    BY DEF Receive
  <1>2. /\ Head(queue) \in JobId /\ Head(queue) = queue[1] /\ 1 \in 1 .. Len(queue)
        /\ queue' \in Seq(JobId) /\ Len(queue') = Len(queue) - 1
        /\ \A i \in 1 .. Len(queue') : i + 1 \in 1 .. Len(queue) /\ queue'[i] = queue[i + 1]
        /\ \A i \in 1 .. Len(queue) :
             i # 1 => i - 1 \in 1 .. Len(queue') /\ queue'[i - 1] = queue[i]
    <2>1. queue \in Seq(JobId)
      BY DEF IInv, TypeOK
    <2> QED BY <1>1, <2>1, TailElements
  <1>3. /\ pc'[w] = "received" /\ current'[w] = queue[1]
        /\ \A v \in Workers : v # w => pc'[v] = pc[v] /\ current'[v] = current[v]
    BY <1>1, <1>2 DEF IInv, TypeOK
  <1>4. TypeOK'
    <2>1. Len(queue') <= QueueSize
      BY <1>2, SizesAssumption DEF IInv, TypeOK
    <2>2. /\ pc' \in [Workers -> {"receive", "received", "starting", "running", "exited"}]
          /\ current' \in [Workers -> JobId \cup {NoId}]
      BY <1>1, <1>2 DEF IInv, TypeOK
    <2> QED BY <1>1, <1>2, <2>1, <2>2 DEF IInv, TypeOK, maps, closing
  <1>5. Statuses'
    <2>1. \A i \in 1 .. Len(queue') : jobs'[queue'[i]].status = "queued"
      BY <1>1, <1>2 DEF IInv, Statuses
    <2>2. ASSUME NEW v \in Workers, pc'[v] \in Busy
          PROVE  /\ current'[v] \in JobId
                 /\ jobs'[current'[v]].status =
                      IF pc'[v] = "running" THEN "running" ELSE "queued"
      BY <1>1, <1>2, <1>3, <2>2 DEF IInv, Statuses
    <2> QED BY <2>1, <2>2 DEF Statuses, Busy
  <1>6. OnePlace'
    <2>1. ASSUME NEW i \in 1 .. Len(queue'), NEW j \in 1 .. Len(queue'),
                 queue'[i] = queue'[j]
          PROVE  i = j
      <3>1. i + 1 = j + 1
        BY <1>2, <2>1 DEF IInv, OnePlace
      <3> QED BY <3>1
    <2>2. ASSUME NEW v \in Workers, NEW i \in 1 .. Len(queue'), pc'[v] \in Busy
          PROVE  queue'[i] # current'[v]
      <3>1. i + 1 \in 1 .. Len(queue) /\ queue'[i] = queue[i + 1] /\ i + 1 # 1
        BY <1>2
      <3>2. CASE v = w
        BY <1>2, <1>3, <3>1, <3>2 DEF IInv, OnePlace
      <3>3. CASE v # w
        BY <1>3, <2>2, <3>1, <3>3 DEF IInv, OnePlace
      <3> QED BY <3>2, <3>3
    <2>3. ASSUME NEW u \in Workers, NEW v \in Workers,
                 pc'[u] \in Busy, pc'[v] \in Busy, current'[u] = current'[v]
          PROVE  u = v
      BY <1>2, <1>3, <2>3 DEF IInv, OnePlace
    <2> QED BY <2>1, <2>2, <2>3 DEF OnePlace, Busy
  <1>7. Somewhere'
    <2> SUFFICES ASSUME NEW id \in JobId, jobs'[id].status \in Active
                 PROVE  \/ \E i \in 1 .. Len(queue') : queue'[i] = id
                        \/ \E v \in Workers : pc'[v] \in Busy /\ current'[v] = id
      BY DEF Somewhere, Busy, Active
    <2>1. CASE \E v \in Workers : pc[v] \in Busy /\ current[v] = id
      <3>1. PICK v \in Workers : pc[v] \in Busy /\ current[v] = id
        BY <2>1
      <3>2. v # w
        BY <1>1, <3>1 DEF Busy
      <3> QED BY <1>3, <3>1, <3>2
    <2>2. CASE \E i \in 1 .. Len(queue) : queue[i] = id
      <3>1. PICK i \in 1 .. Len(queue) : queue[i] = id
        BY <2>2
      <3>2. CASE i = 1
        BY <1>3, <3>1, <3>2 DEF Busy
      <3>3. CASE i # 1
        BY <1>2, <3>1, <3>3
      <3> QED BY <3>2, <3>3
    <2> QED BY <1>1, <2>1, <2>2 DEF IInv, Somewhere
  <1>8. (Registered /\ Fresh)'
    BY <1>1 DEF IInv, Registered, Fresh, maps, NoJob
  <1>9. Drained'
    BY <1>1, <1>3 DEF IInv, Drained, AllExited, closing
  <1> QED BY <1>4, <1>5, <1>6, <1>7, <1>8, <1>9 DEF IInv

LEMMA AdmitInv ==
  ASSUME IInv, NEW w \in Workers, Admit(w)
  PROVE  IInv'
  <1>1. /\ pc[w] = "received" /\ pc' = [pc EXCEPT ![w] = "starting"]
        /\ UNCHANGED <<jobs, nextId, queue, maps, closing, current>>
    BY DEF Admit
  <1>2. /\ pc'[w] = "starting"
        /\ \A v \in Workers : v # w => pc'[v] = pc[v]
        /\ pc' \in [Workers -> {"receive", "received", "starting", "running", "exited"}]
    BY <1>1 DEF IInv, TypeOK
  <1>3. \A v \in Workers : pc'[v] \in Busy <=> pc[v] \in Busy
    BY <1>1, <1>2 DEF Busy
  <1>4. TypeOK'
    BY <1>1, <1>2 DEF IInv, TypeOK, maps, closing
  <1>5. Statuses'
    BY <1>1, <1>2, <1>3 DEF IInv, Statuses, Busy
  <1>6. (OnePlace /\ Somewhere)'
    BY <1>1, <1>3 DEF IInv, OnePlace, Somewhere, Busy, Active
  <1>7. (Registered /\ Fresh /\ Drained)'
    BY <1>1, <1>2 DEF IInv, Registered, Fresh, Drained, AllExited, maps, closing
  <1> QED BY <1>4, <1>5, <1>6, <1>7 DEF IInv

LEMMA ExitInv ==
  ASSUME IInv, NEW w \in Workers, Exit(w)
  PROVE  IInv'
  <1>1. /\ pc[w] = "receive" /\ pc' = [pc EXCEPT ![w] = "exited"]
        /\ shuttingDown /\ queue = <<>>
        /\ UNCHANGED <<jobs, nextId, queue, maps, closing, current>>
    BY DEF Exit
  <1>2. /\ pc'[w] = "exited"
        /\ \A v \in Workers : v # w => pc'[v] = pc[v]
        /\ pc' \in [Workers -> {"receive", "received", "starting", "running", "exited"}]
    BY <1>1 DEF IInv, TypeOK
  <1>3. \A v \in Workers : pc'[v] \in Busy <=> pc[v] \in Busy
    BY <1>1, <1>2 DEF Busy
  <1>4. TypeOK'
    BY <1>1, <1>2 DEF IInv, TypeOK, maps, closing
  <1>5. Statuses'
    BY <1>1, <1>2, <1>3 DEF IInv, Statuses, Busy
  <1>6. (OnePlace /\ Somewhere)'
    BY <1>1, <1>3 DEF IInv, OnePlace, Somewhere, Busy, Active
  <1>7. (Registered /\ Fresh /\ Drained)'
    BY <1>1, <1>2 DEF IInv, Registered, Fresh, Drained, AllExited, maps, closing
  <1> QED BY <1>4, <1>5, <1>6, <1>7 DEF IInv

LEMMA StartInv ==
  ASSUME IInv, NEW w \in Workers, StartRunning(w)
  PROVE  IInv'
  <1> DEFINE id == current[w]
  <1>1. /\ pc[w] = "starting" /\ pc[w] \in Busy /\ id \in JobId
        /\ jobs[id].status = "queued"
    BY DEF IInv, Statuses, StartRunning, Busy
  <1>2. /\ jobs' = [jobs EXCEPT ![id].status = "running"]
        /\ pc' = [pc EXCEPT ![w] = "running"]
        /\ UNCHANGED <<nextId, queue, maps, closing, current>>
    BY <1>1 DEF StartRunning, InHistory, JobId, NoId
  <1>3. /\ pc'[w] = "running"
        /\ \A v \in Workers : v # w => pc'[v] = pc[v]
        /\ pc' \in [Workers -> {"receive", "received", "starting", "running", "exited"}]
        /\ \A v \in Workers : pc'[v] \in Busy <=> pc[v] \in Busy
    BY <1>1, <1>2 DEF IInv, TypeOK, Busy
  <1>4. /\ jobs' \in [JobId -> Job]
        /\ jobs'[id].status = "running" /\ jobs'[id].fingerprint = jobs[id].fingerprint
        /\ \A j \in JobId : j # id => jobs'[j] = jobs[j]
        /\ \A j \in JobId : jobs'[j].status \in Active <=> jobs[j].status \in Active
    BY <1>1, <1>2 DEF IInv, TypeOK, Job, Active
  <1> HIDE DEF id
  <1>5. TypeOK'
    BY <1>2, <1>3, <1>4 DEF IInv, TypeOK, maps, closing
  <1>6. Statuses'
    <2>1. ASSUME NEW i \in 1 .. Len(queue') PROVE jobs'[queue'[i]].status = "queued"
      <3>1. i \in 1 .. Len(queue) /\ queue'[i] = queue[i] /\ queue[i] \in JobId
        BY <1>2, <2>1 DEF IInv, TypeOK
      <3>2. queue[i] # id
        BY <1>1, <3>1 DEF IInv, OnePlace, id
      <3> QED BY <1>4, <3>1, <3>2 DEF IInv, Statuses
    <2>2. ASSUME NEW v \in Workers, pc'[v] \in Busy
          PROVE  /\ current'[v] \in JobId
                 /\ jobs'[current'[v]].status =
                      IF pc'[v] = "running" THEN "running" ELSE "queued"
      <3>1. CASE v = w
        BY <1>1, <1>2, <1>3, <1>4, <3>1 DEF id
      <3>2. CASE v # w
        <4>1. pc[v] \in Busy /\ pc'[v] = pc[v] /\ current'[v] = current[v]
          BY <1>2, <1>3, <2>2, <3>2
        <4>2. current[v] # id
          BY <1>1, <3>2, <4>1 DEF IInv, OnePlace, id
        <4> QED BY <1>4, <4>1, <4>2 DEF IInv, Statuses
      <3> QED BY <3>1, <3>2
    <2> QED BY <2>1, <2>2 DEF Statuses, Busy
  <1>7. OnePlace'
    BY <1>2, <1>3 DEF IInv, OnePlace, Busy
  <1>8. Somewhere'
    BY <1>2, <1>3, <1>4 DEF IInv, Somewhere, Busy, Active
  <1>9. Registered'
    BY <1>2, <1>4 DEF IInv, Registered, Active, maps
  <1>10. Fresh'
    <2> SUFFICES ASSUME NEW j \in JobId, j >= nextId PROVE jobs'[j] = NoJob
      BY <1>2 DEF Fresh, NoJob
    <2>1. jobs[j] = NoJob
      BY DEF IInv, Fresh
    <2>2. j # id
      BY <1>1, <2>1 DEF NoJob
    <2> QED BY <1>4, <2>1, <2>2
  <1>11. Drained'
    BY <1>1, <1>2, <1>3 DEF IInv, Drained, AllExited, closing
  <1> QED BY <1>5, <1>6, <1>7, <1>8, <1>9, <1>10, <1>11 DEF IInv

(* A worker ends the job it holds, which no other place holds. *)
LEMMA FinishInv ==
  ASSUME IInv, NEW w \in Workers, pc[w] \in {"received", "running"},
         NEW outcome \in Terminal, Finish(w, outcome)
  PROVE  IInv'
  <1> DEFINE id == current[w]
  <1>1. /\ pc[w] \in Busy /\ id \in JobId
        /\ jobs[id].status \in Active /\ InHistory(id)
    BY DEF IInv, Statuses, Busy, Active, InHistory, NoId, JobId
  <1>2. /\ FinishJob(id, outcome)
        /\ pc' = [pc EXCEPT ![w] = "receive"]
        /\ current' = [current EXCEPT ![w] = NoId]
        /\ UNCHANGED <<nextId, queue, closing>>
    BY DEF Finish
  <1> HIDE DEF id
  <1>3. /\ jobs' \in [JobId -> Job]
        /\ \A j \in JobId :
             \/ jobs'[j] = NoJob /\ (j = id \/ jobs[j].status \in Terminal)
             \/ j = id /\ jobs'[j] = [jobs[j] EXCEPT !.status = outcome]
             \/ j # id /\ jobs'[j] = jobs[j]
        /\ activeFingerprints' = Released(id)
        /\ activeFingerprints' \in [Fingerprints -> JobId \cup {NoId}]
        /\ idempotencyKeys' \in [Keys -> JobId \cup {NoId}]
    BY <1>1, <1>2, FinishEffect DEF IInv
  <1>4. /\ pc'[w] = "receive" /\ pc'[w] \notin Busy
        /\ \A v \in Workers : v # w => pc'[v] = pc[v] /\ current'[v] = current[v]
        /\ pc' \in [Workers -> {"receive", "received", "starting", "running", "exited"}]
        /\ current' \in [Workers -> JobId \cup {NoId}]
    BY <1>2 DEF IInv, TypeOK, Busy
  <1>5. /\ \A j \in JobId : jobs[j].status \in Active /\ j # id => jobs'[j] = jobs[j]
        /\ \A j \in JobId : jobs'[j].status \in Active => j # id /\ jobs'[j] = jobs[j]
    <2>1. /\ NoJob.status \notin Active /\ outcome \notin Active
          /\ \A j \in JobId : jobs[j].status \in Active => jobs[j].status \notin Terminal
      BY DEF NoJob, Active, Terminal
    <2>2. \A j \in JobId : [jobs[j] EXCEPT !.status = outcome].status = outcome
      BY DEF IInv, TypeOK, Job
    <2> QED BY <1>3, <2>1, <2>2
  <1>6. TypeOK'
    BY <1>2, <1>3, <1>4 DEF IInv, TypeOK, closing
  <1>7. Statuses'
    <2>1. ASSUME NEW i \in 1 .. Len(queue') PROVE jobs'[queue'[i]].status = "queued"
      <3>1. i \in 1 .. Len(queue) /\ queue'[i] = queue[i] /\ queue[i] \in JobId
        BY <1>2, <2>1 DEF IInv, TypeOK
      <3>2. queue[i] # id /\ jobs[queue[i]].status = "queued"
        BY <1>1, <3>1 DEF IInv, OnePlace, Statuses, id
      <3> QED BY <1>5, <3>1, <3>2 DEF Active
    <2>2. ASSUME NEW v \in Workers, pc'[v] \in Busy
          PROVE  /\ current'[v] \in JobId
                 /\ jobs'[current'[v]].status =
                      IF pc'[v] = "running" THEN "running" ELSE "queued"
      <3>1. v # w /\ pc[v] \in Busy /\ pc'[v] = pc[v] /\ current'[v] = current[v]
        BY <1>4, <2>2
      <3>2. /\ current[v] # id /\ current[v] \in JobId
            /\ jobs[current[v]].status = IF pc[v] = "running" THEN "running" ELSE "queued"
        BY <1>1, <3>1 DEF IInv, OnePlace, Statuses, id
      <3> QED BY <1>5, <3>1, <3>2 DEF Active
    <2> QED BY <2>1, <2>2 DEF Statuses, Busy
  <1>8. OnePlace'
    BY <1>2, <1>4 DEF IInv, OnePlace, Busy
  <1>9. Somewhere'
    <2> SUFFICES ASSUME NEW j \in JobId, jobs'[j].status \in Active
                 PROVE  \/ \E i \in 1 .. Len(queue') : queue'[i] = j
                        \/ \E v \in Workers : pc'[v] \in Busy /\ current'[v] = j
      BY DEF Somewhere, Busy, Active
    <2>1. j # id /\ jobs[j].status \in Active
      BY <1>5
    <2>2. CASE \E i \in 1 .. Len(queue) : queue[i] = j
      BY <1>2, <2>2
    <2>3. CASE \E v \in Workers : pc[v] \in Busy /\ current[v] = j
      <3>1. PICK v \in Workers : pc[v] \in Busy /\ current[v] = j
        BY <2>3
      <3>2. v # w
        BY <2>1, <3>1 DEF id
      <3> QED BY <1>4, <3>1, <3>2
    <2> QED BY <2>1, <2>2, <2>3 DEF IInv, Somewhere
  <1>10. Registered'
    <2> SUFFICES ASSUME NEW j \in JobId, jobs'[j].status \in Active
                 PROVE  /\ jobs'[j].fingerprint \in Fingerprints
                        /\ activeFingerprints'[jobs'[j].fingerprint] = j
      BY DEF Registered, Active
    <2>1. j # id /\ jobs'[j] = jobs[j] /\ jobs[j].status \in Active
      BY <1>5
    <2>2. /\ jobs[j].fingerprint \in Fingerprints
          /\ activeFingerprints[jobs[j].fingerprint] = j
      BY <2>1 DEF IInv, Registered
    <2> QED BY <1>3, <2>1, <2>2 DEF IInv, TypeOK, Released
  <1>11. Fresh'
    <2> SUFFICES ASSUME NEW j \in JobId, j >= nextId PROVE jobs'[j] = NoJob
      BY <1>2 DEF Fresh, NoJob
    <2>1. jobs[j] = NoJob
      BY DEF IInv, Fresh
    <2>2. j # id
      BY <1>1, <2>1 DEF NoJob, Active
    <2> QED BY <1>3, <2>1, <2>2
  <1>12. Drained'
    BY <1>2, <1>4 DEF IInv, Drained, AllExited, closing, Busy
  <1> QED BY <1>6, <1>7, <1>8, <1>9, <1>10, <1>11, <1>12 DEF IInv

LEMMA ShutdownInv ==
  ASSUME IInv, CloseQueue \/ CancelWorkers \/ Return \/ CancelParent
  PROVE  IInv'
  <1>1. /\ UNCHANGED <<jobs, nextId, queue, maps, pc, current>>
        /\ shuttingDown' \in BOOLEAN /\ canceled' \in BOOLEAN
        /\ shutdown' \in {"none", "closed", "waiting", "returned", "timedOut"}
        /\ shuttingDown => shuttingDown'
        /\ shutdown' = "returned" => shutdown = "returned" \/ AllExited
    BY DEF IInv, TypeOK, CloseQueue, CancelWorkers, Return, CancelParent
  <1>2. TypeOK'
    BY <1>1 DEF IInv, TypeOK, maps
  <1>3. (Statuses /\ OnePlace /\ Somewhere /\ Registered /\ Fresh)'
    BY <1>1 DEF IInv, Statuses, OnePlace, Somewhere, Registered, Fresh, Busy, Active,
       NoJob, maps
  <1>4. Drained'
    BY <1>1 DEF IInv, Drained, AllExited
  <1> QED BY <1>2, <1>3, <1>4 DEF IInv

LEMMA NextInv == IInv /\ [Next]_vars => IInv'
  <1> SUFFICES ASSUME IInv, [Next]_vars PROVE IInv'
    OBVIOUS
  <1>1. ASSUME NEW key \in Keys \cup {NoKey}, NEW fingerprint \in Fingerprints,
               Submit(key, fingerprint)
        PROVE  IInv'
    BY <1>1, MapsInv, EnqueueInv DEF Submit
  <1>2. ASSUME NEW w \in Workers, Work(w) PROVE IInv'
    <2>1. CASE SkipCanceled(w)
      BY <2>1, FinishInv DEF SkipCanceled, Terminal
    <2>2. CASE RunReturns(w)
      BY <2>2, FinishInv DEF RunReturns
    <2> QED BY <1>2, <2>1, <2>2, ReceiveInv, AdmitInv, ExitInv, StartInv DEF Work
  <1>3. CASE CloseQueue \/ CancelWorkers \/ Return \/ CancelParent
    BY <1>3, ShutdownInv
  <1>4. CASE UNCHANGED vars
    BY <1>4 DEF vars, maps, closing, IInv, TypeOK, Statuses, OnePlace, Somewhere,
       Registered, Fresh, Drained, AllExited, Busy, Active, NoJob, Job, JobId
  <1> QED BY <1>1, <1>2, <1>3, <1>4 DEF Next

LEMMA Invariance == Spec => []IInv
  BY InitInv, NextInv, PTL DEF Spec

-----------------------------------------------------------------------------
(* Every variable keeps its type; the queue never overflows. *)
THEOREM TypeCorrect == Spec => []TypeOK
  <1>1. IInv => TypeOK
    BY DEF IInv
  <1> QED BY <1>1, Invariance, PTL

(* The active jobs of the history are exactly those of the queue and of    *)
(* the workers, each in one place: none is lost, none is run twice.        *)
THEOREM NoJobLost == Spec => []JobsAccountedFor
  <1>1. ASSUME IInv PROVE JobsAccountedFor
    <2>1. {id \in JobId : jobs[id].status = "queued"} =
            Queued \cup Held({"received", "starting"})
      <3>1. ASSUME NEW id \in JobId, jobs[id].status = "queued"
            PROVE  id \in Queued \cup Held({"received", "starting"})
        <4>1. CASE \E i \in 1 .. Len(queue) : queue[i] = id
          BY <4>1 DEF Queued
        <4>2. CASE \E w \in Workers : pc[w] \in Busy /\ current[w] = id
          BY <1>1, <3>1, <4>2 DEF IInv, Statuses, Held, Busy
        <4> QED BY <1>1, <3>1, <4>1, <4>2 DEF IInv, Somewhere, Active
      <3>2. ASSUME NEW id \in Queued \cup Held({"received", "starting"})
            PROVE  id \in JobId /\ jobs[id].status = "queued"
        <4>1. CASE id \in Queued
          BY <1>1, <4>1 DEF IInv, TypeOK, Statuses, Queued
        <4>2. CASE id \in Held({"received", "starting"})
          BY <1>1, <4>2 DEF IInv, Statuses, Held, Busy
        <4> QED BY <4>1, <4>2
      <3> QED BY <3>1, <3>2
    <2>2. {id \in JobId : jobs[id].status = "running"} = Held({"running"})
      <3>1. ASSUME NEW id \in JobId, jobs[id].status = "running"
            PROVE  id \in Held({"running"})
        <4>1. ~ \E i \in 1 .. Len(queue) : queue[i] = id
          BY <1>1, <3>1 DEF IInv, Statuses
        <4>2. PICK w \in Workers : pc[w] \in Busy /\ current[w] = id
          BY <1>1, <3>1, <4>1 DEF IInv, Somewhere, Active
        <4>3. pc[w] = "running"
          BY <1>1, <3>1, <4>2 DEF IInv, Statuses
        <4> QED BY <4>2, <4>3 DEF Held
      <3>2. ASSUME NEW id \in Held({"running"})
            PROVE  id \in JobId /\ jobs[id].status = "running"
        BY <1>1 DEF IInv, Statuses, Held, Busy
      <3> QED BY <3>1, <3>2
    <2>3. \A w \in Workers : pc[w] \in Busy => current[w] \notin Queued
      BY <1>1 DEF IInv, OnePlace, Queued
    <2>4. \A w \in Workers : pc[w] \in Busy =>
            \A v \in Workers : pc[v] \in Busy /\ current[v] = current[w] => v = w
      BY <1>1 DEF IInv, OnePlace
    <2>5. \A i, j \in 1 .. Len(queue) : queue[i] = queue[j] => i = j
      BY <1>1 DEF IInv, OnePlace
    <2> QED BY <2>1, <2>2, <2>3, <2>4, <2>5 DEF JobsAccountedFor
  <1> QED BY <1>1, Invariance, PTL

(* Two requests for the same work never run side by side. *)
THEOREM ActiveWorkUnique == Spec => []OneActivePerFingerprint
  <1>1. IInv => OneActivePerFingerprint
    BY DEF IInv, Registered, OneActivePerFingerprint
  <1> QED BY <1>1, Invariance, PTL

(* Once the workers have exited, whatever was submitted while Shutdown     *)
(* began, no job is left queued or running.                                *)
THEOREM NothingLeftActive == Spec => []ShutdownLeavesNoActiveJob
  <1>1. ASSUME IInv PROVE ShutdownLeavesNoActiveJob
    <2> SUFFICES ASSUME AllExited, NEW id \in JobId PROVE jobs[id].status \notin Active
      BY <1>1 DEF IInv, Drained, ShutdownLeavesNoActiveJob
    <2>1. PICK w \in Workers : TRUE
      BY SizesAssumption
    <2>2. queue = <<>>
      BY <1>1, <2>1 DEF IInv, Drained, AllExited
    <2>3. /\ ~ \E i \in 1 .. Len(queue) : queue[i] = id
          /\ ~ \E v \in Workers : pc[v] \in Busy
      BY <2>2 DEF AllExited, Busy
    <2> QED BY <1>1, <2>3 DEF IInv, Somewhere
  <1> QED BY <1>1, Invariance, PTL

-----------------------------------------------------------------------------
(* Idempotency keys                                                        *)

(* A step moves a key only when the job it stood for is not in the history *)
(* or leaves it in that step.                                              *)
LEMMA KeyStep ==
  ASSUME IInv, [Next]_vars, NEW key \in Keys, InHistory(idempotencyKeys[key])
  PROVE  idempotencyKeys'[key] \in {idempotencyKeys[key], NoId}
  <1>1. ASSUME NEW k \in Keys \cup {NoKey}, NEW fingerprint \in Fingerprints,
               Submit(k, fingerprint)
        PROVE  idempotencyKeys'[key] = idempotencyKeys[key]
    <2>1. k # key
      BY <1>1, NamesAssumption
      DEF Submit, JoinActive, Enqueue, RefuseFull, NewRequest, KeyHit
    <2>2. PICK id : idempotencyKeys' = WithKey(k, id)
      BY <1>1 DEF Submit, JoinActive, Enqueue, RefuseFull
    <2> QED BY <2>1, <2>2 DEF IInv, TypeOK, WithKey
  <1>2. ASSUME NEW w \in Workers, NEW outcome \in Terminal, Finish(w, outcome)
        PROVE  idempotencyKeys'[key] \in {idempotencyKeys[key], NoId}
    BY <1>2 DEF Finish, FinishJob, KeysWithout, maps
  <1>3. ASSUME NEW w \in Workers, Work(w)
        PROVE  idempotencyKeys'[key] \in {idempotencyKeys[key], NoId}
    <2>1. CASE SkipCanceled(w)
      BY <1>2, <2>1 DEF SkipCanceled, Terminal
    <2>2. CASE RunReturns(w)
      BY <1>2, <2>2 DEF RunReturns
    <2> QED BY <1>3, <2>1, <2>2 DEF Work, Receive, Exit, Admit, StartRunning, maps
  <1>4. CASE CloseQueue \/ CancelWorkers \/ Return \/ CancelParent \/ UNCHANGED vars
    BY <1>4 DEF CloseQueue, CancelWorkers, Return, CancelParent, vars, maps
  <1> QED BY <1>1, <1>3, <1>4 DEF Next

(* As long as its job is in the history, a key stands for that job. *)
THEOREM KeysKeepTheirJobs == Spec => KeyKeepsItsJob
  <1>1. ASSUME IInv, [Next]_vars
        PROVE  [\A key \in Keys :
                  (InHistory(idempotencyKeys[key]) /\ InHistory(idempotencyKeys[key])')
                    => idempotencyKeys'[key] = idempotencyKeys[key]]_vars
    <2> SUFFICES ASSUME NEW key \in Keys, InHistory(idempotencyKeys[key]),
                        InHistory(idempotencyKeys[key])'
                 PROVE  idempotencyKeys'[key] = idempotencyKeys[key]
      OBVIOUS
    <2>1. idempotencyKeys'[key] # NoId
      BY DEF InHistory
    <2> QED BY <1>1, <2>1, KeyStep
  <1> QED BY <1>1, Invariance, PTL DEF Spec, KeyKeepsItsJob

-----------------------------------------------------------------------------
(* The manager implements the ledger                                       *)

LEMMA InitLedger == Init => Ledger!Init
  BY DEF Init, Ledger!Init, LedgerStatus, InHistory, NoJob, JobId, NoId

(* A job accepted. *)
LEMMA EnqueueLedger ==
  ASSUME IInv, NEW key \in Keys \cup {NoKey}, NEW fingerprint \in Fingerprints,
         Enqueue(key, fingerprint)
  PROVE  Ledger!Accept(nextId, fingerprint)
  <1> DEFINE job == [status |-> "queued", key |-> key, fingerprint |-> fingerprint]
  <1>1. /\ nextId \in JobId /\ nextId # NoId
        /\ nextId' = nextId + 1
        /\ jobs' = [jobs EXCEPT ![nextId] = job]
        /\ ~FingerprintHit(fingerprint)
    BY SizesAssumption DEF IInv, TypeOK, Enqueue, JobId, NoId
  <1>2. /\ jobs[nextId].status = "none" /\ jobs'[nextId] = job
        /\ \A id \in JobId : id # nextId => jobs'[id] = jobs[id]
    BY <1>1 DEF IInv, TypeOK, Fresh, NoJob, JobId
  <1>3. LedgerStatus(nextId) = "none"
    BY <1>1, <1>2 DEF LedgerStatus, InHistory, JobId
  <1>4. \A other \in JobId :
          jobs[other].fingerprint = fingerprint => LedgerStatus(other) \notin Active
    BY <1>1 DEF IInv, Registered, FingerprintHit, LedgerStatus, InHistory, Active, NoId, JobId
  <1>5. \A id \in JobId :
          LedgerStatus(id)' = IF id = nextId THEN "queued" ELSE LedgerStatus(id)
    <2> SUFFICES ASSUME NEW id \in JobId
                 PROVE  LedgerStatus(id)' = IF id = nextId THEN "queued" ELSE LedgerStatus(id)
      OBVIOUS
    <2>1. CASE id = nextId
      BY <1>1, <1>2, <2>1 DEF LedgerStatus, InHistory, NoId
    <2>2. CASE id # nextId
      <3>1. id < nextId + 1 <=> id < nextId
        BY <1>1, <2>2 DEF JobId
      <3> QED BY <1>1, <1>2, <2>2, <3>1 DEF LedgerStatus, InHistory
    <2> QED BY <2>1, <2>2
  <1>6. \A id \in JobId :
          jobs'[id].fingerprint = IF id = nextId THEN fingerprint ELSE jobs[id].fingerprint
    BY <1>2
  <1> HIDE DEF job
  <1> QED BY <1>1, <1>3, <1>4, <1>5, <1>6 DEF Ledger!Accept, Ledger!Active, Active

LEMMA StartLedger ==
  ASSUME IInv, NEW w \in Workers, StartRunning(w)
  PROVE  Ledger!Begin(current[w])
  <1>1. /\ current[w] \in JobId /\ current[w] # NoId
        /\ jobs[current[w]].status = "queued"
    BY DEF IInv, Statuses, StartRunning, Busy, JobId, NoId
  <1>2. jobs' = [jobs EXCEPT ![current[w]].status = "running"] /\ nextId' = nextId
    BY <1>1 DEF StartRunning, InHistory
  <1>3. \A id \in JobId :
          /\ jobs'[id].fingerprint = jobs[id].fingerprint
          /\ jobs'[id].status = IF id = current[w] THEN "running" ELSE jobs[id].status
    BY <1>1, <1>2 DEF IInv, TypeOK, Job
  <1>4. \A id \in JobId :
          LedgerStatus(id)' = IF id = current[w] THEN "running" ELSE LedgerStatus(id)
    BY <1>1, <1>2, <1>3 DEF LedgerStatus, InHistory
  <1>5. LedgerStatus(current[w]) = "queued"
    BY <1>1 DEF LedgerStatus, InHistory
  <1> QED BY <1>1, <1>3, <1>4, <1>5 DEF Ledger!Begin

(* A job ended, with the jobs the history forgets in the same step. *)
LEMMA FinishLedger ==
  ASSUME IInv, NEW w \in Workers, pc[w] \in {"received", "running"},
         NEW outcome \in Terminal, Finish(w, outcome),
         NEW id \in JobId, id = current[w]
  PROVE  Ledger!End(id)
  <1> DEFINE forgotten == {j \in JobId : InHistory(j) /\ ~InHistory(j)'}
  <1>1. /\ id \in JobId /\ jobs[id].status \in Active /\ InHistory(id)
    BY DEF IInv, Statuses, Busy, Active, InHistory, NoId, JobId
  <1>2. FinishJob(id, outcome) /\ nextId' = nextId
    BY DEF Finish
  <1>3. /\ jobs' \in [JobId -> Job]
        /\ \A j \in JobId :
             \/ jobs'[j] = NoJob /\ (j = id \/ jobs[j].status \in Terminal)
             \/ j = id /\ jobs'[j] = [jobs[j] EXCEPT !.status = outcome]
             \/ j # id /\ jobs'[j] = jobs[j]
    BY <1>1, <1>2, FinishEffect DEF IInv
  <1>4. \A j \in JobId :
          /\ j # NoId
          /\ [jobs[j] EXCEPT !.status = outcome].status = outcome
          /\ [jobs[j] EXCEPT !.status = outcome].fingerprint = jobs[j].fingerprint
    BY DEF IInv, TypeOK, Job, JobId, NoId
  <1>5. /\ NoJob.status = "none" /\ NoJob.fingerprint = NoFingerprint
        /\ outcome # "none" /\ "none" \notin Terminal
    BY DEF NoJob, Terminal
  <1>6. \A j \in JobId : j >= nextId => ~InHistory(j)
    BY <1>5 DEF IInv, Fresh, InHistory
  <1>7. \A j \in forgotten : j = id \/ LedgerStatus(j) \in Terminal
    BY <1>3, <1>4, <1>5 DEF LedgerStatus, InHistory
  <1>8. \A j \in JobId :
          LedgerStatus(j)' = IF j \in forgotten THEN "forgotten"
                             ELSE IF j = id THEN outcome ELSE LedgerStatus(j)
    <2> SUFFICES ASSUME NEW j \in JobId
                 PROVE  LedgerStatus(j)' = IF j \in forgotten THEN "forgotten"
                                           ELSE IF j = id THEN outcome ELSE LedgerStatus(j)
      OBVIOUS
    <2>1. CASE jobs'[j] = NoJob /\ (j = id \/ jobs[j].status \in Terminal)
      <3>1. InHistory(j) /\ ~InHistory(j)'
        BY <1>1, <1>4, <1>5, <2>1 DEF InHistory
      <3>2. j < nextId
        BY <1>6, <3>1 DEF IInv, TypeOK, JobId
      <3> QED BY <1>2, <3>1, <3>2 DEF LedgerStatus
    <2>2. CASE j = id /\ jobs'[j] = [jobs[j] EXCEPT !.status = outcome]
      BY <1>4, <1>5, <2>2 DEF LedgerStatus, InHistory
    <2>3. CASE j # id /\ jobs'[j] = jobs[j]
      BY <1>2, <2>3 DEF LedgerStatus, InHistory
    <2> QED BY <1>3, <2>1, <2>2, <2>3
  <1>9. \A j \in JobId :
          jobs'[j].fingerprint = IF j \in forgotten THEN NoFingerprint
                                 ELSE jobs[j].fingerprint
    <2> SUFFICES ASSUME NEW j \in JobId
                 PROVE  jobs'[j].fingerprint = IF j \in forgotten THEN NoFingerprint
                                               ELSE jobs[j].fingerprint
      OBVIOUS
    <2>1. CASE jobs'[j] = NoJob /\ (j = id \/ jobs[j].status \in Terminal)
      BY <1>1, <1>4, <1>5, <2>1 DEF InHistory
    <2>2. CASE j = id /\ jobs'[j] = [jobs[j] EXCEPT !.status = outcome]
      BY <1>4, <1>5, <2>2 DEF InHistory
    <2>3. CASE j # id /\ jobs'[j] = jobs[j]
      BY <2>3 DEF InHistory
    <2> QED BY <1>3, <2>1, <2>2, <2>3
  <1>10. LedgerStatus(id) \in Active
    BY <1>1 DEF LedgerStatus
  <1>11. forgotten \subseteq JobId
    OBVIOUS
  <1> HIDE DEF forgotten
  <1>12. forgotten \in SUBSET {j \in JobId : j = id \/ LedgerStatus(j) \in Terminal}
    BY <1>7, <1>11
  <1> DEFINE status == [j \in JobId |-> LedgerStatus(j)]
             work == [j \in JobId |-> jobs[j].fingerprint]
  <1>13. status' = [j \in JobId |-> IF j \in forgotten THEN "forgotten"
                                    ELSE IF j = id THEN outcome ELSE status[j]]
    BY <1>8
  <1>14. work' = [j \in JobId |-> IF j \in forgotten THEN NoFingerprint ELSE work[j]]
    BY <1>9
  <1>15. forgotten \in SUBSET {j \in JobId : j = id \/ status[j] \in Terminal}
    BY <1>12
  <1>16. status[id] \in Active
    BY <1>1, <1>10
  <1>17. Ledger!Active = Active /\ Ledger!Terminal = Terminal
    BY DEF Active, Terminal, Ledger!Active, Ledger!Terminal
  <1> QED BY <1>13, <1>14, <1>15, <1>16, <1>17 DEF Ledger!End

(* Every other step leaves the history and the next identifier alone. *)
LEMMA OtherLedger ==
  ASSUME jobs' = jobs, nextId' = nextId
  PROVE  UNCHANGED Ledger!vars
  BY DEF Ledger!vars, LedgerStatus, InHistory

LEMMA NextLedger == IInv /\ [Next]_vars => [Ledger!Next]_(Ledger!vars)
  <1> SUFFICES ASSUME IInv, [Next]_vars
               PROVE  Ledger!Next \/ UNCHANGED Ledger!vars
    OBVIOUS
  <1>1. ASSUME NEW key \in Keys \cup {NoKey}, NEW fingerprint \in Fingerprints,
               Submit(key, fingerprint)
        PROVE  Ledger!Next \/ UNCHANGED Ledger!vars
    <2>1. CASE Enqueue(key, fingerprint)
      <3>1. nextId \in JobId
        BY <2>1 DEF Enqueue, IInv, TypeOK, JobId
      <3> QED BY <2>1, <3>1, EnqueueLedger DEF Ledger!Next
    <2>2. CASE JoinActive(key, fingerprint) \/ RefuseFull(key, fingerprint)
      BY <2>2, OtherLedger DEF JoinActive, RefuseFull
    <2> QED BY <1>1, <2>1, <2>2 DEF Submit
  <1>2. ASSUME NEW w \in Workers, Work(w)
        PROVE  Ledger!Next \/ UNCHANGED Ledger!vars
    <2>1. CASE SkipCanceled(w)
      <3>1. current[w] \in JobId
        BY <2>1 DEF SkipCanceled, IInv, Statuses, Busy
      <3>2. PICK id \in JobId : id = current[w]
        BY <3>1
      <3>3. Ledger!End(id)
        BY <2>1, <3>2, FinishLedger DEF SkipCanceled, Terminal
      <3> QED BY <3>3 DEF Ledger!Next
    <2>2. CASE RunReturns(w)
      <3>1. current[w] \in JobId
        BY <2>2 DEF RunReturns, IInv, Statuses, Busy
      <3>2. PICK id \in JobId : id = current[w]
        BY <3>1
      <3>3. Ledger!End(id)
        BY <2>2, <3>2, FinishLedger DEF RunReturns
      <3> QED BY <3>3 DEF Ledger!Next
    <2>3. CASE StartRunning(w)
      <3>1. current[w] \in JobId
        BY <2>3 DEF StartRunning, IInv, Statuses, Busy
      <3> QED BY <2>3, <3>1, StartLedger DEF Ledger!Next
    <2>4. CASE Receive(w) \/ Exit(w) \/ Admit(w)
      BY <2>4, OtherLedger DEF Receive, Exit, Admit
    <2> QED BY <1>2, <2>1, <2>2, <2>3, <2>4 DEF Work
  <1>3. CASE CloseQueue \/ CancelWorkers \/ Return \/ CancelParent \/ UNCHANGED vars
    BY <1>3, OtherLedger DEF CloseQueue, CancelWorkers, Return, CancelParent, vars
  <1> QED BY <1>1, <1>2, <1>3 DEF Next

(* The manager does what the ledger promises: a job is accepted once, only *)
(* when the same work is not active, runs at most once, ends once and is   *)
(* forgotten only after its end.                                           *)
THEOREM ImplementsLedger == Spec => Ledger!Spec
  BY InitLedger, NextLedger, Invariance, PTL DEF Spec, Ledger!Spec

-----------------------------------------------------------------------------
(* The bound of the history                                                *)

Ended == {id \in JobId : jobs[id].status \in Terminal}
ActiveJobs == {id \in JobId : jobs[id].status \in Active}

LEMMA JobsFinite ==
  ASSUME NEW S, S \subseteq JobId
  PROVE  IsFiniteSet(S) /\ Cardinality(S) \in Nat
  <1>1. IsFiniteSet(JobId)
    BY FS_Interval, SizesAssumption DEF JobId
  <1>2. IsFiniteSet(S)
    BY <1>1, FS_Subset
  <1> QED BY <1>2, FS_CardinalityType

LEMMA LeastJob ==
  ASSUME NEW S, S \subseteq JobId, S # {}
  PROVE  \E m \in S : \A k \in S : m <= k
  <1> DEFINE R == OpToRel(<, Nat)
  <1>1. S \subseteq Nat
    BY SizesAssumption DEF JobId
  <1>2. \E m \in S : \A k \in S : ~ (<<k, m>> \in R)
    <2>1. IsWellFoundedOn(R, Nat)
      BY NatLessThanWellFounded
    <2> HIDE DEF R
    <2> QED BY <1>1, <2>1, WFMin
  <1>3. \A k, m \in Nat : k < m => <<k, m>> \in R
    BY DEF OpToRel
  <1> HIDE DEF R
  <1>4. PICK m \in S : \A k \in S : ~ (<<k, m>> \in R)
    BY <1>2
  <1>5. \A k \in S : m \in Nat /\ k \in Nat /\ ~(k < m)
    BY <1>1, <1>3, <1>4
  <1> QED BY <1>5

(* Trimming removes as many jobs as asked for, unless it removes them all: *)
(* the first job it keeps has that many before it, and it keeps none of    *)
(* those.                                                                  *)
LEMMA OldestEnough ==
  ASSUME NEW S, S \subseteq JobId, NEW excess \in Int,
         S \ Oldest(S, excess) # {}
  PROVE  excess <= Cardinality(Oldest(S, excess))
  <1> DEFINE kept == S \ Oldest(S, excess)
  <1>1. PICK m \in kept : \A k \in kept : m <= k
    <2>1. kept \subseteq JobId /\ kept # {}
      OBVIOUS
    <2> HIDE DEF kept
    <2> QED BY <2>1, LeastJob
  <1> DEFINE before == {j \in S : j < m}
  <1>2. before \subseteq Oldest(S, excess)
    <2>1. ASSUME NEW j \in before PROVE j \notin kept
      BY <1>1, SizesAssumption DEF JobId
    <2> QED BY <2>1
  <1>3. Oldest(S, excess) \subseteq JobId
    BY DEF Oldest
  <1>4. ~(Cardinality(before) < excess)
    BY <1>1 DEF Oldest
  <1> HIDE DEF before
  <1>5. /\ Cardinality(before) \in Nat /\ Cardinality(Oldest(S, excess)) \in Nat
        /\ Cardinality(before) <= Cardinality(Oldest(S, excess))
    BY <1>2, <1>3, JobsFinite, FS_Subset
  <1> QED BY <1>4, <1>5

(* However long the history was, the end of a job leaves no more than      *)
(* HistoryLimit ended ones.                                                *)
LEMMA FinishTrims ==
  ASSUME TypeOK, NEW id \in JobId, InHistory(id), NEW outcome \in Terminal,
         FinishJob(id, outcome)
  PROVE  Cardinality(Ended') <= HistoryLimit
  <1> DEFINE ended == {j \in History : j = id \/ jobs[j].status \in Terminal}
             excess == Cardinality(History) - HistoryLimit
             trimmed == Oldest(ended, excess)
  <1>1. /\ trimmed = TrimmedWith(id)
        /\ jobs' = [j \in JobId |->
                     IF j \in trimmed THEN NoJob
                     ELSE IF j = id THEN [jobs[j] EXCEPT !.status = outcome]
                     ELSE jobs[j]]
    BY DEF FinishJob, TrimmedWith
  <1>2. History \subseteq JobId /\ ended \subseteq History /\ trimmed \subseteq ended
    BY DEF History, Oldest
  <1>3. HistoryLimit \in Nat
    BY SizesAssumption
  <1>4. excess \in Int
    BY <1>2, <1>3, JobsFinite
  <1>5. Ended' \subseteq ended \ trimmed
    <2> SUFFICES ASSUME NEW j \in JobId, jobs'[j].status \in Terminal
                 PROVE  j \in ended /\ j \notin trimmed
      BY DEF Ended
    <2>1. j \notin trimmed
      BY <1>1 DEF NoJob, Terminal
    <2>2. j \in ended
      BY <1>1, <2>1 DEF History, InHistory, JobId, NoId, Terminal
    <2> QED BY <2>1, <2>2
  <1>6. trimmed = Oldest(ended, excess)
    OBVIOUS
  <1> HIDE DEF ended, trimmed
  <1>7. IsFiniteSet(ended \ trimmed) /\ Cardinality(Ended') <= Cardinality(ended \ trimmed)
    BY <1>2, <1>5, JobsFinite, FS_Subset
  <1>8. CASE ended \ trimmed = {}
    <2>1. Cardinality(Ended') <= 0
      BY <1>7, <1>8, FS_EmptySet
    <2>2. Cardinality(Ended') \in Nat
      BY JobsFinite DEF Ended
    <2> QED BY <1>3, <2>1, <2>2
  <1>9. CASE ended \ trimmed # {}
    <2>1. excess <= Cardinality(trimmed)
      BY <1>2, <1>4, <1>6, <1>9, OldestEnough
    <2>2. /\ Cardinality(ended \ trimmed) = Cardinality(ended) - Cardinality(trimmed)
      <3>1. IsFiniteSet(ended) /\ ended \cap trimmed = trimmed
        BY <1>2, JobsFinite
      <3> QED BY <3>1, FS_Difference
    <2>3. Cardinality(ended) <= Cardinality(History)
      BY <1>2, JobsFinite, FS_Subset
    <2>4. /\ Cardinality(ended) \in Nat /\ Cardinality(trimmed) \in Nat
          /\ Cardinality(History) \in Nat /\ Cardinality(ended \ trimmed) \in Nat
      BY <1>2, JobsFinite
    <2>5. Cardinality(Ended') \in Nat
      BY JobsFinite DEF Ended
    <2> QED BY <1>3, <1>7, <2>1, <2>2, <2>3, <2>4, <2>5
  <1> QED BY <1>8, <1>9

LEMMA EndedBound ==
  ASSUME IInv, [Next]_vars, Cardinality(Ended) <= HistoryLimit
  PROVE  Cardinality(Ended') <= HistoryLimit
  <1>1. ASSUME Ended' = Ended PROVE Cardinality(Ended') <= HistoryLimit
    BY <1>1
  <1>2. ASSUME NEW key \in Keys \cup {NoKey}, NEW fingerprint \in Fingerprints,
               Submit(key, fingerprint)
        PROVE  Ended' = Ended
    <2>1. CASE Enqueue(key, fingerprint)
      <3>1. /\ nextId \in JobId /\ jobs[nextId].status = "none"
            /\ jobs'[nextId].status = "queued"
            /\ \A id \in JobId : id # nextId => jobs'[id] = jobs[id]
        BY <2>1 DEF Enqueue, IInv, TypeOK, Fresh, NoJob, JobId
      <3> QED BY <3>1 DEF Ended, Terminal
    <2>2. CASE JoinActive(key, fingerprint) \/ RefuseFull(key, fingerprint)
      BY <2>2 DEF JoinActive, RefuseFull, Ended, Terminal
    <2> QED BY <1>2, <2>1, <2>2 DEF Submit
  <1>3. ASSUME NEW w \in Workers, Work(w)
        PROVE  Ended' = Ended \/ Cardinality(Ended') <= HistoryLimit
    <2>1. ASSUME pc[w] \in {"received", "running"}, NEW outcome \in Terminal,
                 Finish(w, outcome)
          PROVE  Cardinality(Ended') <= HistoryLimit
      <3>1. /\ current[w] \in JobId /\ InHistory(current[w])
            /\ FinishJob(current[w], outcome)
        BY <2>1 DEF IInv, Statuses, Busy, InHistory, NoId, JobId, Finish
      <3>2. PICK id \in JobId : id = current[w]
        BY <3>1
      <3> QED BY <3>1, <3>2, FinishTrims DEF IInv
    <2>2. CASE SkipCanceled(w)
      BY <2>1, <2>2 DEF SkipCanceled, Terminal
    <2>3. CASE RunReturns(w)
      BY <2>1, <2>3 DEF RunReturns
    <2>4. CASE StartRunning(w)
      <3>1. /\ current[w] \in JobId /\ jobs[current[w]].status = "queued"
            /\ jobs' = [jobs EXCEPT ![current[w]].status = "running"]
        BY <2>4 DEF StartRunning, IInv, Statuses, Busy, InHistory, NoId, JobId
      <3>2. \A id \in JobId : \/ jobs'[id] = jobs[id]
                              \/ jobs[id].status = "queued" /\ jobs'[id].status = "running"
        BY <3>1 DEF IInv, TypeOK, Job
      <3> QED BY <3>2 DEF Ended, Terminal
    <2>5. CASE Receive(w) \/ Exit(w) \/ Admit(w)
      BY <2>5 DEF Receive, Exit, Admit, Ended, Terminal
    <2> QED BY <1>3, <2>2, <2>3, <2>4, <2>5 DEF Work
  <1>4. CASE CloseQueue \/ CancelWorkers \/ Return \/ CancelParent \/ UNCHANGED vars
    <2>1. Ended' = Ended
      BY <1>4 DEF CloseQueue, CancelWorkers, Return, CancelParent, vars, Ended, Terminal
    <2> QED BY <1>1, <2>1
  <1> QED BY <1>1, <1>2, <1>3, <1>4 DEF Next

(* Active jobs are held by the queue or by a worker. *)
LEMMA ActiveBound ==
  ASSUME IInv
  PROVE  Cardinality(ActiveJobs) <= QueueSize + Cardinality(Workers)
  <1> DEFINE inQueue == {queue[i] : i \in 1 .. Len(queue)}
             inHand == {current[w] : w \in Workers}
  <1>1. ActiveJobs \subseteq inQueue \cup inHand
    BY DEF IInv, Somewhere, ActiveJobs
  <1>2. Len(queue) \in Nat /\ Len(queue) <= QueueSize /\ QueueSize \in Nat
    BY SizesAssumption DEF IInv, TypeOK
  <1>3. IsFiniteSet(1 .. Len(queue)) /\ Cardinality(1 .. Len(queue)) = Len(queue)
    <2>1. 1 \in Int /\ Len(queue) \in Int
      BY <1>2
    <2>2. /\ IsFiniteSet(1 .. Len(queue))
          /\ Cardinality(1 .. Len(queue)) =
               IF 1 > Len(queue) THEN 0 ELSE Len(queue) - 1 + 1
      BY <2>1, FS_Interval
    <2> QED BY <1>2, <2>2
  <1>4. IsFiniteSet(inQueue) /\ Cardinality(inQueue) <= Len(queue)
    <2> DEFINE f == [i \in 1 .. Len(queue) |-> queue[i]]
    <2>1. f \in Surjection(1 .. Len(queue), inQueue)
      BY DEF Surjection
    <2> HIDE DEF f, inQueue
    <2>2. IsFiniteSet(inQueue) /\ Cardinality(inQueue) <= Cardinality(1 .. Len(queue))
      BY <1>3, <2>1, FS_Surjection
    <2> QED BY <1>3, <2>2
  <1>5. IsFiniteSet(inHand) /\ Cardinality(inHand) <= Cardinality(Workers)
    <2> DEFINE f == [w \in Workers |-> current[w]]
    <2>1. f \in Surjection(Workers, inHand)
      BY DEF Surjection
    <2> HIDE DEF f, inHand
    <2> QED BY <2>1, FS_Surjection, SizesAssumption
  <1> HIDE DEF inQueue, inHand
  <1>6. /\ IsFiniteSet(inQueue \cup inHand)
        /\ Cardinality(inQueue \cup inHand) <= Cardinality(inQueue) + Cardinality(inHand)
    <2>1. /\ IsFiniteSet(inQueue \cup inHand)
          /\ Cardinality(inQueue \cup inHand) =
               Cardinality(inQueue) + Cardinality(inHand) - Cardinality(inQueue \cap inHand)
      BY <1>4, <1>5, FS_Union
    <2>2. IsFiniteSet(inQueue \cap inHand)
      BY <1>4, FS_Subset
    <2> QED BY <1>4, <1>5, <2>1, <2>2, FS_CardinalityType
  <1>7. Cardinality(ActiveJobs) <= Cardinality(inQueue \cup inHand)
    BY <1>1, <1>6, FS_Subset
  <1>8. /\ Cardinality(inQueue) \in Nat /\ Cardinality(inHand) \in Nat
        /\ Cardinality(Workers) \in Nat /\ Cardinality(inQueue \cup inHand) \in Nat
    BY <1>4, <1>5, <1>6, FS_CardinalityType, SizesAssumption
  <1>9. Cardinality(ActiveJobs) \in Nat
    BY JobsFinite DEF ActiveJobs
  <1> QED BY <1>2, <1>4, <1>5, <1>6, <1>7, <1>8, <1>9

(* The history that trimHistoryLocked keeps stays bounded, although it     *)
(* never removes an active job and runs only when a job ends: no more than *)
(* HistoryLimit ended jobs, and active ones as many as the queue and the   *)
(* workers hold.                                                           *)
THEOREM HistoryStaysBounded == Spec => []HistoryBounded
  <1>1. Init => Cardinality(Ended) <= HistoryLimit
    <2> SUFFICES ASSUME Init PROVE Cardinality(Ended) <= HistoryLimit
      OBVIOUS
    <2>1. Ended = {}
      BY DEF Init, Ended, NoJob, Terminal
    <2> QED BY <2>1, FS_EmptySet, SizesAssumption
  <1>2. IInv /\ Cardinality(Ended) <= HistoryLimit /\ [Next]_vars
          => (Cardinality(Ended) <= HistoryLimit)'
    BY EndedBound
  <1>3. ASSUME IInv, Cardinality(Ended) <= HistoryLimit PROVE HistoryBounded
    <2>1. History = Ended \cup ActiveJobs
      BY <1>3 DEF IInv, TypeOK, Job, History, InHistory, Ended, ActiveJobs, Active,
         Terminal, JobId, NoId
    <2>2. /\ IsFiniteSet(Ended) /\ IsFiniteSet(ActiveJobs)
          /\ Cardinality(Ended) \in Nat /\ Cardinality(ActiveJobs) \in Nat
          /\ Cardinality(Ended \cap ActiveJobs) \in Nat
      BY JobsFinite DEF Ended, ActiveJobs
    <2>3. Cardinality(History) =
            Cardinality(Ended) + Cardinality(ActiveJobs) - Cardinality(Ended \cap ActiveJobs)
      BY <2>1, <2>2, FS_Union
    <2>4. Cardinality(ActiveJobs) <= QueueSize + Cardinality(Workers)
      BY <1>3, ActiveBound
    <2>5. QueueSize \in Nat /\ HistoryLimit \in Nat /\ Cardinality(Workers) \in Nat
      BY SizesAssumption, FS_CardinalityType
    <2> QED BY <1>3, <2>2, <2>3, <2>4, <2>5 DEF HistoryBounded, Ended
  <1> QED BY <1>1, <1>2, <1>3, Invariance, PTL DEF Spec
===============================================================================
