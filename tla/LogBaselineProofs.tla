------------------------- MODULE LogBaselineProofs -------------------------
(***************************************************************************)
(* Theorems about LogBaseline, for every value of its constants.           *)
(***************************************************************************)
EXTENDS LogBaseline, FiniteSetTheorems, TLAPS

-----------------------------------------------------------------------------
(* Arithmetic of chunks                                                    *)

(* The k-th of the chunks that cut from..e up starts within from..e. *)
LEMMA ChunkStart ==
  ASSUME NEW from \in Nat, NEW e \in Nat, from <= e,
         NEW k \in 0 .. ChunkCount(from, e) - 1
  PROVE  /\ k * ChunkSize \in Nat
         /\ from + k * ChunkSize <= e
  <1> DEFINE q == (e - from) \div ChunkSize
  <1>1. ChunkSize \in Nat /\ ChunkSize > 0
    BY SizesAssumption
  <1>2. q \in Nat /\ q * ChunkSize <= e - from
    BY <1>1
  <1>3. k \in Nat /\ k <= q
    BY <1>2 DEF ChunkCount
  <1> HIDE DEF q
  <1>4. k * ChunkSize <= q * ChunkSize /\ k * ChunkSize \in Nat
    BY <1>1, <1>2, <1>3
  <1> QED BY <1>1, <1>2, <1>4

(* Every line of from..e lies in one of these chunks. *)
LEMMA ChunkOfLine ==
  ASSUME NEW from \in Nat, NEW e \in Nat, NEW n \in from .. e
  PROVE  \E k \in 0 .. ChunkCount(from, e) - 1 :
           /\ from + k * ChunkSize <= n
           /\ n <= ChunkEnd(from, k, e)
  <1> DEFINE k == (n - from) \div ChunkSize
             q == (e - from) \div ChunkSize
  <1>1. ChunkSize \in Nat /\ ChunkSize > 0
    BY SizesAssumption
  <1>2. /\ k \in Nat /\ q \in Nat
        /\ k * ChunkSize <= n - from
        /\ n - from < k * ChunkSize + ChunkSize
        /\ e - from < q * ChunkSize + ChunkSize
    BY <1>1
  <1> HIDE DEF k, q
  <1>3. k <= q
    <2> SUFFICES ASSUME k >= q + 1 PROVE FALSE
      BY <1>2
    <2>1. k * ChunkSize >= (q + 1) * ChunkSize
      BY <1>1, <1>2
    <2>2. (q + 1) * ChunkSize = q * ChunkSize + ChunkSize
      BY <1>1, <1>2
    <2> QED BY <1>1, <1>2, <2>1, <2>2
  <1>4. k \in 0 .. ChunkCount(from, e) - 1
    BY <1>2, <1>3 DEF ChunkCount, q
  <1>5. (k + 1) * ChunkSize = k * ChunkSize + ChunkSize
    BY <1>1, <1>2
  <1>6. k * ChunkSize \in Nat
    BY <1>1, <1>2
  <1>7. from + k * ChunkSize <= n /\ n <= ChunkEnd(from, k, e)
    BY <1>1, <1>2, <1>5, <1>6 DEF ChunkEnd
  <1> QED BY <1>4, <1>7

(* A new chunk lies within from..e and its hash is that of its lines. *)
LEMMA NewChunkShape ==
  ASSUME NEW lines, NEW from \in Nat, NEW e \in Nat, from <= e,
         NEW number, NEW ch \in NewChunks(lines, from, e, number)
  PROVE  /\ ch.from \in Nat /\ ch.to \in Nat
         /\ from <= ch.from /\ ch.from <= ch.to /\ ch.to <= e
         /\ ch.hash = ChunkHash(lines, ch.from, ch.to)
         /\ \E k \in Nat : ch.number = number + k
  <1>1. PICK k \in 0 .. ChunkCount(from, e) - 1 :
               ch = NewChunk(lines, from, e, number, k)
    BY DEF NewChunks
  <1>2. ChunkSize \in Nat /\ ChunkSize > 0 /\ k \in Nat
    BY SizesAssumption
  <1>3. k * ChunkSize \in Nat /\ from + k * ChunkSize <= e
    BY ChunkStart
  <1>4. (k + 1) * ChunkSize = k * ChunkSize + ChunkSize
    BY <1>2
  <1>5. /\ ChunkEnd(from, k, e) \in Nat
        /\ from + k * ChunkSize <= ChunkEnd(from, k, e)
        /\ ChunkEnd(from, k, e) <= e
    BY <1>2, <1>3, <1>4 DEF ChunkEnd
  <1> QED BY <1>1, <1>2, <1>3, <1>5 DEF NewChunk

-----------------------------------------------------------------------------
(* Type correctness                                                        *)

(* What a collection holds between its read and its last batch: the lines  *)
(* after "after" are contents, and there is a batch to save.               *)
ReadOf(w) ==
  /\ pc[w] \in {"dropEntries", "dropChunks", "build", "save"} =>
       \A n \in task[w].after + 1 .. task[w].last : task[w].lines[n] \in Contents
  /\ pc[w] = "save" =>
       task[w].after < task[w].next /\ task[w].next <= task[w].last

ReadOK == \A w \in Workers : ReadOf(w)

TypeInv == TypeOK /\ ReadOK

LEMMA IdleTaskType == IdleTask \in TaskType
  BY SizesAssumption DEF IdleTask, TaskType, Identity, NoIdentity, NoLines,
     Numbered, LineNumber

(* A read returns contents for exactly the lines it was asked for. *)
LEMMA ReadAfterType ==
  ASSUME TypeOK, NEW after \in 0 .. MaxLines
  PROVE  /\ ReadAfter(after) \in Numbered
         /\ \A n \in after + 1 .. Len(file.lines) : ReadAfter(after)[n] \in Contents
  <1>1. \A n \in 1 .. Len(file.lines) : file.lines[n] \in Contents /\ n \in LineNumber
    BY SizesAssumption DEF TypeOK, LineNumber
  <1> QED BY <1>1, LinesAssumption, SizesAssumption
          DEF ReadAfter, Numbered, LineNumber, TypeOK

LEMMA FileIdentityType == TypeOK => FileIdentity \in Identity
  <1> SUFFICES ASSUME TypeOK PROVE FileIdentity \in Identity
    OBVIOUS
  <1>1. Len(file.lines) \in Nat
    BY DEF TypeOK
  <1> QED BY <1>1, SizesAssumption DEF TypeOK, FileIdentity, Identity

(* Chunks of a batch of contents are chunks. *)
LEMMA NewChunksType ==
  ASSUME NEW lines \in Numbered, NEW from \in LineNumber,
         NEW e \in from .. MaxLines, NEW number \in Nat,
         \A n \in from .. e : lines[n] \in Contents
  PROVE  \A ch \in NewChunks(lines, from, e, number) : ChunkOK(ch)
  <1> SUFFICES ASSUME NEW ch \in NewChunks(lines, from, e, number)
               PROVE  ChunkOK(ch)
    OBVIOUS
  <1>1. from \in Nat /\ e \in Nat /\ from <= e
    BY SizesAssumption DEF LineNumber
  <1>2. /\ ch.from \in Nat /\ ch.to \in Nat
        /\ from <= ch.from /\ ch.from <= ch.to /\ ch.to <= e
        /\ ch.hash = ChunkHash(lines, ch.from, ch.to)
        /\ \E k \in Nat : ch.number = number + k
    BY <1>1, NewChunkShape
  <1> QED BY <1>1, <1>2, SizesAssumption DEF ChunkOK, ChunkHash, LineNumber

(* A step that sets one worker's locals keeps the others'. *)
LEMMA TaskStep ==
  ASSUME TypeInv, NEW w \in Workers, NEW t \in TaskType,
         task' = [task EXCEPT ![w] = t],
         NEW step \in {"idle"} \cup CollectSteps \cup CheckSteps, Goto(w, step)
  PROVE  /\ task' \in [Workers -> TaskType]
         /\ task'[w] = t
         /\ pc' \in [Workers -> {"idle"} \cup CollectSteps \cup CheckSteps]
         /\ pc'[w] = step
         /\ \A v \in Workers \ {w} : ReadOf(v)'
  <1> USE DEF TypeInv, TypeOK
  <1>1. task' \in [Workers -> TaskType] /\ task'[w] = t
    OBVIOUS
  <1>2. /\ pc' \in [Workers -> {"idle"} \cup CollectSteps \cup CheckSteps]
        /\ pc'[w] = step
    BY DEF Goto
  <1>3. ASSUME NEW v \in Workers \ {w} PROVE ReadOf(v)'
    <2>1. pc'[v] = pc[v] /\ task'[v] = task[v] /\ ReadOf(v)
      BY DEF Goto, ReadOK
    <2> QED BY <2>1 DEF ReadOf
  <1> QED BY <1>1, <1>2, <1>3

LEMMA TypeOfTask ==
  ASSUME TypeInv, NEW w \in Workers
  PROVE  /\ task[w] \in TaskType
         /\ task[w].known \in Identity /\ task[w].seen \in Identity
         /\ task[w].lastKnown \in 0 .. MaxLines
         /\ task[w].after \in 0 .. MaxLines
         /\ task[w].lines \in Numbered
         /\ task[w].last \in 0 .. MaxLines
         /\ task[w].next \in 1 .. MaxLines + 1
         /\ task[w].number \in Nat
  <1>1. task[w] \in TaskType
    BY DEF TypeInv, TypeOK
  <1> QED BY <1>1 DEF TaskType

LEMMA InitType == Init => TypeInv
  <1> SUFFICES ASSUME Init PROVE TypeInv
    OBVIOUS
  <1>1. file.inode \in 1 .. MaxInode /\ file.lines \in Seq(Contents)
        /\ Len(file.lines) <= MaxLines /\ DOMAIN file = {"inode", "lines"}
    BY SizesAssumption DEF Init
  <1>2. row \in [identity : Identity, last : 0 .. MaxLines]
    BY SizesAssumption DEF Init, Identity, NoIdentity
  <1>3. entries \in Numbered
    BY DEF Init, Numbered, NoLines
  <1>4. ReadOK
    BY DEF Init, ReadOK, ReadOf
  <1> QED BY <1>1, <1>2, <1>3, <1>4, IdleTaskType, SizesAssumption DEF Init, TypeInv, TypeOK

(* The end of an operation keeps what the others hold. *)
LEMMA FinishType ==
  ASSUME TypeInv, NEW w \in Workers, Finish(w)
  PROVE  /\ pc' \in [Workers -> {"idle"} \cup CollectSteps \cup CheckSteps]
         /\ task' \in [Workers -> TaskType]
         /\ lock' \in Workers \cup {Nobody}
         /\ ReadOK'
  <1>1. pc' \in [Workers -> {"idle"} \cup CollectSteps \cup CheckSteps]
    BY DEF TypeInv, TypeOK, Finish
  <1>2. task' \in [Workers -> TaskType]
    BY IdleTaskType DEF TypeInv, TypeOK, Finish
  <1>3. lock' \in Workers \cup {Nobody}
    BY DEF TypeInv, TypeOK, Finish
  <1>4. ReadOK'
    BY DEF TypeInv, TypeOK, ReadOK, ReadOf, Finish
  <1> QED BY <1>1, <1>2, <1>3, <1>4

(* The environment touches the file only. *)
LEMMA EnvironmentType == TypeInv /\ Environment => TypeInv'
  <1> SUFFICES ASSUME TypeInv, Environment PROVE TypeInv'
    OBVIOUS
  <1> USE DEF TypeInv
  <1>1. /\ UNCHANGED <<row, entries, chunks, verdict, lock, pc, task, faults>>
        /\ pristine' \in BOOLEAN
    BY DEF TypeOK, Environment, AppendLine, Rotate, Truncate, EditLine, store
  <1>2. /\ file'.inode \in 1 .. MaxInode /\ file'.lines \in Seq(Contents)
        /\ Len(file'.lines) <= MaxLines /\ DOMAIN file' = {"inode", "lines"}
    <2>1. CASE AppendLine
      <3>1. PICK c \in Contents : file' = [file EXCEPT !.lines = Append(@, c)]
        BY <2>1 DEF AppendLine
      <3>2. /\ file'.lines = Append(file.lines, c)
            /\ file'.inode = file.inode
            /\ DOMAIN file' = DOMAIN file
        BY <3>1 DEF TypeOK
      <3> QED BY <2>1, <3>2, SizesAssumption DEF AppendLine, TypeOK
    <2>2. CASE Rotate
      BY <2>2, SizesAssumption DEF Rotate, TypeOK
    <2>3. CASE Truncate
      BY <2>3, SizesAssumption DEF Truncate, TypeOK
    <2>4. CASE EditLine
      <3>1. PICK n \in 1 .. Len(file.lines), c \in Contents :
                   file' = [file EXCEPT !.lines[n] = c]
        BY <2>4 DEF EditLine
      <3>2. /\ file'.lines = [file.lines EXCEPT ![n] = c]
            /\ file'.inode = file.inode
            /\ DOMAIN file' = DOMAIN file
        BY <3>1 DEF TypeOK
      <3>3. file'.lines \in Seq(Contents) /\ Len(file'.lines) = Len(file.lines)
        BY <3>2 DEF TypeOK
      <3> QED BY <3>2, <3>3 DEF TypeOK
    <2> QED BY <2>1, <2>2, <2>3, <2>4 DEF Environment
  <1>3. ReadOK'
    BY <1>1 DEF ReadOK, ReadOf
  <1> QED BY <1>1, <1>2, <1>3 DEF TypeOK, ChunkOK

LEMMA StartType ==
  ASSUME TypeInv, NEW w \in Workers, NEW step \in {"inspect", "checkInspect"},
         Start(w, step)
  PROVE  TypeInv'
  <1> USE DEF TypeInv
  <1>1. [IdleTask EXCEPT !.known = row.identity, !.lastKnown = row.last] \in TaskType
    BY IdleTaskType DEF TypeOK, TaskType
  <1>2. task' \in [Workers -> TaskType]
    BY <1>1 DEF TypeOK, Start
  <1>3. pc' \in [Workers -> {"idle"} \cup CollectSteps \cup CheckSteps]
    BY DEF TypeOK, Start, Goto, CollectSteps, CheckSteps
  <1>4. ReadOK'
    BY DEF TypeOK, ReadOK, ReadOf, Start, Goto
  <1> QED BY <1>2, <1>3, <1>4 DEF TypeOK, Start, world, store

LEMMA FailType ==
  ASSUME TypeInv, NEW w \in Workers, Fail(w)
  PROVE  TypeInv'
  <1>1. faults' \in 0 .. MaxFaults
    BY SizesAssumption DEF TypeInv, TypeOK, Fail
  <1> QED BY <1>1, FinishType DEF TypeInv, TypeOK, Fail, world, store

LEMMA InspectType ==
  ASSUME TypeInv, NEW w \in Workers, Inspect(w)
  PROVE  TypeInv'
  <1>1. PICK seen \in {FileIdentity, NoIdentity} :
          /\ InspectGives(seen)
          /\ task' = [task EXCEPT ![w].seen = seen,
                                  ![w].reset = ShouldReset(task[w].known, seen)]
          /\ Goto(w, IF ShouldReset(task[w].known, seen) THEN "read" ELSE "max")
    BY DEF Inspect
  <1> DEFINE reset == ShouldReset(task[w].known, seen)
             t == [task[w] EXCEPT !.seen = seen, !.reset = reset]
             step == IF reset THEN "read" ELSE "max"
  <1>2. seen \in Identity
    BY FileIdentityType, SizesAssumption DEF NoIdentity, Identity, TypeInv
  <1>3. reset \in BOOLEAN
    BY DEF ShouldReset
  <1>4. step \in CollectSteps /\ step \in {"read", "max"}
    BY DEF CollectSteps
  <1>5. task' = [task EXCEPT ![w] = t] /\ Goto(w, step)
    BY <1>1
  <1> HIDE DEF reset, step
  <1>6. t \in TaskType
    BY <1>2, <1>3, TypeOfTask DEF TaskType
  <1> HIDE DEF t
  <1>7. /\ task' \in [Workers -> TaskType]
        /\ pc' \in [Workers -> {"idle"} \cup CollectSteps \cup CheckSteps]
        /\ pc'[w] = step
        /\ \A v \in Workers \ {w} : ReadOf(v)'
    BY <1>4, <1>5, <1>6, TaskStep
  <1>8. ReadOf(w)'
    BY <1>4, <1>7 DEF ReadOf
  <1>9. faults' \in 0 .. MaxFaults
    BY <1>1, SizesAssumption DEF TypeInv, TypeOK, InspectGives
  <1> QED BY <1>7, <1>8, <1>9 DEF TypeInv, TypeOK, ReadOK, Inspect, world, store

LEMMA MaxType ==
  ASSUME TypeInv, NEW w \in Workers, GetMaxLineNumber(w)
  PROVE  TypeInv'
  <1>1. PICK m \in 0 .. MaxLines : task' = [task EXCEPT ![w].after = m]
    BY DEF GetMaxLineNumber
  <1> DEFINE t == [task[w] EXCEPT !.after = m]
  <1>2. t \in TaskType
    BY TypeOfTask DEF TaskType
  <1>3. task' = [task EXCEPT ![w] = t] /\ Goto(w, "read")
    BY <1>1 DEF GetMaxLineNumber
  <1>4. "read" \in CollectSteps
    BY DEF CollectSteps
  <1> HIDE DEF t
  <1>5. /\ task' \in [Workers -> TaskType]
        /\ pc' \in [Workers -> {"idle"} \cup CollectSteps \cup CheckSteps]
        /\ pc'[w] = "read"
        /\ \A v \in Workers \ {w} : ReadOf(v)'
    BY <1>2, <1>3, <1>4, TaskStep
  <1>6. ReadOf(w)'
    BY <1>5 DEF ReadOf
  <1> QED BY <1>5, <1>6 DEF TypeInv, TypeOK, ReadOK, GetMaxLineNumber, world, store

LEMMA ReadType ==
  ASSUME TypeInv, NEW w \in Workers, ReadLines(w)
  PROVE  TypeInv'
  <1> DEFINE t == [task[w] EXCEPT !.lines = ReadAfter(task[w].after),
                                  !.last = Len(file.lines)]
             step == IF task[w].reset THEN "dropEntries" ELSE "build"
  <1>1. Len(file.lines) \in 0 .. MaxLines
    <2>1. Len(file.lines) \in Nat /\ Len(file.lines) <= MaxLines
      BY DEF TypeInv, TypeOK
    <2> QED BY <2>1, SizesAssumption
  <1>2. /\ ReadAfter(task[w].after) \in Numbered
        /\ \A n \in task[w].after + 1 .. Len(file.lines) :
             ReadAfter(task[w].after)[n] \in Contents
    BY TypeOfTask, ReadAfterType DEF TypeInv
  <1>3. t \in TaskType
    BY <1>1, <1>2, TypeOfTask DEF TaskType
  <1>4. /\ t.after = task[w].after /\ t.last = Len(file.lines)
        /\ t.lines = ReadAfter(task[w].after)
    BY TypeOfTask DEF TaskType
  <1>5. task' = [task EXCEPT ![w] = t] /\ Goto(w, step)
    BY DEF ReadLines
  <1>6. step \in CollectSteps /\ step # "save"
    BY DEF CollectSteps
  <1> HIDE DEF t, step
  <1>7. /\ task' \in [Workers -> TaskType] /\ task'[w] = t
        /\ pc' \in [Workers -> {"idle"} \cup CollectSteps \cup CheckSteps]
        /\ pc'[w] = step
        /\ \A v \in Workers \ {w} : ReadOf(v)'
    BY <1>3, <1>5, <1>6, TaskStep
  <1>8. ReadOf(w)'
    BY <1>2, <1>4, <1>6, <1>7 DEF ReadOf
  <1> QED BY <1>7, <1>8 DEF TypeInv, TypeOK, ReadOK, ReadLines, world, store

LEMMA DropEntriesType ==
  ASSUME TypeInv, NEW w \in Workers, DropEntries(w)
  PROVE  TypeInv'
  <1>1. entries' \in Numbered
    BY DEF DropEntries, NoLines, Numbered
  <1>2. /\ pc' \in [Workers -> {"idle"} \cup CollectSteps \cup CheckSteps]
        /\ task' = task
    BY DEF TypeInv, TypeOK, DropEntries, Goto, CollectSteps
  <1>3. ReadOK'
    BY DEF TypeInv, TypeOK, ReadOK, ReadOf, DropEntries, Goto
  <1> QED BY <1>1, <1>2, <1>3 DEF TypeInv, TypeOK, DropEntries, world

LEMMA DropChunksType ==
  ASSUME TypeInv, NEW w \in Workers, DropChunks(w)
  PROVE  TypeInv'
  <1> DEFINE t == [task[w] EXCEPT !.lastKnown = 0]
  <1>1. t \in TaskType
    BY TypeOfTask, SizesAssumption DEF TaskType
  <1>2. /\ t.after = task[w].after /\ t.last = task[w].last
        /\ t.lines = task[w].lines
    BY TypeOfTask DEF TaskType
  <1>3. task' = [task EXCEPT ![w] = t] /\ Goto(w, "build")
    BY DEF DropChunks
  <1>4. "build" \in CollectSteps
    BY DEF CollectSteps
  <1> HIDE DEF t
  <1>5. /\ task' \in [Workers -> TaskType] /\ task'[w] = t
        /\ pc' \in [Workers -> {"idle"} \cup CollectSteps \cup CheckSteps]
        /\ pc'[w] = "build"
        /\ \A v \in Workers \ {w} : ReadOf(v)'
    BY <1>1, <1>3, <1>4, TaskStep
  <1>6. ReadOf(w)
    BY DEF TypeInv, ReadOK
  <1>7. ReadOf(w)'
    BY <1>2, <1>5, <1>6 DEF ReadOf, DropChunks
  <1>8. \A ch \in chunks' : ChunkOK(ch)'
    BY DEF DropChunks
  <1> QED BY <1>5, <1>7, <1>8 DEF TypeInv, TypeOK, ReadOK, DropChunks, world

LEMMA BuildType ==
  ASSUME TypeInv, NEW w \in Workers, BuildChunks(w)
  PROVE  TypeInv'
  <1>1. CASE task[w].last <= task[w].after
    <2>1. Goto(w, "record") /\ task' = task /\ pc[w] = "build"
      BY <1>1 DEF BuildChunks
    <2>2. pc' \in [Workers -> {"idle"} \cup CollectSteps \cup CheckSteps]
      BY <2>1 DEF TypeInv, TypeOK, Goto, CollectSteps
    <2>3. ReadOK'
      BY <2>1 DEF TypeInv, TypeOK, ReadOK, ReadOf, Goto
    <2> QED BY <2>1, <2>2, <2>3 DEF TypeInv, TypeOK, BuildChunks, world, store
  <1>2. CASE ~(task[w].last <= task[w].after)
    <2>1. PICK k \in {-1} \cup {ch.number : ch \in chunks} :
            task' = [task EXCEPT ![w].next = task[w].after + 1,
                                 ![w].number = FirstChunkNumber(k)]
      BY <1>2 DEF BuildChunks
    <2> DEFINE t == [task[w] EXCEPT !.next = task[w].after + 1,
                                    !.number = FirstChunkNumber(k)]
    <2>2. FirstChunkNumber(k) \in Nat
      BY DEF TypeInv, TypeOK, ChunkOK, FirstChunkNumber
    <2>3. task[w].after + 1 \in 1 .. MaxLines + 1
      BY TypeOfTask, SizesAssumption
    <2>4. t \in TaskType
      BY <2>2, <2>3, TypeOfTask DEF TaskType
    <2>5. /\ t.after = task[w].after /\ t.last = task[w].last
          /\ t.lines = task[w].lines /\ t.next = task[w].after + 1
      BY TypeOfTask DEF TaskType
    <2>6. task' = [task EXCEPT ![w] = t] /\ Goto(w, "save") /\ pc[w] = "build"
      BY <1>2, <2>1 DEF BuildChunks
    <2>7. "save" \in CollectSteps
      BY DEF CollectSteps
    <2> HIDE DEF t
    <2>8. /\ task' \in [Workers -> TaskType] /\ task'[w] = t
          /\ pc' \in [Workers -> {"idle"} \cup CollectSteps \cup CheckSteps]
          /\ pc'[w] = "save"
          /\ \A v \in Workers \ {w} : ReadOf(v)'
      BY <2>4, <2>6, <2>7, TaskStep
    <2>9. ReadOf(w) /\ task[w].after < t.next /\ t.next <= task[w].last
      BY <1>2, <2>5, TypeOfTask, SizesAssumption DEF TypeInv, ReadOK
    <2>10. ReadOf(w)'
      BY <2>5, <2>6, <2>8, <2>9 DEF ReadOf
    <2> QED BY <2>8, <2>10 DEF TypeInv, TypeOK, ReadOK, BuildChunks, world, store
  <1> QED BY <1>1, <1>2

(* What a batch stores, and the task after it. *)
LEMMA SaveBatchCases ==
  ASSUME NEW w \in Workers, SaveBatch(w)
  PROVE  \E e \in task[w].next .. task[w].last :
           LET t == task[w]
               new == NewChunks(t.lines, t.next, e, t.number)
           IN  \/ Finish(w) /\ UNCHANGED <<entries, chunks>>
               \/ /\ entries' = [n \in LineNumber |->
                                   IF n \in t.next .. e THEN t.lines[n] ELSE entries[n]]
                  /\ chunks' = chunks \cup new
                  /\ ~Conflict(t.next, e, new)
                  /\ task' = [task EXCEPT
                                ![w] = [t EXCEPT !.next = e + 1,
                                          !.number = t.number + ChunkCount(t.next, e)]]
                  /\ Goto(w, IF e = t.last THEN "record" ELSE "save")
                  /\ UNCHANGED lock
  BY DEF SaveBatch

(* The lines a batch stores are contents of the lines read. *)
LEMMA SaveRange ==
  ASSUME TypeInv, NEW w \in Workers, pc[w] = "save",
         NEW e \in task[w].next .. task[w].last
  PROVE  /\ task[w].next \in LineNumber /\ task[w].next \in Nat
         /\ e \in LineNumber /\ e \in Nat
         /\ task[w].next <= e
         /\ e \in task[w].next .. MaxLines
         /\ task[w].lines \in Numbered
         /\ task[w].number \in Nat
         /\ \A n \in task[w].next .. e : task[w].lines[n] \in Contents
  <1>1. /\ task[w].next \in 1 .. MaxLines + 1
        /\ task[w].last \in 0 .. MaxLines
        /\ task[w].after \in 0 .. MaxLines
        /\ task[w].lines \in Numbered
        /\ task[w].number \in Nat
    BY TypeOfTask
  <1>2. /\ task[w].after < task[w].next /\ task[w].next <= task[w].last
        /\ \A n \in task[w].after + 1 .. task[w].last : task[w].lines[n] \in Contents
    BY DEF TypeInv, ReadOK, ReadOf
  <1>3. MaxLines \in Nat
    BY SizesAssumption
  <1>4. /\ task[w].next \in LineNumber /\ e \in LineNumber
        /\ task[w].next <= e /\ e \in task[w].next .. MaxLines
    BY <1>1, <1>2, <1>3 DEF LineNumber
  <1>5. ASSUME NEW n \in task[w].next .. e
        PROVE  task[w].lines[n] \in Contents
    <2>1. n \in task[w].after + 1 .. task[w].last
      BY <1>1, <1>2, <1>3
    <2> QED BY <1>2, <2>1
  <1> QED BY <1>1, <1>3, <1>4, <1>5 DEF LineNumber

LEMMA ChunkCountType ==
  ASSUME NEW from \in Nat, NEW e \in Nat, from <= e
  PROVE  ChunkCount(from, e) \in Nat
  <1>1. ChunkSize \in Nat /\ ChunkSize > 0
    BY SizesAssumption
  <1> QED BY <1>1 DEF ChunkCount

LEMMA SaveType ==
  ASSUME TypeInv, NEW w \in Workers, SaveBatch(w)
  PROVE  TypeInv'
  <1>0. /\ pc[w] = "save"
        /\ UNCHANGED <<world, row, verdict, faults>>
    BY DEF SaveBatch
  <1>1. PICK e \in task[w].next .. task[w].last :
           LET t == task[w]
               new == NewChunks(t.lines, t.next, e, t.number)
           IN  \/ Finish(w) /\ UNCHANGED <<entries, chunks>>
               \/ /\ entries' = [n \in LineNumber |->
                                   IF n \in t.next .. e THEN t.lines[n] ELSE entries[n]]
                  /\ chunks' = chunks \cup new
                  /\ task' = [task EXCEPT
                                ![w] = [t EXCEPT !.next = e + 1,
                                          !.number = t.number + ChunkCount(t.next, e)]]
                  /\ Goto(w, IF e = t.last THEN "record" ELSE "save")
                  /\ UNCHANGED lock
    BY SaveBatchCases
  <1>2. /\ task[w].next \in LineNumber /\ task[w].next \in Nat
        /\ e \in LineNumber /\ e \in Nat
        /\ task[w].next <= e
        /\ e \in task[w].next .. MaxLines
        /\ task[w].lines \in Numbered
        /\ task[w].number \in Nat
        /\ \A n \in task[w].next .. e : task[w].lines[n] \in Contents
    BY <1>0, SaveRange
  <1>3. CASE Finish(w) /\ UNCHANGED <<entries, chunks>>
    BY <1>0, <1>3, FinishType DEF TypeInv, TypeOK, ChunkOK, world
  <1>4. ASSUME entries' = [n \in LineNumber |->
                            IF n \in task[w].next .. e THEN task[w].lines[n]
                                                      ELSE entries[n]],
               chunks' = chunks \cup
                           NewChunks(task[w].lines, task[w].next, e, task[w].number),
               task' = [task EXCEPT
                         ![w] = [task[w] EXCEPT
                                   !.next = e + 1,
                                   !.number = task[w].number
                                                + ChunkCount(task[w].next, e)]],
               Goto(w, IF e = task[w].last THEN "record" ELSE "save"),
               UNCHANGED lock
        PROVE  TypeInv'
    <2> DEFINE t == [task[w] EXCEPT
                       !.next = e + 1,
                       !.number = task[w].number + ChunkCount(task[w].next, e)]
               step == IF e = task[w].last THEN "record" ELSE "save"
    <2>1. entries' \in Numbered
      BY <1>2, <1>4 DEF TypeInv, TypeOK, Numbered
    <2>2. \A ch \in chunks' : ChunkOK(ch)'
      <3>1. \A ch \in NewChunks(task[w].lines, task[w].next, e, task[w].number) :
               ChunkOK(ch)
        BY <1>2, NewChunksType
      <3> QED BY <1>4, <3>1 DEF TypeInv, TypeOK, ChunkOK
    <2>3. task[w].number + ChunkCount(task[w].next, e) \in Nat
      BY <1>2, ChunkCountType
    <2>4. e + 1 \in 1 .. MaxLines + 1
      BY <1>2, SizesAssumption DEF LineNumber
    <2>5. t \in TaskType
      BY <2>3, <2>4, TypeOfTask DEF TaskType
    <2>6. /\ t.after = task[w].after /\ t.last = task[w].last
          /\ t.lines = task[w].lines /\ t.next = e + 1
      BY TypeOfTask DEF TaskType
    <2>7. task' = [task EXCEPT ![w] = t] /\ Goto(w, step)
      BY <1>4
    <2>8. step \in CollectSteps /\ step \in {"record", "save"}
      BY DEF CollectSteps
    <2>9. step = "save" => e # task[w].last
      OBVIOUS
    <2> HIDE DEF t, step
    <2>10. /\ task' \in [Workers -> TaskType] /\ task'[w] = t
           /\ pc' \in [Workers -> {"idle"} \cup CollectSteps \cup CheckSteps]
           /\ pc'[w] = step
           /\ \A v \in Workers \ {w} : ReadOf(v)'
      BY <2>5, <2>7, <2>8, TaskStep
    <2>11. /\ ReadOf(w)
           /\ step = "save" => task[w].after < e + 1 /\ e + 1 <= task[w].last
      BY <1>0, <1>2, <2>9, TypeOfTask DEF TypeInv, ReadOK, ReadOf
    <2>12. ReadOf(w)'
      BY <1>0, <2>6, <2>8, <2>10, <2>11 DEF ReadOf
    <2> QED BY <1>0, <1>4, <2>1, <2>2, <2>10, <2>12
            DEF TypeInv, TypeOK, ReadOK, world
  <1> QED BY <1>1, <1>3, <1>4

LEMMA RecordType ==
  ASSUME TypeInv, NEW w \in Workers, Record(w)
  PROVE  TypeInv'
  <1>1. row' \in [identity : Identity, last : 0 .. MaxLines]
    BY TypeOfTask DEF Record
  <1>2. Finish(w) /\ UNCHANGED <<world, entries, chunks, verdict, faults>>
    BY DEF Record
  <1> QED BY <1>1, <1>2, FinishType DEF TypeInv, TypeOK, ChunkOK, world

LEMMA CheckInspectType ==
  ASSUME TypeInv, NEW w \in Workers, CheckInspect(w)
  PROVE  TypeInv'
  <1>1. PICK seen \in {FileIdentity, NoIdentity} :
          /\ InspectGives(seen)
          /\ \/ /\ verdict' = [status |-> "error", total |-> 0, tampered |-> 0]
                /\ Finish(w)
             \/ Goto(w, "checkRead") /\ UNCHANGED <<verdict, task, lock>>
    BY DEF CheckInspect
  <1>2. faults' \in 0 .. MaxFaults /\ UNCHANGED <<world, store>>
    BY <1>1, SizesAssumption DEF TypeInv, TypeOK, InspectGives, CheckInspect
  <1>3. CASE verdict' = [status |-> "error", total |-> 0, tampered |-> 0] /\ Finish(w)
    <2>1. verdict' \in [status : {"none", "ok", "tampered", "error"},
                        total : Nat, tampered : Nat]
      BY <1>3
    <2> QED BY <1>2, <1>3, <2>1, FinishType DEF TypeInv, TypeOK, ChunkOK, world, store
  <1>4. CASE Goto(w, "checkRead") /\ UNCHANGED <<verdict, task, lock>>
    <2>1. pc' \in [Workers -> {"idle"} \cup CollectSteps \cup CheckSteps]
      BY <1>4 DEF TypeInv, TypeOK, Goto, CheckSteps
    <2>2. ReadOK'
      BY <1>4 DEF TypeInv, TypeOK, ReadOK, ReadOf, Goto
    <2> QED BY <1>2, <1>4, <2>1, <2>2 DEF TypeInv, TypeOK, ChunkOK, world, store
  <1> QED BY <1>1, <1>3, <1>4

LEMMA CheckReadType ==
  ASSUME TypeInv, NEW w \in Workers, CheckRead(w)
  PROVE  TypeInv'
  <1> DEFINE t == [task[w] EXCEPT !.lines = ReadAfter(0)]
  <1>0. ReadAfter(0) \in Numbered
    <2>1. 0 \in 0 .. MaxLines
      BY SizesAssumption
    <2> QED BY <2>1, ReadAfterType DEF TypeInv
  <1>1. t \in TaskType
    BY <1>0, TypeOfTask DEF TaskType
  <1>2. task' = [task EXCEPT ![w] = t] /\ Goto(w, "checkCount")
    BY DEF CheckRead
  <1>3. "checkCount" \in CheckSteps
    BY DEF CheckSteps
  <1> HIDE DEF t
  <1>4. /\ task' \in [Workers -> TaskType]
        /\ pc' \in [Workers -> {"idle"} \cup CollectSteps \cup CheckSteps]
        /\ pc'[w] = "checkCount"
        /\ \A v \in Workers \ {w} : ReadOf(v)'
    BY <1>1, <1>2, <1>3, TaskStep
  <1>5. ReadOf(w)'
    BY <1>4 DEF ReadOf
  <1> QED BY <1>4, <1>5 DEF TypeInv, TypeOK, ReadOK, ChunkOK, CheckRead, world, store

(* Sets of line numbers are finite. *)
LEMMA LinesFinite ==
  ASSUME NEW S, S \subseteq LineNumber
  PROVE  IsFiniteSet(S) /\ Cardinality(S) \in Nat
  <1>1. IsFiniteSet(LineNumber)
    BY FS_Interval, SizesAssumption DEF LineNumber
  <1>2. IsFiniteSet(S)
    BY <1>1, FS_Subset
  <1> QED BY <1>2, FS_CardinalityType

LEMMA CountType ==
  ASSUME TypeInv, NEW w \in Workers, CountLogEntries(w)
  PROVE  TypeInv'
  <1> DEFINE total == Cardinality(Present(entries))
             t == [task[w] EXCEPT !.total = total]
  <1>1. total \in Nat
    BY LinesFinite DEF Present
  <1>2. task' = [task EXCEPT ![w] = t] /\ Goto(w, "compare")
    BY DEF CountLogEntries
  <1>3. "compare" \in CheckSteps
    BY DEF CheckSteps
  <1> HIDE DEF total
  <1>4. t \in TaskType
    BY <1>1, TypeOfTask DEF TaskType
  <1> HIDE DEF t
  <1>5. /\ task' \in [Workers -> TaskType]
        /\ pc' \in [Workers -> {"idle"} \cup CollectSteps \cup CheckSteps]
        /\ pc'[w] = "compare"
        /\ \A v \in Workers \ {w} : ReadOf(v)'
    BY <1>2, <1>3, <1>4, TaskStep
  <1>6. ReadOf(w)'
    BY <1>5 DEF ReadOf
  <1> QED BY <1>5, <1>6 DEF TypeInv, TypeOK, ReadOK, ChunkOK, CountLogEntries, world, store

LEMMA CompareType ==
  ASSUME TypeInv, NEW w \in Workers, Compare(w)
  PROVE  TypeInv'
  <1> DEFINE tampered == FindTampered(task[w].lines)
  <1>1. Cardinality(tampered) \in Nat
    <2>1. tampered \subseteq LineNumber
      BY DEF FindTampered, StoredIn, Present
    <2> HIDE DEF tampered
    <2> QED BY <2>1, LinesFinite
  <1>2. task[w].total \in Nat
    BY TypeOfTask DEF TaskType
  <1>3. /\ verdict' = [status   |-> IF tampered = {} THEN "ok" ELSE "tampered",
                       total    |-> task[w].total,
                       tampered |-> Cardinality(tampered)]
        /\ Finish(w) /\ UNCHANGED <<world, store, faults>>
    BY DEF Compare
  <1> HIDE DEF tampered
  <1>4. verdict' \in [status : {"none", "ok", "tampered", "error"},
                      total : Nat, tampered : Nat]
    BY <1>1, <1>2, <1>3
  <1> QED BY <1>3, <1>4, FinishType DEF TypeInv, TypeOK, ChunkOK, world, store

(* Every step keeps the types. *)
LEMMA NextType == TypeInv /\ [Next]_vars => TypeInv'
  <1> SUFFICES ASSUME TypeInv, [Next]_vars PROVE TypeInv'
    OBVIOUS
  <1>1. CASE Environment
    BY <1>1, EnvironmentType
  <1>2. ASSUME NEW w \in Workers, StartCollect(w) PROVE TypeInv'
    BY <1>2, StartType DEF StartCollect
  <1>3. ASSUME NEW w \in Workers, StartCheck(w) PROVE TypeInv'
    BY <1>3, StartType DEF StartCheck
  <1>4. ASSUME NEW w \in Workers, Collect(w) PROVE TypeInv'
    BY <1>4, InspectType, MaxType, ReadType, DropEntriesType, DropChunksType,
       BuildType, SaveType, RecordType DEF Collect
  <1>5. ASSUME NEW w \in Workers, Check(w) PROVE TypeInv'
    BY <1>5, CheckInspectType, CheckReadType, CountType, CompareType DEF Check
  <1>6. ASSUME NEW w \in Workers, Fail(w) PROVE TypeInv'
    BY <1>6, FailType
  <1>7. CASE UNCHANGED vars
    BY <1>7 DEF vars, TypeInv, TypeOK, ReadOK, ReadOf, ChunkOK
  <1> QED BY <1>1, <1>2, <1>3, <1>4, <1>5, <1>6, <1>7 DEF Next

(* Every variable keeps its type in every behaviour of collections and     *)
(* checks: lines stored are contents of lines read, never gaps of a read.  *)
THEOREM TypeCorrect == Spec => []TypeOK
  <1>1. Spec => []TypeInv
    BY InitType, NextType, PTL DEF Spec
  <1>2. TypeInv => TypeOK
    BY DEF TypeInv
  <1> QED BY <1>1, <1>2, PTL

-----------------------------------------------------------------------------
(* The chunked comparison                                                  *)

Covers(ch, n) == n \in ch.from .. ch.to

(* What makes it right to skip the entries of a matching chunk: a stored   *)
(* line is covered by no chunk, or by one whose hash was computed from it. *)
Described(n) ==
  \/ \A ch \in chunks : ~Covers(ch, n)
  \/ \E ch \in chunks : Covers(ch, n) /\ ch.hash[n] = entries[n]

AllDescribed == \A n \in Present(entries) : Described(n)

LEMMA SaveDescribes ==
  ASSUME TypeInv, AllDescribed, NEW w \in Workers, SaveBatch(w)
  PROVE  AllDescribed'
  <1>1. PICK e \in task[w].next .. task[w].last :
           LET t == task[w]
               new == NewChunks(t.lines, t.next, e, t.number)
           IN  \/ UNCHANGED <<entries, chunks>>
               \/ /\ entries' = [n \in LineNumber |->
                                   IF n \in t.next .. e THEN t.lines[n] ELSE entries[n]]
                  /\ chunks' = chunks \cup new
    BY SaveBatchCases
  <1>2. /\ task[w].next \in Nat /\ e \in Nat /\ task[w].next <= e
        /\ task[w].number \in Nat
    BY SaveRange DEF SaveBatch
  <1> DEFINE new == NewChunks(task[w].lines, task[w].next, e, task[w].number)
  <1>3. CASE UNCHANGED <<entries, chunks>>
    BY <1>3 DEF AllDescribed, Described, Covers
  <1>4. ASSUME entries' = [n \in LineNumber |->
                            IF n \in task[w].next .. e THEN task[w].lines[n]
                                                      ELSE entries[n]],
               chunks' = chunks \cup new
        PROVE  AllDescribed'
    <2> SUFFICES ASSUME NEW n \in LineNumber, entries'[n] # NoLine
                 PROVE  Described(n)'
      BY DEF AllDescribed, Present
    <2>1. CASE n \in task[w].next .. e
      <3>1. PICK k \in 0 .. ChunkCount(task[w].next, e) - 1 :
                   /\ task[w].next + k * ChunkSize <= n
                   /\ n <= ChunkEnd(task[w].next, k, e)
        BY <1>2, <2>1, ChunkOfLine
      <3> DEFINE ch == NewChunk(task[w].lines, task[w].next, e, task[w].number, k)
      <3>2. ch \in new
        BY DEF NewChunks
      <3>3. /\ ch.from \in Nat /\ ch.to \in Nat
            /\ ch.hash = ChunkHash(task[w].lines, ch.from, ch.to)
        BY <1>2, <3>2, NewChunkShape
      <3>4. ch.from <= n /\ n <= ch.to
        BY <3>1 DEF NewChunk
      <3> HIDE DEF ch, new
      <3>5. n \in ch.from .. ch.to
        BY <3>3, <3>4, SizesAssumption DEF LineNumber
      <3>6. ch.hash[n] = task[w].lines[n]
        BY <3>3, <3>5 DEF ChunkHash
      <3>7. entries'[n] = task[w].lines[n]
        BY <1>4, <2>1
      <3> QED BY <1>4, <3>2, <3>5, <3>6, <3>7 DEF Described, Covers
    <2>2. CASE n \notin task[w].next .. e
      <3>1. entries'[n] = entries[n] /\ Described(n)
        BY <1>4, <2>2 DEF AllDescribed, Present
      <3>2. ASSUME NEW ch \in new PROVE ~Covers(ch, n)
        <4>1. /\ ch.from \in Nat /\ ch.to \in Nat
              /\ task[w].next <= ch.from /\ ch.to <= e
          BY <1>2, NewChunkShape
        <4> QED BY <1>2, <2>2, <4>1, SizesAssumption DEF Covers, LineNumber
      <3> HIDE DEF new
      <3> QED BY <1>4, <3>1, <3>2 DEF Described, Covers
    <2> QED BY <2>1, <2>2
  <1> QED BY <1>1, <1>3, <1>4

LEMMA DropDescribes ==
  ASSUME NEW w \in Workers, DropEntries(w) \/ DropChunks(w), AllDescribed
  PROVE  AllDescribed'
  <1>1. CASE DropEntries(w)
    BY <1>1 DEF DropEntries, AllDescribed, Present, NoLines
  <1>2. CASE DropChunks(w)
    BY <1>2 DEF DropChunks, AllDescribed, Described, Present
  <1> QED BY <1>1, <1>2

(* Every other step leaves entries and chunks alone. *)
LEMMA StoreUntouched ==
  ASSUME \/ Environment
         \/ \E w \in Workers :
              \/ StartCollect(w) \/ StartCheck(w) \/ Fail(w) \/ Check(w)
              \/ Inspect(w) \/ GetMaxLineNumber(w) \/ ReadLines(w)
              \/ BuildChunks(w) \/ Record(w)
         \/ UNCHANGED vars
  PROVE  UNCHANGED <<entries, chunks>>
  BY DEF Environment, AppendLine, Rotate, Truncate, EditLine, StartCollect,
     StartCheck, Start, Fail, Check, CheckInspect, CheckRead, CountLogEntries,
     Compare, Inspect, GetMaxLineNumber, ReadLines, BuildChunks, Record, vars, store

LEMMA NextDescribes == TypeInv /\ AllDescribed /\ [Next]_vars => AllDescribed'
  <1> SUFFICES ASSUME TypeInv, AllDescribed, [Next]_vars PROVE AllDescribed'
    OBVIOUS
  <1>1. ASSUME UNCHANGED <<entries, chunks>> PROVE AllDescribed'
    BY <1>1 DEF AllDescribed, Described, Covers
  <1>2. ASSUME NEW w \in Workers, SaveBatch(w) PROVE AllDescribed'
    BY <1>2, SaveDescribes
  <1>3. ASSUME NEW w \in Workers, DropEntries(w) \/ DropChunks(w) PROVE AllDescribed'
    BY <1>3, DropDescribes
  <1> QED BY <1>1, <1>2, <1>3, StoreUntouched DEF Next, Collect

(* A chunk whose hash matches the lines read holds no changed entry that   *)
(* its hash was computed from.                                             *)
LEMMA ComparisonExact ==
  ASSUME AllDescribed, NEW current
  PROVE  FindTampered(current) = {n \in Present(entries) : Differs(current, n)}
  <1>1. ASSUME NEW n \in FindTampered(current)
        PROVE  n \in Present(entries) /\ Differs(current, n)
    BY DEF FindTampered, StoredIn
  <1>2. ASSUME NEW n \in Present(entries), Differs(current, n)
        PROVE  n \in FindTampered(current)
    <2>1. CASE n \notin Covered
      BY <1>2, <2>1 DEF FindTampered
    <2>2. CASE n \in Covered
      <3>1. PICK ch \in chunks : Covers(ch, n) /\ ch.hash[n] = entries[n]
        BY <2>2 DEF AllDescribed, Described, Covered, StoredIn, Covers
      <3>2. n \in StoredIn(ch)
        BY <3>1 DEF StoredIn, Covers
      <3>3. ~HashMatches(current, ch)
        <4> SUFFICES ASSUME HashMatches(current, ch) PROVE FALSE
          OBVIOUS
        <4>1. ch.hash[n] = current[n]
          BY <3>1 DEF HashMatches, ChunkHash, Covers
        <4> QED BY <1>2, <3>1, <4>1 DEF Differs
      <3> QED BY <1>2, <3>2, <3>3 DEF FindTampered
    <2> QED BY <2>1, <2>2
  <1> QED BY <1>1, <1>2

(* findTamperedEntries reports exactly the stored entries that differ from *)
(* the lines read, whatever the chunk and batch sizes, the number of       *)
(* operations and whether they are isolated: the aggregate hash of a chunk *)
(* never hides a changed line.                                             *)
THEOREM VerdictIsExact == Spec => []VerdictExact
  <1>1. Init => AllDescribed
    BY DEF Init, AllDescribed, Present, NoLines
  <1>2. Spec => [](TypeInv /\ AllDescribed)
    BY <1>1, InitType, NextType, NextDescribes, PTL DEF Spec
  <1>3. AllDescribed => VerdictExact
    BY ComparisonExact DEF VerdictExact
  <1> QED BY <1>2, <1>3, PTL
=============================================================================
