------------------------ MODULE LogBaselineStoreProofs ------------------------
(***************************************************************************)
(* Theorems about what LogBaseline stores while operations on a server are *)
(* isolated, for every value of the other constants.                       *)
(***************************************************************************)
EXTENDS LogBaselineProofs

-----------------------------------------------------------------------------
(* The inductive invariant                                                 *)

(* Whoever is at work holds the server's lock. *)
Alone == \A w \in Workers : pc[w] # "idle" => lock = w

StoredUpTo(m) == \A n \in LineNumber : entries[n] # NoLine <=> n <= m
Gapless == \E m \in 0 .. MaxLines : StoredUpTo(m)

HoldingSteps == {"dropEntries", "dropChunks", "build", "save", "record"}

(* What a collection has read are the lines after those it has seen. *)
ReadWhole(w) ==
  pc[w] \in HoldingSteps =>
    \A n \in LineNumber :
      task[w].lines[n] # NoLine <=> (task[w].after < n /\ n <= task[w].last)

(* A collection that resets reads from the first line. *)
ResetKnown(w) ==
  /\ pc[w] \in {"inspect", "max"} => ~task[w].reset
  /\ pc[w] = "inspect" => task[w].after = 0
  /\ pc[w] \in {"dropEntries", "dropChunks"} => task[w].reset
  /\ (pc[w] \in CollectSteps /\ task[w].reset) => task[w].after = 0

(* It stores what follows the stored lines, under numbers not used yet. *)
StoreKnown(w) ==
  /\ (pc[w] \in {"read", "build"} /\ ~task[w].reset) => StoredUpTo(task[w].after)
  /\ (pc[w] = "dropChunks" \/ (pc[w] = "build" /\ task[w].reset)) => StoredUpTo(0)
  /\ (pc[w] = "build" /\ task[w].reset) => chunks = {}
  /\ pc[w] = "save" =>
       /\ StoredUpTo(task[w].next - 1)
       /\ \A ch \in chunks : ch.number < task[w].number

(* The baseline up to line m are the lines read, cut by the chunks. *)
CutUp(lines, m) ==
  /\ \A n \in LineNumber : entries[n] = IF n <= m THEN lines[n] ELSE NoLine
  /\ \A ch \in chunks : ch.to <= m /\ ch.hash = ChunkHash(lines, ch.from, ch.to)
  /\ \A n \in LineNumber : n <= m => \E ch \in chunks : Covers(ch, n)
  /\ \A n \in LineNumber, c, d \in chunks : Covers(c, n) /\ Covers(d, n) => c = d

Replacing(w) ==
  /\ (pc[w] = "save" /\ task[w].reset) => CutUp(task[w].lines, task[w].next - 1)
  /\ (pc[w] = "record" /\ task[w].reset) => CutUp(task[w].lines, task[w].last)

StepOf(w) == ReadWhole(w) /\ ResetKnown(w) /\ StoreKnown(w) /\ Replacing(w)

StoreInv == Alone /\ Gapless /\ \A w \in Workers : StepOf(w)

-----------------------------------------------------------------------------
(* One operation at a time                                                 *)

LEMMA AloneAtWork ==
  ASSUME Alone, NEW w \in Workers, lock = w, NEW v \in Workers, v # w
  PROVE  pc[v] = "idle"
  BY DEF Alone

(* A step of an operation is its own: the others stay idle. *)
LEMMA OthersIdle ==
  ASSUME TypeInv, Alone, NEW w \in Workers, Collect(w) \/ Check(w) \/ Fail(w)
  PROVE  /\ lock = w /\ Alone'
         /\ \A v \in Workers : v # w => pc[v] = "idle" /\ pc'[v] = "idle"
  <1>1. pc[w] # "idle"
    BY DEF Collect, Check, Fail, Inspect, GetMaxLineNumber, ReadLines, DropEntries,
       DropChunks, BuildChunks, SaveBatch, Record, CheckInspect, CheckRead,
       CountLogEntries, Compare
  <1>2. lock = w
    BY <1>1 DEF Alone
  <1>3. \E step : pc' = [pc EXCEPT ![w] = step] /\ (lock' = lock \/ step = "idle")
    BY DEF Collect, Check, Fail, Inspect, GetMaxLineNumber, ReadLines, DropEntries,
       DropChunks, BuildChunks, SaveBatch, Record, CheckInspect, CheckRead,
       CountLogEntries, Compare, Goto, Finish
  <1>4. \A v \in Workers : v # w => pc[v] = "idle" /\ pc'[v] = "idle"
    BY <1>2, <1>3, AloneAtWork DEF TypeInv, TypeOK
  <1>5. Alone'
    BY <1>2, <1>3, <1>4 DEF Alone, TypeInv, TypeOK
  <1> QED BY <1>2, <1>4, <1>5

LEMMA StartAlone ==
  ASSUME Isolation, TypeInv, Alone, NEW w \in Workers,
         NEW step \in {"inspect", "checkInspect"}, Start(w, step)
  PROVE  Alone' /\ \A v \in Workers : pc[v] = "idle" /\ (v # w => pc'[v] = "idle")
  <1>1. \A v \in Workers : pc[v] = "idle"
    BY WorkersAssumption DEF Start, Alone
  <1>2. pc' = [pc EXCEPT ![w] = step] /\ lock' = w
    BY DEF Start, Goto
  <1> QED BY <1>1, <1>2 DEF Alone, TypeInv, TypeOK

(* An idle operation knows nothing that could go stale. *)
LEMMA IdleStep ==
  ASSUME NEW w \in Workers, pc[w] = "idle"
  PROVE  StepOf(w)
  BY DEF StepOf, ReadWhole, HoldingSteps, ResetKnown, CollectSteps, StoreKnown, Replacing

LEMMA IdleStepNext ==
  ASSUME NEW w \in Workers, pc'[w] = "idle"
  PROVE  StepOf(w)'
  BY DEF StepOf, ReadWhole, HoldingSteps, ResetKnown, CollectSteps, StoreKnown, Replacing

-----------------------------------------------------------------------------
(* The steps of a collection                                               *)

LEMMA InspectStore ==
  ASSUME TypeInv, NEW w \in Workers, StepOf(w), Inspect(w)
  PROVE  StepOf(w)'
  <1>1. PICK seen \in {FileIdentity, NoIdentity} :
          /\ task' = [task EXCEPT ![w].seen = seen,
                                  ![w].reset = ShouldReset(task[w].known, seen)]
          /\ Goto(w, IF ShouldReset(task[w].known, seen) THEN "read" ELSE "max")
          /\ pc[w] = "inspect"
    BY DEF Inspect
  <1> DEFINE reset == ShouldReset(task[w].known, seen)
  <1>2. reset \in BOOLEAN
    BY DEF ShouldReset
  <1>3. /\ pc'[w] = IF reset THEN "read" ELSE "max"
        /\ task'[w].reset = reset /\ task'[w].after = task[w].after
    BY <1>1, TypeOfTask DEF TypeInv, TypeOK, Goto, TaskType
  <1>4. task[w].after = 0
    BY <1>1 DEF StepOf, ResetKnown
  <1> HIDE DEF reset
  <1> QED BY <1>2, <1>3, <1>4 DEF StepOf, ReadWhole, HoldingSteps, ResetKnown, StoreKnown, Replacing

(* The greatest stored line is the last of the prefix. *)
LEMMA MaxIsLast ==
  ASSUME Gapless, NEW m \in 0 .. MaxLines, IsMaxLineNumber(m)
  PROVE  StoredUpTo(m)
  <1>1. PICK k \in 0 .. MaxLines : StoredUpTo(k)
    BY DEF Gapless
  <1>2. MaxLines \in Nat
    BY SizesAssumption
  <1>3. CASE k = 0
    <2>1. m = 0
      BY <1>1, <1>2, <1>3 DEF IsMaxLineNumber, Present, StoredUpTo, LineNumber
    <2> QED BY <1>1, <1>3, <2>1
  <1>4. CASE k # 0
    <2>1. k \in Present(entries)
      BY <1>1, <1>2, <1>4 DEF Present, StoredUpTo, LineNumber
    <2>2. k <= m /\ (m = 0 \/ m <= k)
      BY <1>1, <2>1 DEF IsMaxLineNumber, Present, StoredUpTo
    <2>3. m = k
      BY <1>2, <1>4, <2>2
    <2> QED BY <1>1, <2>3
  <1> QED BY <1>3, <1>4

LEMMA MaxStore ==
  ASSUME TypeInv, Gapless, NEW w \in Workers, StepOf(w), GetMaxLineNumber(w)
  PROVE  StepOf(w)'
  <1>1. PICK m \in 0 .. MaxLines :
               IsMaxLineNumber(m) /\ task' = [task EXCEPT ![w].after = m]
    BY DEF GetMaxLineNumber
  <1>2. pc[w] = "max" /\ Goto(w, "read") /\ UNCHANGED entries
    BY DEF GetMaxLineNumber, store
  <1>3. /\ pc'[w] = "read" /\ task'[w].after = m
        /\ task'[w].reset = task[w].reset
    BY <1>1, <1>2, TypeOfTask DEF TypeInv, TypeOK, Goto, TaskType
  <1>4. ~task[w].reset
    BY <1>2 DEF StepOf, ResetKnown
  <1>5. StoredUpTo(m)'
    BY <1>1, <1>2, MaxIsLast DEF StoredUpTo
  <1> QED BY <1>3, <1>4, <1>5
          DEF StepOf, ReadWhole, HoldingSteps, ResetKnown, StoreKnown, Replacing

(* A read returns a line for every number it was asked for, and no other. *)
LEMMA ReadAfterLines ==
  ASSUME TypeInv, NEW after \in 0 .. MaxLines, NEW n \in LineNumber
  PROVE  ReadAfter(after)[n] # NoLine <=> (after < n /\ n <= Len(file.lines))
  <1>1. Len(file.lines) \in Nat /\ after \in Nat /\ n \in Nat
    BY SizesAssumption DEF TypeInv, TypeOK, LineNumber
  <1>2. n \in after + 1 .. Len(file.lines) <=> (after < n /\ n <= Len(file.lines))
    BY <1>1
  <1>3. n \in after + 1 .. Len(file.lines) => ReadAfter(after)[n] \in Contents
    BY ReadAfterType DEF TypeInv
  <1> QED BY <1>2, <1>3, LinesAssumption DEF ReadAfter

LEMMA ReadStore ==
  ASSUME TypeInv, NEW w \in Workers, StepOf(w), ReadLines(w)
  PROVE  StepOf(w)'
  <1>1. /\ pc[w] = "read" /\ UNCHANGED entries
        /\ task' = [task EXCEPT ![w].lines = ReadAfter(task[w].after),
                                ![w].last = Len(file.lines)]
        /\ Goto(w, IF task[w].reset THEN "dropEntries" ELSE "build")
    BY DEF ReadLines, store
  <1>2. /\ pc'[w] = IF task[w].reset THEN "dropEntries" ELSE "build"
        /\ task'[w].lines = ReadAfter(task[w].after) /\ task'[w].last = Len(file.lines)
        /\ task'[w].reset = task[w].reset /\ task'[w].after = task[w].after
    BY <1>1, TypeOfTask DEF TypeInv, TypeOK, Goto, TaskType
  <1>3. ReadWhole(w)'
    BY <1>2, TypeOfTask, ReadAfterLines DEF ReadWhole
  <1>4. /\ task[w].reset => task[w].after = 0
        /\ ~task[w].reset => StoredUpTo(task[w].after)
    BY <1>1 DEF StepOf, ResetKnown, StoreKnown, CollectSteps
  <1>5. ~task[w].reset => StoredUpTo(task[w].after)'
    BY <1>1, <1>2, <1>4 DEF StoredUpTo
  <1> QED BY <1>2, <1>3, <1>4, <1>5 DEF StepOf, ResetKnown, StoreKnown, Replacing

LEMMA DropEntriesStore ==
  ASSUME TypeInv, NEW w \in Workers, StepOf(w), DropEntries(w)
  PROVE  StepOf(w)' /\ StoredUpTo(0)'
  <1>1. pc[w] = "dropEntries" /\ pc'[w] = "dropChunks" /\ task' = task
    BY DEF DropEntries, TypeInv, TypeOK, Goto
  <1>2. StoredUpTo(0)'
    BY DEF DropEntries, StoredUpTo, NoLines, LineNumber
  <1> QED BY <1>1, <1>2
          DEF StepOf, ReadWhole, HoldingSteps, ResetKnown, CollectSteps, StoreKnown, Replacing

LEMMA DropChunksStore ==
  ASSUME TypeInv, NEW w \in Workers, StepOf(w), DropChunks(w)
  PROVE  StepOf(w)'
  <1>1. /\ pc[w] = "dropChunks" /\ Goto(w, "build") /\ entries' = entries /\ chunks' = {}
        /\ task' = [task EXCEPT ![w].lastKnown = 0]
    BY DEF DropChunks
  <1>2. /\ pc'[w] = "build"
        /\ task'[w].lines = task[w].lines /\ task'[w].last = task[w].last
        /\ task'[w].after = task[w].after /\ task'[w].reset = task[w].reset
    BY <1>1, TypeOfTask DEF TypeInv, TypeOK, Goto, TaskType
  <1>3. StoredUpTo(0)'
    BY <1>1 DEF StepOf, StoreKnown, StoredUpTo
  <1> QED BY <1>1, <1>2, <1>3
          DEF StepOf, ReadWhole, HoldingSteps, ResetKnown, CollectSteps, StoreKnown, Replacing

(* An empty baseline is cut up, whatever the lines. *)
LEMMA NothingCutUp ==
  ASSUME StoredUpTo(0)', chunks' = {}, NEW lines
  PROVE  CutUp(lines, 0)'
  BY SizesAssumption DEF CutUp, StoredUpTo, LineNumber

(* What a collection knows before it saves its next batch. *)
LEMMA SaveStepNext ==
  ASSUME NEW w \in Workers, NEW lines, NEW m \in Nat,
         pc'[w] = "save", task'[w].lines = lines, task'[w].next = m + 1,
         StoredUpTo(m)', \A ch \in chunks' : ch.number < task'[w].number,
         task'[w].reset => task'[w].after = 0 /\ CutUp(lines, m)',
         ReadWhole(w)'
  PROVE  StepOf(w)'
  <1>1. task'[w].next - 1 = m
    OBVIOUS
  <1>2. StoreKnown(w)'
    BY <1>1 DEF StoreKnown, StoredUpTo
  <1>3. Replacing(w)'
    BY <1>1 DEF Replacing, CutUp
  <1>4. ResetKnown(w)'
    BY DEF ResetKnown, CollectSteps
  <1> QED BY <1>2, <1>3, <1>4 DEF StepOf

(* What it knows before it writes the record. *)
LEMMA RecordStepNext ==
  ASSUME NEW w \in Workers, NEW lines, NEW m,
         pc'[w] = "record", task'[w].lines = lines, task'[w].last = m,
         task'[w].reset => task'[w].after = 0 /\ CutUp(lines, m)',
         ReadWhole(w)'
  PROVE  StepOf(w)'
  <1>1. StoreKnown(w)'
    BY DEF StoreKnown
  <1>2. Replacing(w)'
    BY DEF Replacing, CutUp
  <1>3. ResetKnown(w)'
    BY DEF ResetKnown, CollectSteps
  <1> QED BY <1>1, <1>2, <1>3 DEF StepOf

LEMMA BuildStore ==
  ASSUME TypeInv, NEW w \in Workers, StepOf(w), BuildChunks(w)
  PROVE  StepOf(w)'
  <1>0. pc[w] = "build" /\ UNCHANGED <<entries, chunks>>
    BY DEF BuildChunks, store
  <1>1. /\ task[w].reset => task[w].after = 0 /\ chunks = {}
        /\ StoredUpTo(task[w].after)
        /\ task[w].last \in Nat /\ task[w].after \in Nat
    BY <1>0, TypeOfTask, SizesAssumption
       DEF StepOf, ResetKnown, StoreKnown, CollectSteps
  <1> PICK lines, after, last : lines = task[w].lines /\ after = task[w].after
                                /\ last = task[w].last
    OBVIOUS
  <1>2. after \in Nat /\ StoredUpTo(after)'
    BY <1>0, <1>1 DEF StoredUpTo
  <1>3. task[w].reset => after = 0 /\ CutUp(lines, 0)'
    BY <1>0, <1>1, <1>2, NothingCutUp
  <1>4. CASE last <= after
    <2>1. pc'[w] = "record" /\ task' = task
      BY <1>4 DEF BuildChunks, Goto, TypeInv, TypeOK
    <2>2. ReadWhole(w)'
      BY <1>0, <2>1 DEF StepOf, ReadWhole, HoldingSteps
    <2>3. task[w].reset => CutUp(lines, last)'
      BY <1>1, <1>3, <1>4
    <2> QED BY <1>3, <2>1, <2>2, <2>3, RecordStepNext
  <1>5. CASE ~(last <= after)
    <2>1. PICK k \in {-1} \cup {ch.number : ch \in chunks} :
            /\ IsLatestChunk(k)
            /\ task' = [task EXCEPT ![w].next = task[w].after + 1,
                                    ![w].number = FirstChunkNumber(k)]
            /\ Goto(w, "save")
      BY <1>5 DEF BuildChunks
    <2>2. /\ pc'[w] = "save" /\ task'[w].next = after + 1
          /\ task'[w].number = k + 1
          /\ task'[w].lines = lines /\ task'[w].last = task[w].last
          /\ task'[w].after = after /\ task'[w].reset = task[w].reset
      BY <2>1, TypeOfTask DEF TypeInv, TypeOK, Goto, TaskType, FirstChunkNumber
    <2>3. \A ch \in chunks : ch.number < k + 1
      <3>1. \A ch \in chunks : ch.number \in Nat
        BY DEF TypeInv, TypeOK, ChunkOK
      <3> QED BY <2>1, <3>1 DEF IsLatestChunk
    <2>4. ReadWhole(w)'
      BY <1>0, <2>2 DEF StepOf, ReadWhole, HoldingSteps
    <2> QED BY <1>0, <1>2, <1>3, <2>2, <2>3, <2>4, SaveStepNext
  <1> QED BY <1>4, <1>5

(* The chunks of a batch have consecutive numbers. *)
LEMMA NewChunkNumbers ==
  ASSUME NEW lines, NEW from \in Nat, NEW e \in Nat, from <= e,
         NEW number \in Nat, NEW ch \in NewChunks(lines, from, e, number)
  PROVE  number <= ch.number /\ ch.number < number + ChunkCount(from, e)
  <1>1. ChunkCount(from, e) \in Nat
    BY ChunkCountType
  <1>2. PICK k \in 0 .. ChunkCount(from, e) - 1 : ch = NewChunk(lines, from, e, number, k)
    BY DEF NewChunks
  <1> QED BY <1>1, <1>2 DEF NewChunk

(* A line of a batch is in one chunk of it only. *)
LEMMA NewChunksApart ==
  ASSUME NEW lines, NEW from \in Nat, NEW e \in Nat, from <= e, NEW number \in Nat,
         NEW c \in NewChunks(lines, from, e, number),
         NEW d \in NewChunks(lines, from, e, number),
         NEW n \in Nat, Covers(c, n), Covers(d, n)
  PROVE  c = d
  <1>1. PICK k \in 0 .. ChunkCount(from, e) - 1 : c = NewChunk(lines, from, e, number, k)
    BY DEF NewChunks
  <1>2. PICK j \in 0 .. ChunkCount(from, e) - 1 : d = NewChunk(lines, from, e, number, j)
    BY DEF NewChunks
  <1>3. ChunkSize \in Nat /\ ChunkSize > 0 /\ k \in Nat /\ j \in Nat
    BY SizesAssumption
  <1>4. ASSUME NEW a \in Nat, NEW b \in Nat, a < b,
               from + b * ChunkSize <= n, n <= ChunkEnd(from, a, e)
        PROVE  FALSE
    <2>1. b * ChunkSize \in Nat /\ (a + 1) * ChunkSize \in Nat
      BY <1>3
    <2>2. (a + 1) * ChunkSize <= b * ChunkSize
      BY <1>3, <1>4
    <2>3. n <= from + (a + 1) * ChunkSize - 1
      BY <1>4, <2>1 DEF ChunkEnd
    <2> QED BY <1>4, <2>1, <2>2, <2>3
  <1>5. /\ from + k * ChunkSize <= n /\ n <= ChunkEnd(from, k, e)
        /\ from + j * ChunkSize <= n /\ n <= ChunkEnd(from, j, e)
    <2>1. \A i \in {j, k} : i * ChunkSize \in Nat /\ (i + 1) * ChunkSize \in Nat
      BY <1>3
    <2>2. \A i \in {j, k} : ChunkEnd(from, i, e) \in Int /\ from + i * ChunkSize \in Int
      BY <2>1 DEF ChunkEnd
    <2> QED BY <1>1, <1>2, <2>2 DEF Covers, NewChunk
  <1>6. j = k
    BY <1>3, <1>4, <1>5
  <1> QED BY <1>1, <1>2, <1>6

(* A batch continues the prefix and its cutting up. *)
LEMMA BatchContinues ==
  ASSUME NEW lines, NEW from \in LineNumber, NEW e \in from .. MaxLines, NEW number \in Nat,
         \A n \in from .. e : lines[n] \in Contents,
         StoredUpTo(from - 1),
         entries' = [n \in LineNumber |-> IF n \in from .. e THEN lines[n] ELSE entries[n]],
         chunks' = chunks \cup NewChunks(lines, from, e, number)
  PROVE  /\ StoredUpTo(e)'
         /\ (TypeOK /\ CutUp(lines, from - 1)) => CutUp(lines, e)'
  <1>1. from \in Nat /\ e \in Nat /\ from <= e /\ \A n \in LineNumber : n \in Nat
    BY SizesAssumption DEF LineNumber
  <1>2. StoredUpTo(e)'
    BY <1>1, LinesAssumption DEF StoredUpTo
  <1> DEFINE new == NewChunks(lines, from, e, number)
  <1>3. \A ch \in new :
          /\ ch.from \in Nat /\ ch.to \in Nat
          /\ from <= ch.from /\ ch.to <= e
          /\ ch.hash = ChunkHash(lines, ch.from, ch.to)
    BY <1>1, NewChunkShape
  <1>4. \A n \in from .. e : \E ch \in new : Covers(ch, n)
    <2> SUFFICES ASSUME NEW n \in from .. e PROVE \E ch \in new : Covers(ch, n)
      OBVIOUS
    <2>1. PICK k \in 0 .. ChunkCount(from, e) - 1 :
                 from + k * ChunkSize <= n /\ n <= ChunkEnd(from, k, e)
      BY <1>1, ChunkOfLine
    <2>2. NewChunk(lines, from, e, number, k) \in new
      BY DEF NewChunks
    <2>3. n \in Nat /\ k * ChunkSize \in Nat
      BY <1>1, ChunkStart
    <2>4. ChunkEnd(from, k, e) \in Int
      BY <1>3, <2>2 DEF NewChunk
    <2> QED BY <1>1, <2>1, <2>2, <2>3, <2>4 DEF Covers, NewChunk
  <1>5. \A n \in LineNumber, c, d \in new : Covers(c, n) /\ Covers(d, n) => c = d
    <2> SUFFICES ASSUME NEW n \in LineNumber, NEW c \in new, NEW d \in new,
                        Covers(c, n), Covers(d, n)
                 PROVE  c = d
      OBVIOUS
    <2>1. n \in Nat
      BY <1>1
    <2> QED BY <1>1, <2>1, NewChunksApart
  <1> HIDE DEF new
  <1>6. ASSUME TypeOK, CutUp(lines, from - 1) PROVE CutUp(lines, e)'
    <2>1. \A ch \in chunks : ch.from \in Nat /\ ch.to \in Nat
      BY <1>6, SizesAssumption DEF TypeOK, ChunkOK, LineNumber
    <2>2. chunks' = chunks \cup new
      BY DEF new
    <2>3. \A n \in LineNumber : entries'[n] = IF n <= e THEN lines[n] ELSE NoLine
      BY <1>1, <1>6 DEF CutUp
    <2>4. \A ch \in chunks' : ch.to <= e /\ ch.hash = ChunkHash(lines, ch.from, ch.to)
      BY <1>1, <1>3, <1>6, <2>1, <2>2 DEF CutUp
    <2>5. \A n \in LineNumber : n <= e => \E ch \in chunks' : Covers(ch, n)
      <3> SUFFICES ASSUME NEW n \in LineNumber, n <= e PROVE \E ch \in chunks' : Covers(ch, n)
        OBVIOUS
      <3>1. CASE n <= from - 1
        BY <1>6, <2>2, <3>1 DEF CutUp
      <3>2. CASE ~(n <= from - 1)
        <4>1. n \in from .. e
          BY <1>1, <3>2
        <4> QED BY <1>4, <2>2, <4>1
      <3> QED BY <3>1, <3>2
    <2>6. \A n \in LineNumber, c, d \in chunks' : Covers(c, n) /\ Covers(d, n) => c = d
      <3>1. \A n \in LineNumber : \A c \in chunks : Covers(c, n) => n <= from - 1
        BY <1>1, <1>6, <2>1 DEF CutUp, Covers
      <3>2. \A n \in LineNumber : \A d \in new : Covers(d, n) => ~(n <= from - 1)
        BY <1>1, <1>3 DEF Covers
      <3> QED BY <1>5, <1>6, <2>2, <3>1, <3>2 DEF CutUp
    <2> QED BY <2>3, <2>4, <2>5, <2>6 DEF CutUp, Covers
  <1> QED BY <1>2, <1>6

LEMMA SaveStore ==
  ASSUME TypeInv, NEW w \in Workers, StepOf(w), SaveBatch(w)
  PROVE  StepOf(w)' /\ (Gapless => Gapless')
  <1>0. pc[w] = "save"
    BY DEF SaveBatch
  <1> PICK e \in task[w].next .. task[w].last :
           LET t == task[w]
               new == NewChunks(t.lines, t.next, e, t.number)
           IN  \/ Finish(w) /\ UNCHANGED <<entries, chunks>>
               \/ /\ entries' = [n \in LineNumber |->
                                   IF n \in t.next .. e THEN t.lines[n] ELSE entries[n]]
                  /\ chunks' = chunks \cup new
                  /\ task' = [task EXCEPT
                                ![w] = [t EXCEPT !.next = e + 1,
                                          !.number = t.number + ChunkCount(t.next, e)]]
                  /\ Goto(w, IF e = t.last THEN "record" ELSE "save")
    BY SaveBatchCases
  <1> PICK lines, from, number, last :
        /\ lines = task[w].lines /\ from = task[w].next
        /\ number = task[w].number /\ last = task[w].last
    OBVIOUS
  <1>1. /\ from \in LineNumber /\ from \in Nat /\ e \in LineNumber /\ e \in Nat
        /\ from <= e /\ e \in from .. MaxLines /\ number \in Nat
        /\ \A n \in from .. e : lines[n] \in Contents
    BY <1>0, SaveRange
  <1>2. /\ StoredUpTo(from - 1) /\ \A ch \in chunks : ch.number < number
        /\ task[w].reset => task[w].after = 0 /\ CutUp(lines, from - 1)
    BY <1>0 DEF StepOf, StoreKnown, Replacing, ResetKnown, CollectSteps
  <1>3. CASE Finish(w) /\ UNCHANGED <<entries, chunks>>
    <2>1. pc'[w] = "idle"
      BY <1>3 DEF Finish, TypeInv, TypeOK
    <2>2. Gapless => Gapless'
      BY <1>3 DEF Gapless, StoredUpTo
    <2> QED BY <2>1, <2>2, IdleStepNext
  <1>4. ASSUME entries' = [n \in LineNumber |->
                             IF n \in from .. e THEN lines[n] ELSE entries[n]],
               chunks' = chunks \cup NewChunks(lines, from, e, number),
               task' = [task EXCEPT
                          ![w] = [task[w] EXCEPT !.next = e + 1,
                                    !.number = number + ChunkCount(from, e)]],
               Goto(w, IF e = last THEN "record" ELSE "save")
        PROVE  StepOf(w)' /\ Gapless'
    <2>1. /\ pc'[w] = IF e = last THEN "record" ELSE "save"
          /\ task'[w].next = e + 1 /\ task'[w].lines = lines /\ task'[w].last = last
          /\ task'[w].number = number + ChunkCount(from, e)
          /\ task'[w].after = task[w].after /\ task'[w].reset = task[w].reset
      BY <1>4, TypeOfTask DEF TypeInv, TypeOK, Goto, TaskType
    <2>2. /\ StoredUpTo(e)'
          /\ (TypeOK /\ CutUp(lines, from - 1)) => CutUp(lines, e)'
      BY <1>1, <1>2, <1>4, BatchContinues
    <2>3. \A ch \in chunks' : ch.number < number + ChunkCount(from, e)
      <3>1. ChunkCount(from, e) \in Nat
        BY <1>1, ChunkCountType
      <3>2. \A ch \in chunks : ch.number \in Nat
        BY DEF TypeInv, TypeOK, ChunkOK
      <3>3. ASSUME NEW ch \in NewChunks(lines, from, e, number)
            PROVE  ch.number < number + ChunkCount(from, e)
        BY <1>1, NewChunkNumbers
      <3>4. \A ch \in chunks : ch.number < number + ChunkCount(from, e)
        BY <1>1, <1>2, <3>1, <3>2
      <3> QED BY <1>4, <3>3, <3>4
    <2>4. ReadWhole(w)'
      BY <1>0, <2>1 DEF StepOf, ReadWhole, HoldingSteps
    <2>5. task'[w].reset => task'[w].after = 0 /\ CutUp(lines, e)'
      BY <1>2, <2>1, <2>2 DEF TypeInv
    <2>6. Gapless'
      <3>1. e \in 0 .. MaxLines
        BY <1>1, SizesAssumption DEF LineNumber
      <3> QED BY <2>2, <3>1 DEF Gapless
    <2>7. CASE e = last
      BY <2>1, <2>4, <2>5, <2>6, <2>7, RecordStepNext
    <2>8. CASE e # last
      BY <1>1, <2>1, <2>2, <2>3, <2>4, <2>5, <2>6, <2>8, SaveStepNext
    <2> QED BY <2>7, <2>8
  <1> QED BY <1>3, <1>4

(* The end of an operation, and every step of a check. *)
LEMMA OtherStore ==
  ASSUME TypeInv, NEW w \in Workers, Record(w) \/ Check(w) \/ Fail(w)
  PROVE  StepOf(w)' /\ UNCHANGED entries
  <1>1. pc'[w] \notin CollectSteps
    BY DEF TypeInv, TypeOK, Record, Check, Fail, Finish, CheckInspect, CheckRead,
       CountLogEntries, Compare, Goto, CollectSteps
  <1>2. UNCHANGED entries
    BY DEF Record, Check, Fail, CheckInspect, CheckRead, CountLogEntries, Compare, store
  <1> QED BY <1>1, <1>2
          DEF StepOf, ReadWhole, HoldingSteps, ResetKnown, CollectSteps, StoreKnown, Replacing

-----------------------------------------------------------------------------
(* Every step                                                              *)

LEMMA CollectStore ==
  ASSUME TypeInv, Gapless, NEW w \in Workers, StepOf(w), Collect(w)
  PROVE  StepOf(w)' /\ Gapless'
  <1>1. ASSUME UNCHANGED entries PROVE Gapless'
    BY <1>1 DEF Gapless, StoredUpTo
  <1>2. CASE Inspect(w)
    BY <1>1, <1>2, InspectStore DEF Inspect, store
  <1>3. CASE GetMaxLineNumber(w)
    BY <1>1, <1>3, MaxStore DEF GetMaxLineNumber, store
  <1>4. CASE ReadLines(w)
    BY <1>1, <1>4, ReadStore DEF ReadLines, store
  <1>5. CASE DropEntries(w)
    BY <1>5, DropEntriesStore, SizesAssumption DEF Gapless
  <1>6. CASE DropChunks(w)
    BY <1>1, <1>6, DropChunksStore DEF DropChunks
  <1>7. CASE BuildChunks(w)
    BY <1>1, <1>7, BuildStore DEF BuildChunks, store
  <1>8. CASE SaveBatch(w)
    BY <1>8, SaveStore
  <1>9. CASE Record(w)
    BY <1>1, <1>9, OtherStore
  <1> QED BY <1>2, <1>3, <1>4, <1>5, <1>6, <1>7, <1>8, <1>9 DEF Collect

LEMMA InitStore == Init => StoreInv
  <1> SUFFICES ASSUME Init PROVE StoreInv
    OBVIOUS
  <1>1. StoredUpTo(0)
    BY SizesAssumption DEF Init, StoredUpTo, NoLines, LineNumber
  <1> QED BY <1>1, IdleStep, SizesAssumption DEF Init, StoreInv, Gapless, Alone

LEMMA NextStore == Isolation /\ TypeInv /\ StoreInv /\ [Next]_vars => StoreInv'
  <1> SUFFICES ASSUME Isolation, TypeInv, StoreInv, [Next]_vars PROVE StoreInv'
    OBVIOUS
  <1>1. CASE Environment \/ UNCHANGED vars
    <2>1. UNCHANGED <<entries, chunks, lock, pc, task>>
      BY <1>1 DEF vars, Environment, AppendLine, Rotate, Truncate, EditLine, store
    <2>2. \A w \in Workers : StepOf(w)'
      BY <2>1 DEF StoreInv, StepOf, ReadWhole, ResetKnown, StoreKnown, Replacing,
         StoredUpTo, CutUp, Covers
    <2> QED BY <2>1, <2>2 DEF StoreInv, Alone, Gapless, StoredUpTo
  <1>2. ASSUME NEW w \in Workers, NEW step \in {"inspect", "checkInspect"}, Start(w, step)
        PROVE  StoreInv'
    <2>1. Alone' /\ \A v \in Workers : v # w => pc'[v] = "idle"
      BY <1>2, StartAlone DEF StoreInv
    <2>2. StepOf(w)'
      <3>1. /\ pc'[w] \in {"inspect", "checkInspect"}
            /\ task'[w].after = 0 /\ task'[w].reset = FALSE
        BY <1>2 DEF Start, Goto, TypeInv, TypeOK, IdleTask
      <3> QED BY <3>1 DEF StepOf, ReadWhole, HoldingSteps, ResetKnown, CollectSteps,
                 StoreKnown, Replacing
    <2>3. Gapless'
      BY <1>2 DEF StoreInv, Gapless, StoredUpTo, Start, store
    <2> QED BY <2>1, <2>2, <2>3, IdleStepNext DEF StoreInv
  <1>3. ASSUME NEW w \in Workers, Collect(w) \/ Check(w) \/ Fail(w) PROVE StoreInv'
    <2>1. Alone' /\ \A v \in Workers : v # w => pc'[v] = "idle"
      BY <1>3, OthersIdle DEF StoreInv
    <2>2. StepOf(w)' /\ Gapless'
      <3>1. CASE Collect(w)
        BY <3>1, CollectStore DEF StoreInv
      <3>2. CASE Check(w) \/ Fail(w)
        BY <3>2, OtherStore DEF StoreInv, Gapless, StoredUpTo
      <3> QED BY <1>3, <3>1, <3>2
    <2> QED BY <2>1, <2>2, IdleStepNext DEF StoreInv
  <1> QED BY <1>1, <1>2, <1>3 DEF Next, StartCollect, StartCheck

(* What operations on an isolated server know of its stored lines. *)
LEMMA StoreInvariant == ASSUME Isolation PROVE Spec => [](TypeInv /\ StoreInv)
  <1>1. TypeInv /\ StoreInv /\ [Next]_vars => StoreInv'
    BY NextStore
  <1> QED BY <1>1, InitType, InitStore, NextType, PTL DEF Spec

(* While operations on a server are isolated, the stored lines of a file   *)
(* never have a gap: whatever call of a collection or of a reset fails,    *)
(* what is left is a prefix, and the next collection continues it.         *)
THEOREM EntriesStayContiguous ==
  ASSUME Isolation PROVE Spec => []EntriesContiguous
  <1>1. Gapless => EntriesContiguous
    BY SizesAssumption DEF Gapless, StoredUpTo, EntriesContiguous, Present, LineNumber
  <1>2. StoreInv => EntriesContiguous
    BY <1>1 DEF StoreInv
  <1> QED BY <1>2, StoreInvariant, PTL

(* While operations on a server are isolated, a batch never runs into a    *)
(* stored line or a stored chunk number, whatever an interrupted           *)
(* collection or reset has left behind.                                    *)
THEOREM SavesNeverConflict ==
  ASSUME Isolation PROVE Spec => []NoSaveConflict
  <1>1. ASSUME TypeInv, StoreInv, NEW w \in Collectors, pc[w] = "save",
               NEW e \in task[w].next .. task[w].last
        PROVE  ~Conflict(task[w].next, e,
                         NewChunks(task[w].lines, task[w].next, e, task[w].number))
    <2>0. w \in Workers
      BY DEF Workers
    <2>1. /\ task[w].next \in LineNumber /\ task[w].next \in Nat
          /\ e \in LineNumber /\ e \in Nat /\ task[w].next <= e
          /\ task[w].number \in Nat
      BY <1>1, <2>0, SaveRange
    <2>2. StoredUpTo(task[w].next - 1) /\ \A ch \in chunks : ch.number < task[w].number
      BY <1>1, <2>0 DEF StoreInv, StepOf, StoreKnown
    <2>3. \A n \in task[w].next .. e : entries[n] = NoLine
      BY <2>1, <2>2, SizesAssumption DEF StoredUpTo, LineNumber
    <2>4. ASSUME NEW ch \in chunks,
                 NEW fresh \in NewChunks(task[w].lines, task[w].next, e, task[w].number)
          PROVE  ch.number # fresh.number
      <3>1. ch.number \in Nat /\ ch.number < task[w].number
        BY <1>1, <2>2 DEF TypeInv, TypeOK, ChunkOK
      <3>2. \E k \in Nat : fresh.number = task[w].number + k
        BY <2>1, NewChunkShape
      <3> QED BY <2>1, <3>1, <3>2
    <2> QED BY <2>3, <2>4 DEF Conflict
  <1>2. TypeInv /\ StoreInv => NoSaveConflict
    BY <1>1 DEF NoSaveConflict
  <1> QED BY <1>2, StoreInvariant, PTL

(* A collection that found the file rotated or truncated, however often    *)
(* its reset was interrupted before, replaces the whole baseline: the      *)
(* entries are the lines read, every chunk hash is that of its entries and *)
(* every entry is in exactly one chunk.                                    *)
THEOREM ResetsReplaceBaseline ==
  ASSUME Isolation PROVE Spec => []ResetReplacesBaseline
  <1>1. ASSUME TypeInv, StoreInv, NEW w \in Collectors, pc[w] = "record", task[w].reset
        PROVE  /\ entries = task[w].lines
               /\ \A ch \in chunks : ch.hash = ChunkHash(entries, ch.from, ch.to)
               /\ \A n \in Present(entries) :
                    Cardinality({ch \in chunks : n \in ch.from .. ch.to}) = 1
    <2>1. /\ CutUp(task[w].lines, task[w].last)
          /\ \A n \in LineNumber : task[w].lines[n] # NoLine
                                     <=> (task[w].after < n /\ n <= task[w].last)
          /\ task[w].after = 0
      BY <1>1 DEF Workers, StoreInv, StepOf, Replacing, ReadWhole, HoldingSteps,
         ResetKnown, CollectSteps
    <2>2. \A n \in LineNumber : n \in Nat /\ 0 < n
      BY SizesAssumption DEF LineNumber
    <2>3. entries = task[w].lines
      <3>1. task[w].lines \in Numbered /\ entries \in Numbered
        BY <1>1, TypeOfTask DEF Workers, TypeInv, TypeOK
      <3>2. \A n \in LineNumber : entries[n] = task[w].lines[n]
        BY <2>1, <2>2 DEF CutUp
      <3> QED BY <3>1, <3>2 DEF Numbered
    <2>4. \A ch \in chunks : ch.hash = ChunkHash(entries, ch.from, ch.to)
      BY <2>1, <2>3 DEF CutUp
    <2>5. ASSUME NEW n \in Present(entries)
          PROVE  Cardinality({ch \in chunks : n \in ch.from .. ch.to}) = 1
      <3>1. n \in LineNumber /\ n <= task[w].last
        BY <2>1, <2>3 DEF Present
      <3>2. PICK ch \in chunks : Covers(ch, n)
        BY <2>1, <3>1 DEF CutUp
      <3>3. {c \in chunks : n \in c.from .. c.to} = {ch}
        BY <2>1, <3>1, <3>2 DEF CutUp, Covers
      <3> QED BY <3>3, FS_Singleton
    <2> QED BY <2>3, <2>4, <2>5
  <1>2. TypeInv /\ StoreInv => ResetReplacesBaseline
    BY <1>1 DEF ResetReplacesBaseline
  <1> QED BY <1>2, StoreInvariant, PTL

-----------------------------------------------------------------------------
(* Lines of the file                                                       *)

(* No line ends in white space, which a read would trim. *)
PlainTrimming == \A c \in Contents : Trimmed[c] = c

(* Lines that are lines of the file as it is now. *)
Agrees(lines) ==
  \A n \in LineNumber :
    lines[n] # NoLine => n <= Len(file.lines) /\ lines[n] = file.lines[n]

LEMMA ReadAgrees ==
  ASSUME PlainTrimming, TypeInv, NEW after \in 0 .. MaxLines
  PROVE  /\ Agrees(ReadAfter(after))
         /\ \A n \in LineNumber :
              (after < n /\ n <= Len(file.lines)) => ReadAfter(after)[n] = file.lines[n]
  <1> SUFFICES ASSUME NEW n \in LineNumber
               PROVE  /\ ReadAfter(after)[n] # NoLine => n <= Len(file.lines)
                      /\ (after < n /\ n <= Len(file.lines))
                           => ReadAfter(after)[n] = file.lines[n]
    BY ReadAfterLines DEF Agrees
  <1>1. ReadAfter(after)[n] # NoLine => n <= Len(file.lines)
    BY ReadAfterLines
  <1>2. ASSUME after < n, n <= Len(file.lines)
        PROVE  ReadAfter(after)[n] = file.lines[n]
    <2>1. n \in Nat /\ 0 < n /\ after \in Nat /\ Len(file.lines) \in Nat
      BY SizesAssumption DEF LineNumber, TypeInv, TypeOK
    <2>2. n \in after + 1 .. Len(file.lines) /\ file.lines[n] \in Contents
      BY <1>2, <2>1 DEF TypeInv, TypeOK
    <2> QED BY <2>2 DEF ReadAfter, PlainTrimming
  <1> QED BY <1>1, <1>2

(* While a generation is only appended to, its lines stay. *)
LEMMA AgreesKept ==
  ASSUME TypeInv, Environment, pristine', file'.inode = file.inode
  PROVE  pristine /\ \A lines : Agrees(lines) => Agrees(lines)'
  <1>1. CASE AppendLine
    <2>1. PICK c \in Contents : file' = [file EXCEPT !.lines = Append(@, c)]
      BY <1>1 DEF AppendLine
    <2>2. file'.lines = Append(file.lines, c) /\ file.lines \in Seq(Contents)
      BY <2>1 DEF TypeInv, TypeOK
    <2>3. ASSUME NEW n \in LineNumber, n <= Len(file.lines)
          PROVE  n <= Len(file'.lines) /\ file'.lines[n] = file.lines[n]
      <3>1. n \in 1 .. Len(file.lines)
        BY <2>2, <2>3, SizesAssumption DEF LineNumber
      <3> QED BY <2>2, <3>1
    <2>4. pristine
      BY <1>1 DEF AppendLine
    <2> QED BY <2>3, <2>4 DEF Agrees
  <1>2. CASE Rotate
    BY <1>2, SizesAssumption DEF Rotate, TypeInv, TypeOK
  <1>3. CASE Truncate \/ EditLine
    BY <1>3 DEF Truncate, EditLine
  <1> QED BY <1>1, <1>2, <1>3 DEF Environment

LEMMA InodeGrows ==
  ASSUME TypeInv, Environment
  PROVE  file.inode \in Nat /\ file'.inode \in Nat /\ file.inode <= file'.inode
  <1>1. file.inode \in Nat
    BY SizesAssumption DEF TypeInv, TypeOK
  <1>2. CASE Rotate
    BY <1>1, <1>2 DEF Rotate
  <1>3. CASE AppendLine \/ Truncate \/ EditLine
    <2>1. file'.inode = file.inode
      BY <1>3 DEF AppendLine, Truncate, EditLine, TypeInv, TypeOK
    <2> QED BY <1>1, <2>1
  <1> QED BY <1>2, <1>3 DEF Environment

-----------------------------------------------------------------------------
(* No false alarm                                                          *)

(* The file has never been anything but appended to. *)
FirstFile == file.inode = 1 /\ pristine

(* What a collection or a check has read are lines of that file, and a     *)
(* check has read every line that is stored.                               *)
AlarmOf(w) ==
  /\ (FirstFile /\ pc[w] \in HoldingSteps) => Agrees(task[w].lines)
  /\ (FirstFile /\ pc[w] \in {"checkCount", "compare"}) =>
       \A n \in Present(entries) : task[w].lines[n] = entries[n]
  /\ pc[w] = "compare" => task[w].total = Cardinality(Present(entries))

AlarmInv ==
  /\ FirstFile => Agrees(entries)
  /\ \A w \in Workers : AlarmOf(w)
  /\ NoFalseAlarm

LEMMA IdleAlarm ==
  ASSUME NEW w \in Workers, pc'[w] \notin HoldingSteps \cup {"checkCount", "compare"}
  PROVE  AlarmOf(w)'
  BY DEF AlarmOf

LEMMA EnvironmentAlarm ==
  ASSUME TypeInv, AlarmInv, Environment
  PROVE  AlarmInv'
  <1>1. UNCHANGED <<row, entries, chunks, verdict, lock, pc, task>>
    BY DEF Environment, AppendLine, Rotate, Truncate, EditLine, store
  <1>2. FirstFile' => FirstFile /\ \A lines : Agrees(lines) => Agrees(lines)'
    <2> SUFFICES ASSUME FirstFile'
                 PROVE  FirstFile /\ \A lines : Agrees(lines) => Agrees(lines)'
      OBVIOUS
    <2>1. file'.inode = 1 /\ file.inode = 1 /\ pristine'
      BY InodeGrows DEF FirstFile, TypeInv, TypeOK
    <2> QED BY <2>1, AgreesKept DEF FirstFile
  <1>3. FirstFile' => Agrees(entries)'
    <2> PICK lines : lines = entries
      OBVIOUS
    <2>1. FirstFile' => Agrees(lines)'
      BY <1>2 DEF AlarmInv
    <2> QED BY <1>1, <2>1 DEF Agrees
  <1>4. ASSUME NEW w \in Workers PROVE AlarmOf(w)'
    <2> PICK lines : lines = task[w].lines
      OBVIOUS
    <2>1. FirstFile' /\ pc[w] \in HoldingSteps => Agrees(lines)'
      BY <1>2 DEF AlarmInv, AlarmOf
    <2> QED BY <1>1, <1>2, <2>1 DEF Agrees, AlarmInv, AlarmOf, Present
  <1>5. NoFalseAlarm'
    BY <1>1, <1>2 DEF AlarmInv, NoFalseAlarm, AppendOnlyNeverTampered, FirstFile
  <1> QED BY <1>3, <1>4, <1>5 DEF AlarmInv

(* The steps of a collection store nothing but lines of the file. *)
LEMMA CollectAlarm ==
  ASSUME PlainTrimming, TypeInv, AlarmInv, NEW w \in Workers, Collect(w)
  PROVE  AlarmOf(w)' /\ (FirstFile' => Agrees(entries)') /\ NoFalseAlarm'
  <1>1. UNCHANGED <<file, pristine, verdict>>
    BY DEF Collect, Inspect, GetMaxLineNumber, ReadLines, DropEntries, DropChunks,
       BuildChunks, SaveBatch, Record, world
  <1>2. NoFalseAlarm'
    BY <1>1 DEF AlarmInv, NoFalseAlarm, AppendOnlyNeverTampered
  <1>3. CASE ReadLines(w)
    <2>1. /\ pc'[w] \in {"dropEntries", "build"} /\ UNCHANGED entries
          /\ task'[w].lines = ReadAfter(task[w].after)
      BY <1>3, TypeOfTask DEF TypeInv, TypeOK, ReadLines, Goto, TaskType, store
    <2>2. Agrees(ReadAfter(task[w].after))
      BY TypeOfTask, ReadAgrees
    <2>3. AlarmOf(w)'
      BY <1>1, <2>1, <2>2 DEF AlarmOf, Agrees, FirstFile
    <2> QED BY <1>1, <1>2, <2>1, <2>3 DEF AlarmInv, Agrees, FirstFile
  <1>4. ASSUME pc'[w] \notin {"checkCount", "compare"},
               pc'[w] \in HoldingSteps =>
                 pc[w] \in HoldingSteps /\ task'[w].lines = task[w].lines
        PROVE  AlarmOf(w)'
    BY <1>1, <1>4 DEF AlarmInv, AlarmOf, Agrees, FirstFile
  <1>5. ASSUME UNCHANGED entries PROVE FirstFile' => Agrees(entries)'
    BY <1>1, <1>5 DEF AlarmInv, Agrees, FirstFile
  <1>6. CASE Inspect(w)
    <2>1. pc'[w] \in {"read", "max"} /\ UNCHANGED entries
      BY <1>6 DEF TypeInv, TypeOK, Inspect, Goto, store
    <2> QED BY <1>2, <1>4, <1>5, <2>1 DEF HoldingSteps
  <1>7. CASE GetMaxLineNumber(w)
    <2>1. pc'[w] = "read" /\ UNCHANGED entries
      BY <1>7 DEF TypeInv, TypeOK, GetMaxLineNumber, Goto, store
    <2> QED BY <1>2, <1>4, <1>5, <2>1 DEF HoldingSteps
  <1>8. CASE DropEntries(w)
    <2>1. /\ pc[w] = "dropEntries" /\ pc'[w] = "dropChunks" /\ UNCHANGED task
          /\ entries' = NoLines
      BY <1>8 DEF TypeInv, TypeOK, DropEntries, Goto
    <2>2. Agrees(entries)'
      BY <2>1 DEF Agrees, NoLines
    <2> QED BY <1>2, <1>4, <2>1, <2>2 DEF HoldingSteps
  <1>9. CASE DropChunks(w)
    <2>1. /\ pc[w] = "dropChunks" /\ pc'[w] = "build" /\ UNCHANGED entries
          /\ task'[w].lines = task[w].lines
      BY <1>9, TypeOfTask DEF TypeInv, TypeOK, DropChunks, Goto, TaskType
    <2> QED BY <1>2, <1>4, <1>5, <2>1 DEF HoldingSteps
  <1>10. CASE BuildChunks(w)
    <2>0. \/ UNCHANGED task
          \/ \E m, k : task' = [task EXCEPT ![w].next = m, ![w].number = k]
      BY <1>10 DEF BuildChunks
    <2>1. /\ pc[w] = "build" /\ pc'[w] \in {"save", "record"} /\ UNCHANGED entries
          /\ task'[w].lines = task[w].lines
      <3>1. pc[w] = "build" /\ pc'[w] \in {"save", "record"} /\ UNCHANGED entries
        BY <1>10 DEF TypeInv, TypeOK, BuildChunks, Goto, store
      <3>2. CASE \E m, k : task' = [task EXCEPT ![w].next = m, ![w].number = k]
        <4>1. PICK m, k : task' = [task EXCEPT ![w].next = m, ![w].number = k]
          BY <3>2
        <4> QED BY <3>1, <4>1, TypeOfTask DEF TypeInv, TypeOK, TaskType
      <3> QED BY <2>0, <3>1, <3>2
    <2> QED BY <1>2, <1>4, <1>5, <2>1 DEF HoldingSteps
  <1>11. CASE SaveBatch(w)
    <2>1. PICK e \in task[w].next .. task[w].last :
             \/ Finish(w) /\ UNCHANGED entries
             \/ /\ entries' = [n \in LineNumber |->
                                 IF n \in task[w].next .. e THEN task[w].lines[n]
                                                           ELSE entries[n]]
                /\ \E m, k : task' = [task EXCEPT ![w] =
                                        [task[w] EXCEPT !.next = m, !.number = k]]
                /\ Goto(w, IF e = task[w].last THEN "record" ELSE "save")
      BY <1>11, SaveBatchCases
    <2>2. pc[w] = "save"
      BY <1>11 DEF SaveBatch
    <2>3. CASE Finish(w) /\ UNCHANGED entries
      <3>1. pc'[w] = "idle"
        BY <2>3 DEF Finish, TypeInv, TypeOK
      <3> QED BY <1>2, <1>4, <1>5, <2>3, <3>1 DEF HoldingSteps
    <2>4. CASE /\ entries' = [n \in LineNumber |->
                                IF n \in task[w].next .. e THEN task[w].lines[n]
                                                          ELSE entries[n]]
               /\ \E m, k : task' = [task EXCEPT ![w] =
                                       [task[w] EXCEPT !.next = m, !.number = k]]
               /\ Goto(w, IF e = task[w].last THEN "record" ELSE "save")
      <3>1. pc'[w] \in {"record", "save"} /\ task'[w].lines = task[w].lines
        BY <2>4, TypeOfTask DEF Goto, TypeInv, TypeOK, TaskType
      <3>2. FirstFile => Agrees(task[w].lines) /\ Agrees(entries)
        BY <2>2 DEF AlarmInv, AlarmOf, HoldingSteps
      <3>3. FirstFile' => Agrees(entries)'
        BY <1>1, <2>4, <3>2 DEF Agrees, FirstFile
      <3> QED BY <1>2, <1>4, <2>2, <2>4, <3>1, <3>3 DEF HoldingSteps
    <2> QED BY <2>1, <2>3, <2>4
  <1>12. CASE Record(w)
    <2>1. pc'[w] = "idle" /\ UNCHANGED entries
      BY <1>12 DEF TypeInv, TypeOK, Record, Finish
    <2> QED BY <1>2, <1>4, <1>5, <2>1 DEF HoldingSteps
  <1> QED BY <1>3, <1>6, <1>7, <1>8, <1>9, <1>10, <1>11, <1>12 DEF Collect

LEMMA CompareAlarm ==
  ASSUME TypeInv, AlarmInv, NEW w \in Workers, Compare(w)
  PROVE  NoFalseAlarm'
  <1> DEFINE tampered == FindTampered(task[w].lines)
  <1>1. tampered \subseteq Present(entries)
    BY DEF FindTampered, StoredIn
  <1>2. FirstFile => tampered = {}
    BY DEF AlarmInv, AlarmOf, Compare, FindTampered, StoredIn, Differs
  <1>3. Cardinality(tampered) <= Cardinality(Present(entries))
    BY <1>1, LinesFinite, FS_Subset DEF Present
  <1>4. /\ verdict' = [status   |-> IF tampered = {} THEN "ok" ELSE "tampered",
                       total    |-> task[w].total,
                       tampered |-> Cardinality(tampered)]
        /\ UNCHANGED <<file, pristine>>
        /\ task[w].total = Cardinality(Present(entries))
    BY DEF Compare, world, AlarmInv, AlarmOf
  <1> HIDE DEF tampered
  <1> QED BY <1>2, <1>3, <1>4 DEF NoFalseAlarm, AppendOnlyNeverTampered, FirstFile

(* A check compares every stored line with the line it was stored from. *)
LEMMA CheckAlarm ==
  ASSUME PlainTrimming, TypeInv, AlarmInv, NEW w \in Workers, Check(w) \/ Fail(w)
  PROVE  AlarmOf(w)' /\ (FirstFile' => Agrees(entries)') /\ NoFalseAlarm'
  <1>1. UNCHANGED <<file, pristine, entries>>
    BY DEF Check, CheckInspect, CheckRead, CountLogEntries, Compare, Fail, world, store
  <1>2. FirstFile' => Agrees(entries)'
    BY <1>1 DEF AlarmInv, Agrees, FirstFile
  <1>3. ASSUME UNCHANGED verdict \/ verdict' = [status |-> "error", total |-> 0, tampered |-> 0]
        PROVE  NoFalseAlarm'
    BY <1>1, <1>3 DEF AlarmInv, NoFalseAlarm, AppendOnlyNeverTampered
  <1>4. CASE CheckInspect(w) \/ Fail(w)
    <2>1. pc'[w] \in {"idle", "checkRead"}
      BY <1>4 DEF TypeInv, TypeOK, CheckInspect, Fail, Finish, Goto
    <2>2. UNCHANGED verdict \/ verdict' = [status |-> "error", total |-> 0, tampered |-> 0]
      BY <1>4 DEF CheckInspect, Fail
    <2> QED BY <1>2, <1>3, <2>1, <2>2, IdleAlarm DEF HoldingSteps
  <1>5. CASE CheckRead(w)
    <2>1. /\ pc'[w] = "checkCount" /\ UNCHANGED verdict
          /\ task'[w].lines = ReadAfter(0)
      BY <1>5, TypeOfTask DEF TypeInv, TypeOK, CheckRead, Goto, TaskType
    <2>2. FirstFile => \A n \in Present(entries) : ReadAfter(0)[n] = entries[n]
      <3> SUFFICES ASSUME FirstFile, NEW n \in LineNumber, entries[n] # NoLine
                   PROVE  ReadAfter(0)[n] = entries[n]
        BY DEF Present
      <3>1. n <= Len(file.lines) /\ entries[n] = file.lines[n]
        BY DEF AlarmInv, Agrees
      <3>2. 0 < n /\ 0 \in 0 .. MaxLines
        BY SizesAssumption DEF LineNumber
      <3> QED BY <3>1, <3>2, ReadAgrees
    <2>3. AlarmOf(w)'
      BY <1>1, <2>1, <2>2 DEF AlarmOf, HoldingSteps, FirstFile, Present
    <2> QED BY <1>2, <1>3, <2>1, <2>3
  <1>6. CASE CountLogEntries(w)
    <2>1. /\ pc[w] = "checkCount" /\ pc'[w] = "compare" /\ UNCHANGED verdict
          /\ task'[w].lines = task[w].lines
          /\ task'[w].total = Cardinality(Present(entries))
      BY <1>6, TypeOfTask DEF TypeInv, TypeOK, CountLogEntries, Goto, TaskType
    <2>2. AlarmOf(w)'
      BY <1>1, <2>1 DEF AlarmInv, AlarmOf, HoldingSteps, FirstFile, Present
    <2> QED BY <1>2, <1>3, <2>1, <2>2
  <1>7. CASE Compare(w)
    <2>1. pc'[w] = "idle"
      BY <1>7 DEF TypeInv, TypeOK, Compare, Finish
    <2> QED BY <1>2, <1>7, <2>1, IdleAlarm, CompareAlarm DEF HoldingSteps
  <1> QED BY <1>4, <1>5, <1>6, <1>7 DEF Check

LEMMA NextAlarm ==
  ASSUME Isolation, PlainTrimming
  PROVE  TypeInv /\ StoreInv /\ AlarmInv /\ [Next]_vars => AlarmInv'
  <1> SUFFICES ASSUME TypeInv, StoreInv, AlarmInv, [Next]_vars PROVE AlarmInv'
    OBVIOUS
  <1>1. CASE Environment
    BY <1>1, EnvironmentAlarm
  <1>2. CASE UNCHANGED vars
    BY <1>2 DEF vars, AlarmInv, AlarmOf, FirstFile, Agrees, Present, NoFalseAlarm,
       AppendOnlyNeverTampered
  <1>3. ASSUME NEW w \in Workers, NEW step \in {"inspect", "checkInspect"}, Start(w, step)
        PROVE  AlarmInv'
    <2>1. \A v \in Workers : v # w => pc'[v] = "idle"
      BY <1>3, StartAlone DEF StoreInv
    <2>2. pc'[w] = step
      BY <1>3 DEF Start, Goto, TypeInv, TypeOK
    <2>3. \A v \in Workers : AlarmOf(v)'
      BY <2>1, <2>2, IdleAlarm DEF HoldingSteps
    <2> QED BY <1>3, <2>3 DEF Start, world, store, AlarmInv, FirstFile, Agrees,
               NoFalseAlarm, AppendOnlyNeverTampered
  <1>4. ASSUME NEW w \in Workers, Collect(w) \/ Check(w) \/ Fail(w) PROVE AlarmInv'
    <2>1. \A v \in Workers : v # w => AlarmOf(v)'
      BY <1>4, OthersIdle, IdleAlarm DEF StoreInv, HoldingSteps
    <2>2. AlarmOf(w)' /\ (FirstFile' => Agrees(entries)') /\ NoFalseAlarm'
      BY <1>4, CollectAlarm, CheckAlarm
    <2> QED BY <2>1, <2>2 DEF AlarmInv
  <1> QED BY <1>1, <1>2, <1>3, <1>4 DEF Next, StartCollect, StartCheck

(* While operations on a server are isolated, a file that is only ever     *)
(* appended to is never reported as tampered, whatever calls fail in       *)
(* between, and no result counts more tampered lines than lines.  Lines    *)
(* that end in white space are excluded, and have to be: the read command  *)
(* trims them when they are last, and run trailing_space raises the alarm. *)
THEOREM NoFalseAlarmEver ==
  ASSUME Isolation, PlainTrimming PROVE Spec => []NoFalseAlarm
  <1>1. Init => AlarmInv
    BY DEF Init, AlarmInv, AlarmOf, HoldingSteps, Agrees, NoLines, NoFalseAlarm,
       AppendOnlyNeverTampered
  <1>2. TypeInv /\ StoreInv /\ AlarmInv /\ [Next]_vars => AlarmInv'
    BY NextAlarm
  <1>3. AlarmInv => NoFalseAlarm
    BY DEF AlarmInv
  <1> QED BY <1>1, <1>2, <1>3, StoreInvariant, PTL DEF Spec

-----------------------------------------------------------------------------
(* One generation                                                          *)

(* Identity id is that of the file as it is, up to lines appended since. *)
Current(id) == id.inode = file.inode /\ pristine

(* The file once had identity id. *)
Observed(id) ==
  /\ id \in Identity /\ id.inode # 0 /\ id.inode <= file.inode
  /\ Current(id) => id.size <= Len(file.lines)

(* Where the lines a collection holds come from: the file it found, or the *)
(* one the record names when it saw no reason to reset.                    *)
Source(w) == IF task[w].reset THEN task[w].seen ELSE row.identity

SeenSteps == CollectSteps \ {"inspect"}

GenerationOf(w) ==
  /\ pc[w] \in CollectSteps => task[w].known = row.identity
  /\ pc[w] \in SeenSteps =>
       /\ task[w].seen = NoIdentity \/ Observed(task[w].seen)
       /\ task[w].reset => task[w].seen # NoIdentity /\ ~Current(row.identity)
       /\ ~task[w].reset =>
            task[w].seen = NoIdentity \/ task[w].seen.inode = row.identity.inode
  /\ (pc[w] \in HoldingSteps /\ Current(Source(w))) => Agrees(task[w].lines)

GenerationInv ==
  /\ Observed(row.identity)
  /\ Current(row.identity) => Agrees(entries)
  /\ \A w \in Workers : GenerationOf(w)

(* An identity once observed stays one that was: a file that grew only got *)
(* longer, and a rotation leaves the inode behind.                         *)
LEMMA EnvironmentObserved ==
  ASSUME TypeInv, Environment, NEW id, Observed(id)
  PROVE  /\ Observed(id)'
         /\ Current(id)' => Current(id) /\ \A lines : Agrees(lines) => Agrees(lines)'
  <1>1. /\ file.inode \in Nat /\ file'.inode \in Nat /\ file.inode <= file'.inode
        /\ id.inode \in Nat /\ id.size \in Nat /\ id.inode <= file.inode
    BY InodeGrows, SizesAssumption DEF Observed, Identity
  <1>2. ASSUME Current(id)'
        PROVE  /\ Current(id) /\ \A lines : Agrees(lines) => Agrees(lines)'
               /\ Len(file.lines) <= Len(file'.lines)
    <2>1. file'.inode = file.inode /\ pristine'
      BY <1>1, <1>2 DEF Current
    <2>2. pristine /\ \A lines : Agrees(lines) => Agrees(lines)'
      BY <2>1, AgreesKept
    <2>3. Len(file.lines) <= Len(file'.lines)
      <3>1. CASE AppendLine
        <4>1. PICK c \in Contents : file' = [file EXCEPT !.lines = Append(@, c)]
          BY <3>1 DEF AppendLine
        <4>2. file'.lines = Append(file.lines, c) /\ file.lines \in Seq(Contents)
          BY <4>1 DEF TypeInv, TypeOK
        <4>3. Len(file'.lines) = Len(file.lines) + 1 /\ Len(file.lines) \in Nat
          BY <4>2
        <4> QED BY <4>3
      <3>2. CASE Rotate
        BY <2>1, <3>2, SizesAssumption DEF Rotate, TypeInv, TypeOK
      <3>3. CASE Truncate \/ EditLine
        BY <2>1, <3>3 DEF Truncate, EditLine
      <3> QED BY <3>1, <3>2, <3>3 DEF Environment
    <2> QED BY <1>2, <2>1, <2>2, <2>3 DEF Current
  <1>3. Len(file.lines) \in Nat /\ Len(file'.lines) \in Nat
    BY EnvironmentType DEF TypeInv, TypeOK
  <1> QED BY <1>1, <1>2, <1>3 DEF Observed

LEMMA IdleGeneration ==
  ASSUME NEW w \in Workers, pc'[w] \notin CollectSteps
  PROVE  GenerationOf(w)'
  BY DEF GenerationOf, CollectSteps, SeenSteps, HoldingSteps

LEMMA EnvironmentGeneration ==
  ASSUME TypeInv, GenerationInv, Environment
  PROVE  GenerationInv'
  <1>1. UNCHANGED <<row, entries, pc, task>>
    BY DEF Environment, AppendLine, Rotate, Truncate, EditLine, store
  <1> PICK id, stored : id = row.identity /\ stored = entries
    OBVIOUS
  <1>2. /\ Observed(id)'
        /\ Current(id)' => Current(id) /\ \A lines : Agrees(lines) => Agrees(lines)'
    BY EnvironmentObserved DEF GenerationInv
  <1>3. Observed(row.identity)' /\ (Current(row.identity)' <=> Current(id)')
    BY <1>1, <1>2 DEF Observed, Current
  <1>4. Current(row.identity)' => Agrees(entries)'
    <2>1. Current(id)' => Agrees(stored)'
      BY <1>2 DEF GenerationInv
    <2> QED BY <1>1, <1>3, <2>1 DEF Agrees
  <1>5. ASSUME NEW w \in Workers PROVE GenerationOf(w)'
    <2> PICK seen, lines : seen = task[w].seen /\ lines = task[w].lines
      OBVIOUS
    <2>1. Observed(seen) =>
            /\ Observed(seen)'
            /\ Current(seen)' => Current(seen) /\ (Agrees(lines) => Agrees(lines)')
      BY EnvironmentObserved
    <2>2. GenerationOf(w)
      BY DEF GenerationInv
    <2>3. HoldingSteps \subseteq SeenSteps
      BY DEF HoldingSteps, SeenSteps, CollectSteps
    <2>4. pc[w] \in SeenSteps =>
            /\ seen = NoIdentity \/ Observed(seen)'
            /\ task[w].reset => seen # NoIdentity /\ ~Current(id)'
      BY <1>2, <2>1, <2>2 DEF GenerationOf
    <2>5. (pc[w] \in HoldingSteps /\ task[w].reset /\ Current(seen)') => Agrees(lines)'
      BY <2>1, <2>2, <2>3 DEF GenerationOf, Source
    <2>6. (pc[w] \in HoldingSteps /\ ~task[w].reset /\ Current(id)') => Agrees(lines)'
      BY <1>2, <2>2 DEF GenerationOf, Source
    <2> QED BY <1>1, <2>2, <2>4, <2>5, <2>6
            DEF GenerationOf, Source, Observed, Current, Agrees
  <1> QED BY <1>3, <1>4, <1>5 DEF GenerationInv

(* A step that neither inspects nor reads keeps what a collection knows of *)
(* the file.                                                               *)
LEMMA KeepsGeneration ==
  ASSUME NEW w \in Workers, GenerationOf(w), UNCHANGED <<file, pristine, row>>,
         task'[w].known = task[w].known, task'[w].seen = task[w].seen,
         task'[w].reset = task[w].reset, task'[w].lines = task[w].lines,
         pc[w] \in SeenSteps, pc'[w] \in HoldingSteps => pc[w] \in HoldingSteps
  PROVE  GenerationOf(w)'
  BY DEF GenerationOf, SeenSteps, HoldingSteps, Source, Observed, Current, Agrees

LEMMA InspectGeneration ==
  ASSUME TypeInv, GenerationInv, NEW w \in Workers, Inspect(w)
  PROVE  GenerationOf(w)'
  <1>1. PICK seen \in {FileIdentity, NoIdentity} :
          /\ task' = [task EXCEPT ![w].seen = seen,
                                  ![w].reset = ShouldReset(task[w].known, seen)]
          /\ Goto(w, IF ShouldReset(task[w].known, seen) THEN "read" ELSE "max")
          /\ pc[w] = "inspect" /\ UNCHANGED <<file, pristine, row>>
    BY DEF Inspect, world, store
  <1> DEFINE reset == ShouldReset(task[w].known, seen)
  <1>2. /\ pc'[w] \in {"read", "max"}
        /\ task'[w].known = task[w].known /\ task'[w].seen = seen
        /\ task'[w].reset = reset
    BY <1>1, TypeOfTask DEF TypeInv, TypeOK, Goto, TaskType
  <1>3. /\ task[w].known = row.identity /\ Observed(row.identity)
        /\ row.identity.inode \in Nat /\ row.identity.size \in Nat
        /\ file.inode \in Nat /\ file.inode # 0 /\ Len(file.lines) \in Nat
    BY <1>1, SizesAssumption
       DEF GenerationInv, GenerationOf, CollectSteps, TypeInv, TypeOK, Identity
  <1>4. seen = NoIdentity \/ Observed(seen)
    BY <1>3, FileIdentityType DEF Observed, FileIdentity, TypeInv
  <1>5. ASSUME reset PROVE seen # NoIdentity /\ ~Current(row.identity)
    <2>1. HasIdentity(seen) /\ HasIdentity(row.identity)
      BY <1>3, <1>5 DEF ShouldReset
    <2>2. seen = FileIdentity /\ seen # NoIdentity
      BY <2>1 DEF NoIdentity, HasIdentity
    <2>3. seen.inode = file.inode /\ seen.size = Len(file.lines)
      BY <2>2 DEF FileIdentity
    <2>4. row.identity.inode # file.inode \/ Len(file.lines) < row.identity.size
      BY <1>3, <1>5, <2>3 DEF ShouldReset, FileShrank
    <2> QED BY <1>3, <2>2, <2>4 DEF Observed, Current
  <1>6. ASSUME ~reset PROVE seen = NoIdentity \/ seen.inode = row.identity.inode
    <2> SUFFICES ASSUME seen # NoIdentity PROVE seen.inode = row.identity.inode
      OBVIOUS
    <2>1. seen.inode = file.inode /\ row.identity.inode # 0
      BY <1>3 DEF FileIdentity, Observed
    <2> QED BY <1>3, <1>6, <2>1 DEF ShouldReset, HasIdentity
  <1> HIDE DEF reset
  <1> QED BY <1>1, <1>2, <1>3, <1>4, <1>5, <1>6
          DEF GenerationOf, SeenSteps, HoldingSteps, Observed, Current

(* What the record will name is what the stored lines come from. *)
LEMMA RecordGeneration ==
  ASSUME TypeInv, NEW w \in Workers, StepOf(w), GenerationInv, Record(w)
  PROVE  Observed(row.identity)' /\ (Current(row.identity)' => Agrees(entries)')
  <1>1. /\ pc[w] = "record" /\ UNCHANGED <<file, pristine, entries>>
        /\ row'.identity = IF task[w].seen = NoIdentity THEN task[w].known ELSE task[w].seen
    BY DEF Record, world
  <1>2. GenerationOf(w) /\ pc[w] \in SeenSteps /\ pc[w] \in CollectSteps /\ pc[w] \in HoldingSteps
    BY <1>1 DEF GenerationInv, SeenSteps, CollectSteps, HoldingSteps
  <1>3. CASE task[w].seen = NoIdentity
    <2>1. row'.identity = row.identity
      BY <1>1, <1>2, <1>3 DEF GenerationOf
    <2> QED BY <1>1, <2>1 DEF GenerationInv, Observed, Current, Agrees
  <1>4. CASE task[w].seen # NoIdentity
    <2>1. row'.identity = task[w].seen /\ Observed(task[w].seen)
      BY <1>1, <1>2, <1>4 DEF GenerationOf
    <2>2. Observed(row.identity)'
      BY <1>1, <2>1 DEF Observed, Current
    <2>3. Current(row.identity)' => Current(task[w].seen)
      BY <1>1, <2>1 DEF Current
    <2>4. ASSUME Current(task[w].seen) PROVE Agrees(entries)
      <3>1. CASE task[w].reset
        <4>1. Agrees(task[w].lines)
          BY <1>2, <2>4, <3>1 DEF GenerationOf, Source
        <4>2. CutUp(task[w].lines, task[w].last)
          BY <1>1, <3>1 DEF StepOf, Replacing
        <4> QED BY <4>1, <4>2 DEF CutUp, Agrees
      <3>2. CASE ~task[w].reset
        <4>1. Current(row.identity)
          BY <1>2, <1>4, <2>4, <3>2 DEF GenerationOf, Current
        <4> QED BY <4>1 DEF GenerationInv
      <3> QED BY <3>1, <3>2
    <2> QED BY <1>1, <2>2, <2>3, <2>4 DEF Agrees
  <1> QED BY <1>3, <1>4

LEMMA CollectGeneration ==
  ASSUME PlainTrimming, TypeInv, NEW w \in Workers, StepOf(w), GenerationInv, Collect(w)
  PROVE  /\ GenerationOf(w)' /\ Observed(row.identity)'
         /\ Current(row.identity)' => Agrees(entries)'
  <1>1. UNCHANGED <<file, pristine>> /\ GenerationOf(w)
    BY DEF Collect, Inspect, GetMaxLineNumber, ReadLines, DropEntries, DropChunks,
       BuildChunks, SaveBatch, Record, world, GenerationInv
  <1>2. ASSUME UNCHANGED row PROVE Observed(row.identity)'
    BY <1>1, <1>2 DEF GenerationInv, Observed, Current
  <1>3. ASSUME UNCHANGED <<row, entries>> PROVE Current(row.identity)' => Agrees(entries)'
    BY <1>1, <1>3 DEF GenerationInv, Current, Agrees
  <1>4. CASE Inspect(w)
    BY <1>2, <1>3, <1>4, InspectGeneration DEF Inspect, store
  <1>5. CASE GetMaxLineNumber(w)
    <2>1. /\ pc[w] = "max" /\ pc'[w] = "read" /\ UNCHANGED <<row, entries>>
          /\ task'[w].known = task[w].known /\ task'[w].seen = task[w].seen
          /\ task'[w].reset = task[w].reset /\ task'[w].lines = task[w].lines
      BY <1>5, TypeOfTask DEF TypeInv, TypeOK, GetMaxLineNumber, Goto, TaskType, store
    <2>2. GenerationOf(w)'
      BY <1>1, <2>1, KeepsGeneration DEF SeenSteps, CollectSteps, HoldingSteps
    <2> QED BY <1>2, <1>3, <2>1, <2>2
  <1>6. CASE ReadLines(w)
    <2>1. /\ pc[w] = "read" /\ pc'[w] \in {"dropEntries", "build"}
          /\ UNCHANGED <<row, entries>>
          /\ task'[w].known = task[w].known /\ task'[w].seen = task[w].seen
          /\ task'[w].reset = task[w].reset
          /\ task'[w].lines = ReadAfter(task[w].after)
      BY <1>6, TypeOfTask DEF TypeInv, TypeOK, ReadLines, Goto, TaskType, store
    <2>2. Agrees(ReadAfter(task[w].after))
      BY TypeOfTask, ReadAgrees
    <2>3. Agrees(task[w].lines)'
      BY <1>1, <2>1, <2>2 DEF Agrees
    <2>4. pc[w] \in SeenSteps /\ pc[w] \in CollectSteps
      BY <2>1 DEF SeenSteps, CollectSteps
    <2>5. GenerationOf(w)'
      BY <1>1, <2>1, <2>3, <2>4 DEF GenerationOf, Observed, Current
    <2> QED BY <1>2, <1>3, <2>1, <2>5
  <1>7. CASE DropEntries(w)
    <2>1. /\ pc[w] = "dropEntries" /\ pc'[w] = "dropChunks" /\ UNCHANGED <<row, task>>
          /\ entries' = NoLines
      BY <1>7 DEF TypeInv, TypeOK, DropEntries, Goto
    <2>2. Agrees(entries)'
      BY <2>1 DEF Agrees, NoLines
    <2>3. GenerationOf(w)'
      BY <1>1, <2>1, KeepsGeneration DEF SeenSteps, CollectSteps, HoldingSteps
    <2> QED BY <1>2, <2>1, <2>2, <2>3
  <1>8. CASE DropChunks(w)
    <2>1. /\ pc[w] = "dropChunks" /\ pc'[w] = "build" /\ UNCHANGED <<row, entries>>
          /\ task'[w].known = task[w].known /\ task'[w].seen = task[w].seen
          /\ task'[w].reset = task[w].reset /\ task'[w].lines = task[w].lines
      BY <1>8, TypeOfTask DEF TypeInv, TypeOK, DropChunks, Goto, TaskType
    <2>2. GenerationOf(w)'
      BY <1>1, <2>1, KeepsGeneration DEF SeenSteps, CollectSteps, HoldingSteps
    <2> QED BY <1>2, <1>3, <2>1, <2>2
  <1>9. CASE BuildChunks(w)
    <2>0. \/ UNCHANGED task
          \/ \E m, k : task' = [task EXCEPT ![w].next = m, ![w].number = k]
      BY <1>9 DEF BuildChunks
    <2>1. /\ pc[w] = "build" /\ pc'[w] \in {"save", "record"} /\ UNCHANGED <<row, entries>>
          /\ task'[w].known = task[w].known /\ task'[w].seen = task[w].seen
          /\ task'[w].reset = task[w].reset /\ task'[w].lines = task[w].lines
      <3>1. pc[w] = "build" /\ pc'[w] \in {"save", "record"} /\ UNCHANGED <<row, entries>>
        BY <1>9 DEF TypeInv, TypeOK, BuildChunks, Goto, store
      <3>2. CASE \E m, k : task' = [task EXCEPT ![w].next = m, ![w].number = k]
        <4>1. PICK m, k : task' = [task EXCEPT ![w].next = m, ![w].number = k]
          BY <3>2
        <4> QED BY <3>1, <4>1, TypeOfTask DEF TypeInv, TypeOK, TaskType
      <3> QED BY <2>0, <3>1, <3>2
    <2>2. GenerationOf(w)'
      BY <1>1, <2>1, KeepsGeneration DEF SeenSteps, CollectSteps, HoldingSteps
    <2> QED BY <1>2, <1>3, <2>1, <2>2
  <1>10. CASE SaveBatch(w)
    <2>1. PICK e \in task[w].next .. task[w].last :
             \/ Finish(w) /\ UNCHANGED entries
             \/ /\ entries' = [n \in LineNumber |->
                                 IF n \in task[w].next .. e THEN task[w].lines[n]
                                                           ELSE entries[n]]
                /\ \E m, k : task' = [task EXCEPT ![w] =
                                        [task[w] EXCEPT !.next = m, !.number = k]]
                /\ Goto(w, IF e = task[w].last THEN "record" ELSE "save")
      BY <1>10, SaveBatchCases
    <2>2. pc[w] = "save" /\ UNCHANGED row
      BY <1>10 DEF SaveBatch
    <2>3. CASE Finish(w) /\ UNCHANGED entries
      <3>1. pc'[w] = "idle"
        BY <2>3 DEF Finish, TypeInv, TypeOK
      <3> QED BY <1>2, <1>3, <2>2, <2>3, <3>1, IdleGeneration DEF CollectSteps
    <2>4. CASE /\ entries' = [n \in LineNumber |->
                                IF n \in task[w].next .. e THEN task[w].lines[n]
                                                          ELSE entries[n]]
               /\ \E m, k : task' = [task EXCEPT ![w] =
                                       [task[w] EXCEPT !.next = m, !.number = k]]
               /\ Goto(w, IF e = task[w].last THEN "record" ELSE "save")
      <3>1. /\ pc'[w] \in {"record", "save"}
            /\ task'[w].known = task[w].known /\ task'[w].seen = task[w].seen
            /\ task'[w].reset = task[w].reset /\ task'[w].lines = task[w].lines
        BY <2>4, TypeOfTask DEF Goto, TypeInv, TypeOK, TaskType
      <3>2. GenerationOf(w)'
        BY <1>1, <2>2, <3>1, KeepsGeneration DEF SeenSteps, CollectSteps, HoldingSteps
      <3>3. pc[w] \in SeenSteps /\ pc[w] \in HoldingSteps
        BY <2>2 DEF SeenSteps, CollectSteps, HoldingSteps
      <3>4. Current(row.identity) => Agrees(task[w].lines) /\ Agrees(entries)
        BY <1>1, <3>3 DEF GenerationInv, GenerationOf, Source
      <3>5. Current(row.identity)' => Agrees(entries)'
        BY <1>1, <2>2, <2>4, <3>4 DEF Agrees, Current
      <3> QED BY <1>2, <2>2, <3>2, <3>5
    <2> QED BY <2>1, <2>3, <2>4
  <1>11. CASE Record(w)
    <2>1. pc'[w] = "idle"
      BY <1>11 DEF TypeInv, TypeOK, Record, Finish
    <2> QED BY <1>11, <2>1, RecordGeneration, IdleGeneration DEF CollectSteps
  <1> QED BY <1>4, <1>5, <1>6, <1>7, <1>8, <1>9, <1>10, <1>11 DEF Collect

LEMMA NextGeneration ==
  ASSUME Isolation, PlainTrimming
  PROVE  TypeInv /\ StoreInv /\ GenerationInv /\ [Next]_vars => GenerationInv'
  <1> SUFFICES ASSUME TypeInv, StoreInv, GenerationInv, [Next]_vars PROVE GenerationInv'
    OBVIOUS
  <1>0. ASSUME UNCHANGED <<file, pristine, row, entries>>
        PROVE  Observed(row.identity)' /\ (Current(row.identity)' => Agrees(entries)')
    BY <1>0 DEF GenerationInv, Observed, Current, Agrees
  <1>1. CASE Environment
    BY <1>1, EnvironmentGeneration
  <1>2. CASE UNCHANGED vars
    BY <1>2 DEF vars, GenerationInv, GenerationOf, Source, Observed, Current, Agrees
  <1>3. ASSUME NEW w \in Workers, NEW step \in {"inspect", "checkInspect"}, Start(w, step)
        PROVE  GenerationInv'
    <2>1. \A v \in Workers : v # w => pc'[v] = "idle"
      BY <1>3, StartAlone DEF StoreInv
    <2>2. pc'[w] = step /\ task'[w].known = row.identity /\ row' = row
      BY <1>3 DEF Start, Goto, TypeInv, TypeOK, store, IdleTask
    <2>3. GenerationOf(w)'
      BY <2>2 DEF GenerationOf, CollectSteps, SeenSteps, HoldingSteps
    <2>4. \A v \in Workers : v # w => GenerationOf(v)'
      BY <2>1, IdleGeneration DEF CollectSteps
    <2> QED BY <1>0, <1>3, <2>3, <2>4 DEF Start, world, store, GenerationInv
  <1>4. ASSUME NEW w \in Workers, Collect(w) \/ Check(w) \/ Fail(w) PROVE GenerationInv'
    <2>1. \A v \in Workers : v # w => GenerationOf(v)'
      BY <1>4, OthersIdle, IdleGeneration DEF StoreInv, CollectSteps
    <2>2. CASE Collect(w)
      BY <2>1, <2>2, CollectGeneration DEF StoreInv, GenerationInv
    <2>3. CASE Check(w) \/ Fail(w)
      <3>1. pc'[w] \notin CollectSteps
        BY <2>3 DEF TypeInv, TypeOK, Check, Fail, Finish, CheckInspect, CheckRead,
           CountLogEntries, Compare, Goto, CollectSteps
      <3>2. UNCHANGED <<file, pristine, row, entries>>
        BY <2>3 DEF Check, CheckInspect, CheckRead, CountLogEntries, Compare, Fail,
           world, store
      <3> QED BY <1>0, <2>1, <3>1, <3>2, IdleGeneration DEF GenerationInv
    <2> QED BY <1>4, <2>2, <2>3
  <1> QED BY <1>1, <1>2, <1>3, <1>4 DEF Next, StartCollect, StartCheck

(* Once a first collection has recorded the identity of the file, the      *)
(* baseline never mixes lines of two generations of it: as long as the     *)
(* record names the current inode and the file has only been appended to,  *)
(* every stored line is a line of that file, whatever rotations, failed    *)
(* calls and interrupted resets came before.  Without that first           *)
(* collection it can (run first_collection_fails).                         *)
THEOREM BaselineOfOneGeneration ==
  ASSUME Isolation, PlainTrimming PROVE CollectedSpec => []OneGeneration
  <1>1. ASSUME CollectedInit PROVE TypeInv /\ StoreInv /\ GenerationInv
    <2>1. file = [inode |-> 1, lines |-> <<>>] /\ Len(<<>>) = 0 /\ row.identity = FileIdentity
      BY <1>1 DEF CollectedInit
    <2>2. TypeOK
      <3>1. /\ file.inode \in 1 .. MaxInode /\ file.lines \in Seq(Contents)
            /\ Len(file.lines) <= MaxLines /\ DOMAIN file = {"inode", "lines"}
        BY <2>1, SizesAssumption
      <3>2. row \in [identity : Identity, last : 0 .. MaxLines]
        BY <1>1, <2>1, SizesAssumption DEF CollectedInit, FileIdentity, Identity
      <3>3. entries \in Numbered
        BY <1>1 DEF CollectedInit, Numbered, NoLines
      <3> QED BY <1>1, <3>1, <3>2, <3>3, IdleTaskType, SizesAssumption
              DEF CollectedInit, TypeOK
    <2>3. TypeInv
      BY <1>1, <2>2 DEF CollectedInit, TypeInv, ReadOK, ReadOf
    <2>4. StoreInv
      <3>1. StoredUpTo(0)
        BY <1>1, SizesAssumption DEF CollectedInit, StoredUpTo, NoLines, LineNumber
      <3> QED BY <1>1, <3>1, IdleStep, SizesAssumption
              DEF CollectedInit, StoreInv, Gapless, Alone
    <2>5. GenerationInv
      <3>1. Observed(row.identity)
        BY <2>1, <2>3, FileIdentityType DEF Observed, FileIdentity, TypeInv
      <3>2. Agrees(entries) /\ \A w \in Workers : GenerationOf(w)
        BY <1>1 DEF CollectedInit, Agrees, NoLines, GenerationOf, CollectSteps,
           SeenSteps, HoldingSteps
      <3> QED BY <3>1, <3>2 DEF GenerationInv
    <2> QED BY <2>3, <2>4, <2>5
  <1>2. TypeInv /\ StoreInv /\ GenerationInv /\ [Next]_vars
          => (TypeInv /\ StoreInv /\ GenerationInv)'
    BY NextType, NextStore, NextGeneration
  <1>3. TypeInv /\ GenerationInv => OneGeneration
    <2> SUFFICES ASSUME TypeInv, GenerationInv, row.identity.inode = file.inode, pristine,
                        NEW n \in Present(entries)
                 PROVE  n <= Len(file.lines) /\ entries[n] = Trimmed[file.lines[n]]
      BY DEF OneGeneration
    <2>1. n \in LineNumber /\ n <= Len(file.lines) /\ entries[n] = file.lines[n]
      BY DEF GenerationInv, Current, Agrees, Present
    <2>2. n \in 1 .. Len(file.lines)
      BY <2>1, SizesAssumption DEF LineNumber, TypeInv, TypeOK
    <2>3. file.lines[n] \in Contents
      BY <2>2 DEF TypeInv, TypeOK
    <2> QED BY <2>1, <2>3 DEF PlainTrimming
  <1> QED BY <1>1, <1>2, <1>3, PTL DEF CollectedSpec
===============================================================================
