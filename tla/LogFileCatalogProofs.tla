-------------------------- MODULE LogFileCatalogProofs --------------------------
(***************************************************************************)
(* Theorems about LogFileCatalog, for every value of its constants.        *)
(***************************************************************************)
EXTENDS LogFileCatalog, FiniteSetTheorems, TLAPS

(* The types, with what a collection needs of its copies: it has one of    *)
(* every file it is to read.                                               *)
Typed ==
  /\ present \in SUBSET Paths
  /\ generation \in [Paths -> Generations]
  /\ exists \in BOOLEAN
  /\ rows \in [Paths -> Rows \cup {NoRow}]
  /\ lock \in Operations \cup {Nobody}
  /\ pc \in [Operations -> Steps]
  /\ task \in [Operations -> Tasks]
  /\ changes \in 0..MaxChanges /\ faults \in 0..MaxFaults

Roles ==
  /\ \A d \in Discoverers : pc[d] \notin CollectionSteps
  /\ \A c \in Collectors : pc[c] \notin DiscoverySteps

Copied ==
  /\ \A c \in Collectors : /\ task[c].todo \cup task[c].busy \subseteq Recorded(task[c].known)
                           /\ task[c].todo \cap task[c].busy = {}
                           /\ pc[c] # "work" => task[c].busy = {}
  /\ \A d \in Discoverers : pc[d] = "drop" => task[d].todo \subseteq Active(task[d].known)

Narrow == \A o \in Operations :
  IsFiniteSet(task[o].busy) /\ Cardinality(task[o].busy) <= Width(o)

BaseInv == Typed /\ Roles /\ Copied /\ Narrow /\ DeletedForGood

LEMMA IdleTaskTyped == IdleTask \in Tasks
BY DEF IdleTask, Tasks, NoRows

LEMMA IdleTaskNarrow ==
  ASSUME NEW o \in Operations
  PROVE  IsFiniteSet(IdleTask.busy) /\ Cardinality(IdleTask.busy) <= Width(o)
BY FileWorkersAssumption, FS_EmptySet DEF IdleTask, Width

-----------------------------------------------------------------------------
(* Types                                                                   *)

LEMMA WrittenTyped ==
  ASSUME Typed, NEW p \in Paths, NEW o \in Operations, p \in Recorded(task[o].known)
  PROVE  /\ task[o].known[p] \in Rows
         /\ \A flag \in BOOLEAN : SetActive(task[o].known[p], flag) \in Rows
BY DEF Typed, Tasks, Recorded, SetActive, Rows

LEMMA DiscoveryTyped ==
  ASSUME BaseInv, NEW d \in Discoverers, Discovery(d)
  PROVE  Typed'
<1> USE DEF BaseInv, Typed, remote, stored, Operations, Goto, Assign
<1>1. CASE Start(d) \/ Skip(d) \/ TakeLock(d) \/ GoneSynced(d)
  BY <1>1 DEF Start, Skip, TakeLock, GoneSynced, Steps, DiscoverySteps, CollectionSteps
<1>2. CASE Unlock(d) \/ SyncConflicts(d)
  BY <1>2, IdleTaskTyped DEF Unlock, SyncConflicts, Return, Steps
<1>3. CASE DiscoveryFails(d)
  BY <1>3, IdleTaskTyped, BoundsAssumption DEF DiscoveryFails, Return, Steps
<1>4. CASE Find(d) \/ ListExisting(d)
  <2>1. [task[d] EXCEPT !.found = present] \in Tasks
    BY DEF Tasks
  <2>2. [task[d] EXCEPT !.known = rows, !.todo = task[d].found] \in Tasks
    BY DEF Tasks
  <2>3. task' \in [Operations -> Tasks]
    BY <1>4, <2>1, <2>2 DEF Find, ListExisting
  <2> QED BY <1>4, <2>3 DEF Find, ListExisting, Steps, DiscoverySteps
<1>5. CASE FoundSynced(d)
  <2>1. Gone(d) \in SUBSET Paths
    BY DEF Gone, Active, Recorded
  <2> QED BY <1>5, <2>1 DEF FoundSynced, Steps, DiscoverySteps, Tasks
<1>6. ASSUME NEW p \in Paths, SyncFound(d, p) PROVE Typed'
  <2>1. task' \in [Operations -> Tasks]
    BY <1>6 DEF SyncFound, Handled, Tasks
  <2>2. NewRow \in Rows
    BY DEF NewRow, Rows
  <2>3. rows' \in [Paths -> Rows \cup {NoRow}]
    <3>1. CASE KeepFound(d, p)
      BY <3>1 DEF KeepFound
    <3>2. CASE Reactivate(d, p)
      <4>1. SetActive(task[d].known[p], TRUE) \in Rows
        BY <3>2, WrittenTyped DEF Reactivate
      <4> QED BY <3>2, <4>1 DEF Reactivate, UpdateLogFile
    <3>3. CASE Create(d, p)
      BY <2>2, <3>3 DEF Create, CreateLogFile
    <3> QED BY <1>6, <3>1, <3>2, <3>3 DEF SyncFound
  <2> QED BY <1>6, <2>1, <2>3 DEF SyncFound
<1>7. ASSUME NEW p \in Paths, Deactivate(d, p) PROVE Typed'
  <2>1. task' \in [Operations -> Tasks]
    BY <1>7 DEF Deactivate, Handled, Tasks
  <2>2. SetActive(task[d].known[p], FALSE) \in Rows
    BY <1>7, WrittenTyped DEF Deactivate, Copied, Active
  <2>3. rows' \in [Paths -> Rows \cup {NoRow}]
    BY <1>7, <2>2 DEF Deactivate, UpdateLogFile
  <2> QED BY <1>7, <2>1, <2>3 DEF Deactivate
<1> QED BY <1>1, <1>2, <1>3, <1>4, <1>5, <1>6, <1>7 DEF Discovery

LEMMA RetypedTask ==
  ASSUME NEW t \in Tasks, NEW todo \in SUBSET Paths, NEW busy \in SUBSET Paths,
         NEW known \in [Paths -> Rows \cup {NoRow}]
  PROVE  /\ [t EXCEPT !.todo = todo, !.known = known] \in Tasks
         /\ [t EXCEPT !.todo = todo, !.busy = busy, !.known = known] \in Tasks
BY DEF Tasks

LEMMA CopiesTyped ==
  ASSUME Typed, NEW files \in SUBSET Paths
  PROVE  CopyOf(files) \in [Paths -> Rows \cup {NoRow}]
BY DEF Typed, CopyOf

LEMMA InspectedTyped ==
  ASSUME Typed, NEW c \in Operations, NEW p \in Paths, p \in Recorded(task[c].known),
         NEW identity \in Identities(c, p)
  PROVE  [task[c].known EXCEPT ![p].identity = identity] \in [Paths -> Rows \cup {NoRow}]
<1>1. task[c].known \in [Paths -> Rows \cup {NoRow}] /\ task[c].known[p] \in Rows
  BY DEF Typed, Tasks, Recorded
<1>2. identity \in Generations \cup {NoIdentity}
  BY <1>1 DEF Typed, Rows, Identities
<1>3. [task[c].known[p] EXCEPT !.identity = identity] \in Rows
  BY <1>1, <1>2 DEF Rows
<1> QED BY <1>1, <1>3

LEMMA CollectionTyped ==
  ASSUME BaseInv, NEW c \in Collectors, Collection(c)
  PROVE  Typed'
<1> USE DEF BaseInv, Typed, remote, stored, Operations, Goto, Assign
<1>1. CASE Start(c) \/ Skip(c) \/ TakeLock(c) \/ FilesDone(c)
  BY <1>1 DEF Start, Skip, TakeLock, FilesDone, Steps, DiscoverySteps, CollectionSteps
<1>2. CASE Unlock(c) \/ ListFilesFails(c)
  BY <1>2, IdleTaskTyped DEF Unlock, ListFilesFails, Return, Steps
<1>3. CASE ListFiles(c)
  <2>1. PICK files \in Chosen(c) :
          /\ Assign(c, [task[c] EXCEPT !.todo = files, !.known = CopyOf(files)])
          /\ Goto(c, IF files = {} THEN "done" ELSE "work")
    BY <1>3 DEF ListFiles
  <2>2. files \in SUBSET Paths
    BY DEF Chosen, Recorded, Active
  <2>3. [task[c] EXCEPT !.todo = files, !.known = CopyOf(files)] \in Tasks
    <3>1. CopyOf(files) \in [Paths -> Rows \cup {NoRow}]
      BY <2>2, CopiesTyped
    <3> QED BY <2>2, <3>1, RetypedTask
  <2>4. task' \in [Operations -> Tasks]
    BY <2>1, <2>3
  <2>5. pc' \in [Operations -> Steps]
    BY <2>1 DEF Steps, CollectionSteps
  <2> QED BY <1>3, <2>4, <2>5 DEF ListFiles
<1>4. CASE Cancel(c)
  BY <1>4 DEF Cancel, Tasks
<1>5. ASSUME NEW p \in Paths, StartFile(c, p) PROVE Typed'
  <2>1. p \in Recorded(task[c].known)
    BY <1>5 DEF StartFile, Copied
  <2>2. PICK identity \in Identities(c, p) :
          Assign(c, [task[c] EXCEPT !.todo = @ \ {p}, !.busy = @ \cup {p},
                                    !.known = [@ EXCEPT ![p].identity = identity]])
    BY <1>5 DEF StartFile
  <2>3. [task[c].known EXCEPT ![p].identity = identity] \in [Paths -> Rows \cup {NoRow}]
    BY <2>1, InspectedTyped
  <2>4. [task[c] EXCEPT !.todo = @ \ {p}, !.busy = @ \cup {p},
                        !.known = [@ EXCEPT ![p].identity = identity]] \in Tasks
    <3>1. task[c] \in Tasks
      OBVIOUS
    <3>2. task[c].todo \ {p} \in SUBSET Paths /\ task[c].busy \cup {p} \in SUBSET Paths
      BY <3>1 DEF Tasks
    <3> QED BY <2>3, <3>1, <3>2, RetypedTask
  <2> QED BY <1>5, <2>2, <2>4 DEF StartFile
<1>6. ASSUME NEW p \in Paths, Record(c, p) \/ FileFails(c, p) PROVE Typed'
  <2>1. [task[c] EXCEPT !.busy = @ \ {p}, !.known = [@ EXCEPT ![p] = NoRow]] \in Tasks
    BY DEF Tasks
  <2>2. task' \in [Operations -> Tasks]
    BY <1>6, <2>1 DEF Record, FileFails, FileDone
  <2>3. CASE Record(c, p)
    <3>1. task[c].known[p] \in Rows
      BY <2>3, WrittenTyped DEF Record, Copied
    <3> QED BY <2>2, <2>3, <3>1 DEF Record, UpdateLogFile
  <2>4. CASE FileFails(c, p)
    BY <2>2, <2>4 DEF FileFails
  <2> QED BY <1>6, <2>3, <2>4
<1> QED BY <1>1, <1>2, <1>3, <1>4, <1>5, <1>6 DEF Collection

-----------------------------------------------------------------------------
(* Steps, copies and widths                                                *)

LEMMA RolesKept ==
  ASSUME Typed, Roles,
         \/ \E d \in Discoverers : Discovery(d)
         \/ \E c \in Collectors : Collection(c)
  PROVE  Roles'
<1> USE DEF Typed, Roles, Goto, Return, Assign, Operations, DiscoverySteps, CollectionSteps
<1>1. ASSUME NEW d \in Discoverers, Discovery(d) PROVE Roles'
  BY <1>1, OperationsAssumption
  DEF Discovery, Start, Skip, TakeLock, Unlock, Find, ListExisting, FoundSynced, GoneSynced,
      SyncFound, Deactivate, SyncConflicts, DiscoveryFails
<1>2. ASSUME NEW c \in Collectors, Collection(c) PROVE Roles'
  BY <1>2, OperationsAssumption
  DEF Collection, Start, Skip, TakeLock, Unlock, ListFiles, ListFilesFails, Cancel, FilesDone,
      StartFile, Record, FileFails
<1> QED BY <1>1, <1>2

LEMMA RowsKept ==
  ASSUME Typed, DeletedForGood,
         \/ \E d \in Discoverers : Discovery(d)
         \/ \E c \in Collectors : Collection(c)
  PROVE  DeletedForGood'
<1> USE DEF Typed, DeletedForGood, Recorded, stored
<1>1. ASSUME NEW d \in Discoverers, Discovery(d) PROVE DeletedForGood'
  BY <1>1
  DEF Discovery, Start, Skip, TakeLock, Unlock, Find, ListExisting, FoundSynced, GoneSynced,
      SyncFound, KeepFound, Reactivate, Create, Deactivate, UpdateLogFile, CreateLogFile,
      SyncConflicts, DiscoveryFails
<1>2. ASSUME NEW c \in Collectors, Collection(c) PROVE DeletedForGood'
  BY <1>2
  DEF Collection, Start, Skip, TakeLock, Unlock, ListFiles, ListFilesFails, Cancel, FilesDone,
      StartFile, Record, UpdateLogFile, FileFails
<1> QED BY <1>1, <1>2
-----------------------------------------------------------------------------
(* What a step of one operation leaves alone                               *)

Holding(o) == pc[o] \notin {"idle", "listed"}

StepOf(o) == \/ o \in Discoverers /\ Discovery(o)
             \/ o \in Collectors /\ Collection(o)

LEMMA OthersUntouched ==
  ASSUME Typed, NEW o \in Operations, StepOf(o)
  PROVE  /\ \A q \in Operations \ {o} : pc'[q] = pc[q] /\ task'[q] = task[q]
         /\ rows' # rows => Holding(o)
         /\ exists' = exists /\ generation' = generation
<1> USE DEF Typed, Goto, Return, Assign, Holding, remote, stored
<1>1. CASE o \in Discoverers /\ Discovery(o)
  BY <1>1 DEF Discovery, Start, Skip, TakeLock, Unlock, Find, ListExisting, FoundSynced, GoneSynced,
      SyncFound, Handled, Deactivate, SyncConflicts, DiscoveryFails
<1>2. CASE o \in Collectors /\ Collection(o)
  BY <1>2 DEF Collection, Start, Skip, TakeLock, Unlock, ListFiles, ListFilesFails, Cancel, FilesDone,
      StartFile, Record, FileDone, FileFails
<1> QED BY <1>1, <1>2 DEF StepOf

LEMMA CopiedKept ==
  ASSUME Typed, Typed', Roles, Copied, NEW o \in Operations, StepOf(o)
  PROVE  Copied'
<1> USE DEF Typed, Roles, Copied, Goto, Return, Assign, Operations
<1>1. \A q \in Operations \ {o} : pc'[q] = pc[q] /\ task'[q] = task[q]
  BY OthersUntouched
<1>2. CASE o \in Discoverers /\ Discovery(o)
  <2>1. pc'[o] = "drop" => task'[o].todo \subseteq Active(task'[o].known)
    <3>1. CASE FoundSynced(o)
      <4>1. Gone(o) \subseteq Active(task[o].known)
        BY DEF Gone
      <4>2. task'[o].todo = Gone(o) /\ task'[o].known = task[o].known
        BY <3>1 DEF FoundSynced, Tasks
      <4> QED BY <4>1, <4>2
    <3>2. ASSUME NEW p \in Paths, Deactivate(o, p)
          PROVE  task'[o].todo \subseteq Active(task'[o].known)
      <4>1. task'[o].todo = task[o].todo \ {p} /\ task'[o].known = task[o].known
        BY <3>2 DEF Deactivate, Handled, Tasks
      <4> QED BY <1>2, <3>2, <4>1 DEF Deactivate
    <3>3. CASE ~FoundSynced(o) /\ ~\E p \in Paths : Deactivate(o, p)
      BY <1>2, <3>3
      DEF Discovery, Start, Skip, TakeLock, Unlock, Find, ListExisting, GoneSynced,
          SyncFound, SyncConflicts, DiscoveryFails
    <3> QED BY <3>1, <3>2, <3>3
  <2> QED BY <1>1, <1>2, <2>1, OperationsAssumption
<1>3. CASE o \in Collectors /\ Collection(o)
  <2> DEFINE Good(t, at) == /\ t.todo \cup t.busy \subseteq Recorded(t.known)
                            /\ t.todo \cap t.busy = {}
                            /\ at # "work" => t.busy = {}
  <2>1. Good(task[o], pc[o])
    BY <1>3
  <2>2. ASSUME Start(o) \/ Skip(o) \/ TakeLock(o) \/ FilesDone(o) PROVE Good(task'[o], pc'[o])
    BY <2>1, <2>2 DEF Start, Skip, TakeLock, FilesDone
  <2>3. ASSUME Unlock(o) \/ ListFilesFails(o) PROVE Good(task'[o], pc'[o])
    BY <2>3 DEF Unlock, ListFilesFails, IdleTask
  <2>4. ASSUME ListFiles(o) PROVE Good(task'[o], pc'[o])
    <3>1. PICK files \in Chosen(o) :
            /\ Assign(o, [task[o] EXCEPT !.todo = files, !.known = CopyOf(files)])
            /\ Goto(o, IF files = {} THEN "done" ELSE "work")
      BY <2>4 DEF ListFiles
    <3>2. files \subseteq Recorded(CopyOf(files))
      <4>1. files \subseteq Recorded(rows)
        BY DEF Chosen, Active
      <4> QED BY <4>1 DEF Recorded, CopyOf
    <3>3. task'[o].todo = files /\ task'[o].known = CopyOf(files) /\ task'[o].busy = task[o].busy
      BY <3>1 DEF Tasks
    <3>4. task[o].busy = {}
      BY <2>1, <2>4 DEF ListFiles
    <3> QED BY <3>2, <3>3, <3>4
  <2>5. ASSUME Cancel(o) PROVE Good(task'[o], pc'[o])
    <3>1. /\ task'[o].todo = {} /\ task'[o].busy = task[o].busy
          /\ task'[o].known = task[o].known /\ pc'[o] = pc[o]
      BY <2>5 DEF Cancel, Tasks
    <3> QED BY <2>1, <3>1
  <2>6. ASSUME NEW p \in Paths, StartFile(o, p) PROVE Good(task'[o], pc'[o])
    <3>1. PICK identity \in Identities(o, p) :
            Assign(o, [task[o] EXCEPT !.todo = @ \ {p}, !.busy = @ \cup {p},
                                      !.known = [@ EXCEPT ![p].identity = identity]])
      BY <2>6 DEF StartFile
    <3>2. /\ task'[o].todo = task[o].todo \ {p} /\ task'[o].busy = task[o].busy \cup {p}
          /\ task'[o].known = [task[o].known EXCEPT ![p].identity = identity]
      BY <3>1 DEF Tasks
    <3>3. p \in Recorded(task[o].known) /\ pc'[o] = "work"
      BY <2>1, <2>6 DEF StartFile
    <3>4. [task[o].known EXCEPT ![p].identity = identity] \in [Paths -> Rows \cup {NoRow}]
      BY <3>3, InspectedTyped
    <3>5. [task[o].known EXCEPT ![p].identity = identity][p] # NoRow
      <4>1. task[o].known \in [Paths -> Rows \cup {NoRow}] /\ task[o].known[p] \in Rows
        BY <3>3 DEF Tasks, Recorded
      <4>2. identity \in Generations \cup {NoIdentity}
        BY <4>1 DEF Identities, Rows
      <4>3. [task[o].known[p] EXCEPT !.identity = identity] \in Rows
        BY <4>1, <4>2 DEF Rows
      <4> QED BY <4>1, <4>3, NoRowAssumption
    <3>6. Recorded(task[o].known) \subseteq Recorded(task'[o].known)
      BY <3>2, <3>4, <3>5 DEF Recorded, Tasks
    <3> QED BY <2>1, <2>6, <3>2, <3>3, <3>6 DEF StartFile
  <2>7. ASSUME NEW p \in Paths, Record(o, p) \/ FileFails(o, p) PROVE Good(task'[o], pc'[o])
    <3>1. /\ task'[o].todo = task[o].todo /\ task'[o].busy = task[o].busy \ {p}
          /\ task'[o].known = [task[o].known EXCEPT ![p] = NoRow] /\ pc'[o] = pc[o]
          /\ p \in task[o].busy
      <4>1. task'[o] = [task[o] EXCEPT !.busy = @ \ {p}, !.known = [@ EXCEPT ![p] = NoRow]]
        BY <2>7 DEF Record, FileFails, FileDone
      <4>2. pc' = pc /\ p \in task[o].busy
        BY <2>7 DEF Record, FileFails
      <4>3. task[o] \in Tasks
        OBVIOUS
      <4> QED BY <4>1, <4>2, <4>3 DEF Tasks
    <3>2. Recorded(task[o].known) \ {p} \subseteq Recorded(task'[o].known)
      BY <3>1 DEF Recorded, Tasks
    <3> QED BY <2>1, <3>1, <3>2
  <2>8. Good(task'[o], pc'[o])
    BY <1>3, <2>2, <2>3, <2>4, <2>5, <2>6, <2>7 DEF Collection
  <2> QED BY <1>1, <1>3, <2>8, OperationsAssumption
<1> QED BY <1>2, <1>3 DEF StepOf
LEMMA NarrowKept ==
  ASSUME Typed, Copied, Narrow, NEW o \in Operations, StepOf(o)
  PROVE  Narrow'
<1> USE DEF Typed, Narrow, Goto, Return, Assign
<1> DEFINE Fits(busy) == IsFiniteSet(busy) /\ Cardinality(busy) <= Width(o)
<1>1. \A q \in Operations \ {o} : task'[q] = task[q]
  BY OthersUntouched
<1>2. Fits(task[o].busy) /\ task[o] \in Tasks
  OBVIOUS
<1>3. Fits({})
  BY FileWorkersAssumption, FS_EmptySet DEF Width
<1>4. CASE task'[o].busy = task[o].busy \/ task'[o] = IdleTask
  <2>1. Fits(task'[o].busy)
    <3>1. CASE task'[o].busy = task[o].busy
      BY <1>2, <3>1
    <3>2. CASE task'[o] = IdleTask
      BY <1>3, <3>2 DEF IdleTask
    <3> QED BY <1>4, <3>1, <3>2
  <2> QED BY <1>1, <2>1 DEF Width
<1>5. ASSUME NEW p \in Paths, StartFile(o, p) PROVE Narrow'
  <2>1. task'[o].busy = task[o].busy \cup {p}
    BY <1>2, <1>5 DEF StartFile, Tasks
  <2>2. Cardinality(task[o].busy) < Width(o) /\ Cardinality(task[o].busy) \in Nat /\ Width(o) \in Nat
    BY <1>2, <1>5, FS_CardinalityType, FileWorkersAssumption DEF StartFile, WorkerFree, Width
  <2>3. /\ IsFiniteSet(task[o].busy \cup {p})
        /\ \/ Cardinality(task[o].busy \cup {p}) = Cardinality(task[o].busy)
           \/ Cardinality(task[o].busy \cup {p}) = Cardinality(task[o].busy) + 1
    BY <1>2, FS_AddElement
  <2>4. Fits(task'[o].busy)
    BY <2>1, <2>2, <2>3
  <2> QED BY <1>1, <2>4 DEF Width
<1>6. ASSUME NEW p \in Paths, Record(o, p) \/ FileFails(o, p) PROVE Narrow'
  <2>1. task'[o].busy = task[o].busy \ {p} /\ p \in task[o].busy
    BY <1>2, <1>6 DEF Record, FileFails, FileDone, Tasks
  <2>2. /\ IsFiniteSet(task[o].busy \ {p})
        /\ Cardinality(task[o].busy \ {p}) = Cardinality(task[o].busy) - 1
    BY <1>2, <2>1, FS_RemoveElement
  <2>3. Cardinality(task[o].busy) \in Nat /\ Width(o) \in Nat
    BY <1>2, FS_CardinalityType, FileWorkersAssumption DEF Width
  <2>4. Fits(task'[o].busy)
    BY <1>2, <2>1, <2>2, <2>3
  <2> QED BY <1>1, <2>4 DEF Width
<1>7. CASE o \in Discoverers /\ Discovery(o)
  <2>1. CASE \/ Find(o) \/ ListExisting(o) \/ FoundSynced(o)
             \/ \E p \in Paths : SyncFound(o, p) \/ Deactivate(o, p)
    <3>1. Find(o) => task'[o].busy = task[o].busy
      BY <1>2 DEF Find, Tasks
    <3>2. ListExisting(o) => task'[o].busy = task[o].busy
      BY <1>2 DEF ListExisting, Tasks
    <3>3. FoundSynced(o) => task'[o].busy = task[o].busy
      BY <1>2 DEF FoundSynced, Tasks
    <3>4. \A p \in Paths : SyncFound(o, p) \/ Deactivate(o, p) => task'[o].busy = task[o].busy
      <4>1. \A p \in Paths : Handled(o, p) => task'[o].busy = task[o].busy
        BY <1>2 DEF Handled, Tasks
      <4> QED BY <4>1 DEF SyncFound, Deactivate
    <3> QED BY <1>4, <2>1, <3>1, <3>2, <3>3, <3>4
  <2>2. CASE Start(o) \/ Skip(o) \/ TakeLock(o) \/ GoneSynced(o)
    BY <1>4, <2>2 DEF Start, Skip, TakeLock, GoneSynced
  <2>3. CASE Unlock(o) \/ SyncConflicts(o) \/ DiscoveryFails(o)
    BY <1>4, <2>3 DEF Unlock, SyncConflicts, DiscoveryFails
  <2> QED BY <1>7, <2>1, <2>2, <2>3 DEF Discovery
<1>8. CASE o \in Collectors /\ Collection(o)
  <2>1. CASE ListFiles(o) \/ Cancel(o)
    <3>1. ListFiles(o) => task'[o].busy = task[o].busy
      BY <1>2 DEF ListFiles, Tasks
    <3>2. Cancel(o) => task'[o].busy = task[o].busy
      BY <1>2 DEF Cancel, Tasks
    <3> QED BY <1>4, <2>1, <3>1, <3>2
  <2>2. CASE Start(o) \/ Skip(o) \/ TakeLock(o) \/ FilesDone(o)
    BY <1>4, <2>2 DEF Start, Skip, TakeLock, FilesDone
  <2>3. CASE Unlock(o) \/ ListFilesFails(o)
    BY <1>4, <2>3 DEF Unlock, ListFilesFails
  <2> QED BY <1>5, <1>6, <1>8, <2>1, <2>2, <2>3 DEF Collection
<1> QED BY <1>7, <1>8 DEF StepOf

-----------------------------------------------------------------------------
(* Under per_server_isolation: one operation at a time is past the lock,   *)
(* so what it has copied is what is stored, but for a deleted server.      *)

Locked == \A o \in Operations : Holding(o) => lock = o

SyncedAs(d) ==
  /\ pc[d] = "sync" =>
       /\ task[d].todo \subseteq task[d].found
       /\ exists => \A p \in Paths :
            IF p \in task[d].found \ task[d].todo THEN p \in Active(rows)
                                                  ELSE rows[p] = task[d].known[p]
  /\ pc[d] = "drop" /\ exists => \A p \in Paths :
       /\ p \in Active(rows) <=> p \in task[d].found \cup task[d].todo
       /\ p \in task[d].todo => p \notin task[d].found /\ rows[p] = task[d].known[p]
  /\ pc[d] = "done" /\ exists => Active(rows) = task[d].found

CollectedAs(c) ==
  pc[c] = "work" => \A p \in (task[c].todo \cup task[c].busy) \cap Recorded(rows) :
    /\ rows[p].active = task[c].known[p].active
    /\ rows[p].identity <= task[c].known[p].identity

(* No record and no copy knows of a file that is not there yet. *)
Past ==
  /\ \A p \in Recorded(rows) : rows[p].identity <= generation[p]
  /\ \A o \in Operations : \A p \in Recorded(task[o].known) :
       task[o].known[p].identity <= generation[p]

Alone == Isolation =>
  /\ Locked
  /\ \A d \in Discoverers : SyncedAs(d)
  /\ \A c \in Collectors : CollectedAs(c)

Inv == BaseInv /\ Past /\ Alone
LEMMA HandledTask ==
  ASSUME Typed, NEW o \in Operations, NEW p, Handled(o, p)
  PROVE  /\ task'[o].todo = task[o].todo \ {p} /\ task'[o].found = task[o].found
         /\ task'[o].known = task[o].known /\ task'[o].busy = task[o].busy
BY DEF Typed, Handled, Assign, Tasks

LEMMA LockedKept ==
  ASSUME Typed, Isolation, Locked, NEW o \in Operations, StepOf(o)
  PROVE  Locked'
<1> USE DEF Typed, Locked, Holding, Goto, Return, Operations
<1>1. \A q \in Operations \ {o} : pc'[q] = pc[q]
  BY OthersUntouched
<1>2. CASE TakeLock(o)
  BY <1>1, <1>2, OperationsAssumption DEF TakeLock, LockFree
<1>3. CASE lock' = Nobody /\ Holding(o) /\ pc'[o] = "idle"
  BY <1>1, <1>3, OperationsAssumption
<1>4. CASE lock' = lock /\ (Holding(o)' => Holding(o))
  BY <1>1, <1>4
<1>5. CASE o \in Discoverers /\ Discovery(o)
  <2>1. CASE Unlock(o) \/ SyncConflicts(o) \/ DiscoveryFails(o)
    BY <1>3, <2>1 DEF Unlock, SyncConflicts, Conflicts, DiscoveryFails, DiscoverySteps
  <2>2. CASE Start(o) \/ Skip(o) \/ Find(o) \/ ListExisting(o) \/ FoundSynced(o) \/ GoneSynced(o)
    BY <1>4, <2>2 DEF Start, Skip, Find, ListExisting, FoundSynced, GoneSynced
  <2>3. CASE \E p \in Paths : SyncFound(o, p) \/ Deactivate(o, p)
    BY <1>4, <2>3 DEF SyncFound, Deactivate
  <2> QED BY <1>2, <1>5, <2>1, <2>2, <2>3 DEF Discovery
<1>6. CASE o \in Collectors /\ Collection(o)
  <2>1. CASE Unlock(o) \/ ListFilesFails(o)
    BY <1>3, <2>1 DEF Unlock, ListFilesFails
  <2>2. CASE Start(o) \/ Skip(o) \/ ListFiles(o) \/ Cancel(o) \/ FilesDone(o)
    BY <1>4, <2>2 DEF Start, Skip, ListFiles, Cancel, FilesDone
  <2>3. CASE \E p \in Paths : StartFile(o, p) \/ Record(o, p) \/ FileFails(o, p)
    BY <1>4, <2>3 DEF StartFile, Record, FileFails
  <2> QED BY <1>2, <1>6, <2>1, <2>2, <2>3 DEF Collection
<1> QED BY <1>5, <1>6 DEF StepOf

LEMMA PastRowsKept ==
  ASSUME Typed, Copied, Past, NEW o \in Operations, StepOf(o), NEW p \in Recorded(rows')
  PROVE  rows'[p].identity <= generation'[p]
<1> USE DEF Typed, Past
<1>1. generation' = generation /\ p \in Paths
  BY OthersUntouched DEF Recorded
<1>2. CASE rows'[p] = rows[p]
  BY <1>1, <1>2 DEF Recorded
<1>3. CASE rows'[p] = NewRow
  BY <1>1, <1>3 DEF NewRow, NoIdentity, Generations
<1>4. CASE /\ p \in Recorded(task[o].known)
           /\ rows'[p] = task[o].known[p] \/ \E flag \in BOOLEAN : rows'[p] = SetActive(task[o].known[p], flag)
  <2>1. task[o].known[p] \in Rows
    BY <1>1, <1>4, WrittenTyped
  <2>2. rows'[p].identity = task[o].known[p].identity
    <3>1. \A flag \in BOOLEAN : SetActive(task[o].known[p], flag).identity = task[o].known[p].identity
      BY <2>1 DEF SetActive, Rows
    <3> QED BY <1>4, <3>1
  <2> QED BY <1>1, <1>4, <2>2
<1>5. ASSUME NEW q \in Paths, SyncFound(o, q) PROVE rows'[p].identity <= generation'[p]
  BY <1>1, <1>2, <1>3, <1>4, <1>5
  DEF SyncFound, KeepFound, Reactivate, Create, UpdateLogFile, CreateLogFile
<1>6. ASSUME o \in Discoverers, NEW q \in Paths, Deactivate(o, q)
      PROVE  rows'[p].identity <= generation'[p]
  <2>1. q \in Recorded(task[o].known)
    BY <1>6 DEF Copied, Deactivate, Active
  <2> QED BY <1>1, <1>2, <1>4, <1>6, <2>1 DEF Deactivate, UpdateLogFile
<1>7. ASSUME o \in Collectors, NEW q \in Paths, Record(o, q)
      PROVE  rows'[p].identity <= generation'[p]
  <2>1. q \in Recorded(task[o].known)
    BY <1>7 DEF Copied, Record
  <2> QED BY <1>1, <1>2, <1>4, <1>7, <2>1 DEF Record, UpdateLogFile
<1>8. CASE rows' = rows
  BY <1>2, <1>8
<1>9. CASE o \in Discoverers /\ Discovery(o)
  BY <1>5, <1>6, <1>8, <1>9
  DEF Discovery, Start, Skip, TakeLock, Unlock, Find, ListExisting, FoundSynced, GoneSynced,
      SyncConflicts, DiscoveryFails, stored
<1>10. CASE o \in Collectors /\ Collection(o)
  BY <1>7, <1>8, <1>10
  DEF Collection, Start, Skip, TakeLock, Unlock, ListFiles, ListFilesFails, Cancel, FilesDone,
      StartFile, FileFails, stored
<1> QED BY <1>9, <1>10 DEF StepOf
LEMMA PastCopiesKept ==
  ASSUME Typed, Copied, Past, NEW o \in Operations, StepOf(o),
         NEW p \in Recorded(task'[o].known)
  PROVE  task'[o].known[p].identity <= generation[p]
<1> USE DEF Typed, Past, Goto, Return, Assign
<1>1. p \in Paths /\ task[o] \in Tasks
  BY DEF Recorded
<1>2. CASE task'[o].known = task[o].known
  BY <1>2
<1>3. CASE task'[o] = IdleTask
  BY <1>3 DEF IdleTask, NoRows, Recorded
<1>4. CASE task' = task
  BY <1>2, <1>4
<1>5. CASE ListExisting(o)
  <2>1. task'[o].known = rows
    BY <1>1, <1>5 DEF ListExisting, Tasks
  <2> QED BY <2>1
<1>6. CASE ListFiles(o)
  <2>1. PICK files \in Chosen(o) :
          Assign(o, [task[o] EXCEPT !.todo = files, !.known = CopyOf(files)])
    BY <1>6 DEF ListFiles
  <2>2. task'[o].known = CopyOf(files)
    BY <1>1, <2>1 DEF Tasks
  <2>3. p \in Recorded(rows) /\ task'[o].known[p] = rows[p]
    BY <2>2 DEF CopyOf, Recorded
  <2> QED BY <2>3
<1>7. ASSUME o \in Collectors, NEW q \in Paths, StartFile(o, q)
      PROVE  task'[o].known[p].identity <= generation[p]
  <2>1. PICK identity \in Identities(o, q) :
          Assign(o, [task[o] EXCEPT !.todo = @ \ {q}, !.busy = @ \cup {q},
                                    !.known = [@ EXCEPT ![q].identity = identity]])
    BY <1>7 DEF StartFile
  <2>2. task'[o].known = [task[o].known EXCEPT ![q].identity = identity]
    BY <1>1, <2>1 DEF Tasks
  <2>3. CASE p # q
    BY <1>1, <2>2, <2>3 DEF Recorded, Tasks
  <2>4. CASE p = q
    <3>1. q \in Recorded(task[o].known) /\ task[o].known[q] \in Rows
      BY <1>1, <1>7 DEF StartFile, Copied, Recorded, Tasks
    <3>2. identity <= generation[q]
      BY <1>1, <2>4, <3>1 DEF Identities, Generations
    <3>3. task'[o].known[q] = [task[o].known[q] EXCEPT !.identity = identity]
      BY <1>1, <2>2, <2>4 DEF Tasks
    <3>4. task'[o].known[q].identity = identity
      BY <3>1, <3>3 DEF Rows
    <3> QED BY <2>4, <3>2, <3>4
  <2> QED BY <2>3, <2>4
<1>8. ASSUME NEW q \in Paths, FileDone(o, q) PROVE task'[o].known[p].identity <= generation[p]
  <2>1. task'[o].known = [task[o].known EXCEPT ![q] = NoRow]
    BY <1>1, <1>8 DEF FileDone, Tasks
  <2> QED BY <1>1, <2>1 DEF Recorded, Tasks
<1>9. CASE o \in Discoverers /\ Discovery(o)
  <2>1. CASE Find(o)
    <3>1. task'[o].known = task[o].known
      BY <1>1, <2>1 DEF Find, Tasks
    <3> QED BY <1>2, <3>1
  <2>2. CASE FoundSynced(o)
    <3>1. task'[o].known = task[o].known
      BY <1>1, <2>2 DEF FoundSynced, Tasks
    <3> QED BY <1>2, <3>1
  <2>3. CASE \E q \in Paths : SyncFound(o, q) \/ Deactivate(o, q)
    BY <1>2, <2>3, HandledTask DEF SyncFound, Deactivate
  <2>4. CASE Unlock(o) \/ SyncConflicts(o) \/ DiscoveryFails(o)
    BY <1>3, <2>4 DEF Unlock, SyncConflicts, DiscoveryFails
  <2>5. CASE Start(o) \/ Skip(o) \/ TakeLock(o) \/ GoneSynced(o)
    BY <1>4, <2>5 DEF Start, Skip, TakeLock, GoneSynced
  <2> QED BY <1>5, <1>9, <2>1, <2>2, <2>3, <2>4, <2>5 DEF Discovery
<1>10. CASE o \in Collectors /\ Collection(o)
  <2>1. CASE Cancel(o)
    <3>1. task'[o].known = task[o].known
      BY <1>1, <2>1 DEF Cancel, Tasks
    <3> QED BY <1>2, <3>1
  <2>2. CASE \E q \in Paths : Record(o, q) \/ FileFails(o, q)
    BY <1>8, <2>2 DEF Record, FileFails
  <2>3. CASE Unlock(o) \/ ListFilesFails(o)
    BY <1>3, <2>3 DEF Unlock, ListFilesFails
  <2>4. CASE Start(o) \/ Skip(o) \/ TakeLock(o) \/ FilesDone(o)
    BY <1>4, <2>4 DEF Start, Skip, TakeLock, FilesDone
  <2> QED BY <1>6, <1>7, <1>10, <2>1, <2>2, <2>3, <2>4 DEF Collection
<1> QED BY <1>9, <1>10 DEF StepOf
-----------------------------------------------------------------------------
(* What the operation past the lock has seen stays so                      *)

LEMMA WrittenAlone ==
  ASSUME Typed, Isolation, Locked, NEW o \in Operations, StepOf(o),
         NEW q \in Operations \ {o}, Holding(q)
  PROVE  rows' = rows /\ exists' = exists /\ pc'[q] = pc[q] /\ task'[q] = task[q]
<1>1. ~Holding(o)
  BY DEF Locked
<1> QED BY <1>1, OthersUntouched

LEMMA SyncedByOthers ==
  ASSUME Typed, Isolation, Locked, NEW o \in Operations, StepOf(o),
         NEW d \in Discoverers \ {o}, SyncedAs(d)
  PROVE  SyncedAs(d)'
<1>1. d \in Operations \ {o}
  BY DEF Operations
<1>2. pc'[d] = pc[d]
  BY <1>1, OthersUntouched
<1>3. CASE Holding(d)
  BY <1>1, <1>3, WrittenAlone DEF SyncedAs, Active, Recorded
<1>4. CASE ~Holding(d)
  BY <1>2, <1>4 DEF SyncedAs, Holding
<1> QED BY <1>3, <1>4

LEMMA CollectedByOthers ==
  ASSUME Typed, Isolation, Locked, NEW o \in Operations, StepOf(o),
         NEW c \in Collectors \ {o}, CollectedAs(c)
  PROVE  CollectedAs(c)'
<1>1. c \in Operations \ {o}
  BY DEF Operations
<1>2. pc'[c] = pc[c]
  BY <1>1, OthersUntouched
<1>3. CASE Holding(c)
  BY <1>1, <1>3, WrittenAlone DEF CollectedAs, Recorded
<1>4. CASE ~Holding(c)
  BY <1>2, <1>4 DEF CollectedAs, Holding
<1> QED BY <1>3, <1>4

LEMMA SyncedAfter ==
  ASSUME BaseInv, NEW d \in Discoverers, SyncedAs(d), Discovery(d)
  PROVE  SyncedAs(d)'
<1> USE DEF BaseInv, Typed, Goto, Return, Assign, stored
<1>1. d \in Operations /\ task[d] \in Tasks
  BY DEF Operations
<1>2. CASE pc'[d] \notin {"sync", "drop", "done"}
  BY <1>2 DEF SyncedAs
<1>3. CASE \/ Start(d) \/ Skip(d) \/ TakeLock(d) \/ Unlock(d) \/ Find(d)
           \/ SyncConflicts(d) \/ DiscoveryFails(d)
  <2>1. pc'[d] \notin {"sync", "drop", "done"}
    BY <1>1, <1>3 DEF Start, Skip, TakeLock, Unlock, Find, SyncConflicts, DiscoveryFails
  <2> QED BY <1>2, <2>1
<1>4. CASE ListExisting(d)
  <2>1. /\ task'[d].todo = task[d].found /\ task'[d].found = task[d].found
        /\ task'[d].known = rows /\ pc'[d] = "sync" /\ rows' = rows
    BY <1>1, <1>4 DEF ListExisting, Tasks
  <2> QED BY <2>1 DEF SyncedAs
<1>5. ASSUME NEW q \in Paths, SyncFound(d, q) PROVE SyncedAs(d)'
  <2>1. /\ task'[d].todo = task[d].todo \ {q} /\ task'[d].found = task[d].found
        /\ task'[d].known = task[d].known
    BY <1>1, <1>5, HandledTask DEF SyncFound
  <2>2. pc'[d] = "sync" /\ pc[d] = "sync" /\ q \in task[d].todo /\ exists' = exists
    BY <1>5 DEF SyncFound
  <2>3. \A p \in Paths \ {q} : rows'[p] = rows[p]
    BY <1>5 DEF SyncFound, KeepFound, Reactivate, Create, UpdateLogFile, CreateLogFile
  <2>4. ASSUME exists PROVE rows'[q] # NoRow /\ rows'[q].active
    <3>1. rows[q] = task[d].known[q]
      BY <2>2, <2>4 DEF SyncedAs
    <3>2. CASE KeepFound(d, q)
      BY <3>1, <3>2 DEF KeepFound, Active, Recorded
    <3>3. CASE Reactivate(d, q)
      <4>1. task[d].known[q] \in Rows
        BY <1>1, <3>3, WrittenTyped DEF Reactivate
      <4>2. SetActive(task[d].known[q], TRUE) \in Rows /\ SetActive(task[d].known[q], TRUE).active
        BY <4>1 DEF SetActive, Rows
      <4>3. rows'[q] = SetActive(task[d].known[q], TRUE)
        BY <3>3 DEF Reactivate, UpdateLogFile
      <4> QED BY <4>2, <4>3, NoRowAssumption
    <3>4. CASE Create(d, q)
      <4>1. NewRow \in Rows /\ NewRow.active
        BY DEF NewRow, Rows
      <4> QED BY <3>4, <4>1, NoRowAssumption DEF Create, CreateLogFile
    <3> QED BY <1>5, <3>2, <3>3, <3>4 DEF SyncFound
  <2> QED BY <2>1, <2>2, <2>3, <2>4 DEF SyncedAs, Active, Recorded
<1>6. CASE FoundSynced(d)
  <2>1. /\ task'[d].todo = Gone(d) /\ task'[d].found = task[d].found
        /\ task'[d].known = task[d].known /\ pc'[d] = "drop" /\ rows' = rows /\ exists' = exists
    BY <1>1, <1>6 DEF FoundSynced, Tasks
  <2>2. pc[d] = "sync" /\ task[d].todo = {}
    BY <1>6 DEF FoundSynced
  <2> QED BY <2>1, <2>2 DEF SyncedAs, Gone, Active, Recorded
<1>7. ASSUME NEW q \in Paths, Deactivate(d, q) PROVE SyncedAs(d)'
  <2>1. /\ task'[d].todo = task[d].todo \ {q} /\ task'[d].found = task[d].found
        /\ task'[d].known = task[d].known
    BY <1>1, <1>7, HandledTask DEF Deactivate
  <2>2. /\ pc'[d] = "drop" /\ pc[d] = "drop" /\ q \in task[d].todo /\ exists' = exists
        /\ rows' = [rows EXCEPT ![q] = SetActive(task[d].known[q], FALSE)]
    BY <1>7 DEF Deactivate, UpdateLogFile
  <2>3. \A p \in Paths \ {q} : rows'[p] = rows[p]
    BY <2>2
  <2>4. task[d].known[q] \in Rows
    BY <1>1, <1>7, WrittenTyped DEF Deactivate, Copied, Active
  <2>5. ~rows'[q].active
    BY <2>2, <2>4 DEF SetActive, Rows
  <2> QED BY <2>1, <2>2, <2>3, <2>5 DEF SyncedAs, Active, Recorded
<1>8. CASE GoneSynced(d)
  <2>1. /\ task' = task /\ pc[d] = "drop" /\ pc'[d] = "done" /\ rows' = rows /\ exists' = exists
        /\ task[d].todo = {}
    BY <1>1, <1>8 DEF GoneSynced
  <2> QED BY <1>1, <2>1 DEF SyncedAs, Active, Recorded, Tasks
<1> QED BY <1>3, <1>4, <1>5, <1>6, <1>7, <1>8 DEF Discovery
LEMMA CollectedAfter ==
  ASSUME BaseInv, Past, NEW c \in Collectors, CollectedAs(c), Collection(c)
  PROVE  CollectedAs(c)'
<1> USE DEF BaseInv, Typed, Goto, Return, Assign, stored
<1>1. c \in Operations /\ task[c] \in Tasks
  BY DEF Operations
<1>2. CASE pc'[c] # "work"
  BY <1>2 DEF CollectedAs
<1>3. CASE Start(c) \/ Skip(c) \/ TakeLock(c) \/ Unlock(c) \/ ListFilesFails(c) \/ FilesDone(c)
  <2>1. pc'[c] # "work"
    BY <1>1, <1>3 DEF Start, Skip, TakeLock, Unlock, ListFilesFails, FilesDone
  <2> QED BY <1>2, <2>1
<1>4. CASE ListFiles(c)
  <2>1. PICK files \in Chosen(c) :
          Assign(c, [task[c] EXCEPT !.todo = files, !.known = CopyOf(files)])
    BY <1>4 DEF ListFiles
  <2>2. task'[c].todo = files /\ task'[c].known = CopyOf(files) /\ task'[c].busy = {} /\ rows' = rows
    BY <1>1, <1>4, <2>1 DEF Copied, ListFiles, Tasks
  <2>3. \A p \in Recorded(rows) : rows[p].identity <= rows[p].identity
    BY DEF Recorded, Rows, Generations, NoIdentity
  <2> QED BY <2>2, <2>3 DEF CollectedAs, CopyOf, Recorded
<1>5. CASE Cancel(c)
  <2>1. /\ task'[c].todo = {} /\ task'[c].busy = task[c].busy /\ task'[c].known = task[c].known
        /\ pc' = pc /\ rows' = rows
    BY <1>1, <1>5 DEF Cancel, Tasks
  <2> QED BY <2>1 DEF CollectedAs, Recorded
<1>6. ASSUME NEW q \in Paths, StartFile(c, q) PROVE CollectedAs(c)'
  <2>1. PICK identity \in Identities(c, q) :
          Assign(c, [task[c] EXCEPT !.todo = @ \ {q}, !.busy = @ \cup {q},
                                    !.known = [@ EXCEPT ![q].identity = identity]])
    BY <1>6 DEF StartFile
  <2>2. /\ task'[c].todo \cup task'[c].busy = task[c].todo \cup task[c].busy
        /\ task'[c].known = [task[c].known EXCEPT ![q].identity = identity]
    <3>1. task'[c] = [task[c] EXCEPT !.todo = @ \ {q}, !.busy = @ \cup {q},
                                     !.known = [@ EXCEPT ![q].identity = identity]]
      BY <1>1, <2>1
    <3>2. /\ task'[c].todo = task[c].todo \ {q} /\ task'[c].busy = task[c].busy \cup {q}
          /\ task'[c].known = [task[c].known EXCEPT ![q].identity = identity]
      BY <1>1, <3>1 DEF Tasks
    <3> QED BY <1>6, <3>2 DEF StartFile
  <2>3. pc[c] = "work" /\ rows' = rows /\ q \in task[c].todo
    BY <1>6 DEF StartFile
  <2>4. q \in Recorded(task[c].known) /\ task[c].known[q] \in Rows
    BY <1>1, <2>3, WrittenTyped DEF Copied
  <2>5. task[c].known[q].identity <= identity
    <3>1. task[c].known[q].identity <= generation[q]
      BY <1>1, <2>4 DEF Past
    <3> QED BY <2>4, <3>1 DEF Identities, Rows, Generations, NoIdentity
  <2>6. task'[c].known[q] = [task[c].known[q] EXCEPT !.identity = identity]
    BY <1>1, <2>2 DEF Tasks
  <2>7. /\ task'[c].known[q].active = task[c].known[q].active
        /\ task'[c].known[q].identity = identity
    BY <2>4, <2>6 DEF Rows
  <2>8. \A p \in Paths \ {q} : task'[c].known[p] = task[c].known[p]
    BY <1>1, <2>2 DEF Tasks
  <2>9. CASE q \in Recorded(rows)
    <3>1. rows[q].identity <= task[c].known[q].identity /\ rows[q].active = task[c].known[q].active
      BY <2>3, <2>9 DEF CollectedAs
    <3>2. rows[q].identity \in Int /\ task[c].known[q].identity \in Int /\ identity \in Int
      BY <2>4, <2>9 DEF Recorded, Rows, Generations, NoIdentity, Identities
    <3>3. rows[q].identity <= identity
      BY <2>5, <3>1, <3>2
    <3> QED BY <2>2, <2>3, <2>7, <2>8, <3>1, <3>3 DEF CollectedAs, Recorded
  <2>10. CASE q \notin Recorded(rows)
    BY <2>2, <2>3, <2>8, <2>10 DEF CollectedAs, Recorded
  <2> QED BY <2>9, <2>10
<1>7. ASSUME NEW q \in Paths, Record(c, q) \/ FileFails(c, q) PROVE CollectedAs(c)'
  <2> DEFINE after == [task[c] EXCEPT !.busy = @ \ {q}, !.known = [@ EXCEPT ![q] = NoRow]]
  <2>0. task'[c] = after
    BY <1>1, <1>7 DEF Record, FileFails, FileDone
  <2>1. task'[c].busy = task[c].busy \ {q} /\ task'[c].todo = task[c].todo
    BY <1>1, <2>0 DEF Tasks
  <2>2. \A p \in Paths \ {q} : task'[c].known[p] = task[c].known[p]
    BY <1>1, <2>0 DEF Tasks
  <2>3. \A p \in Paths \ {q} : rows'[p] = rows[p]
    BY <1>7 DEF Record, UpdateLogFile, FileFails
  <2>4. pc' = pc /\ pc[c] = "work" /\ q \in task[c].busy
    BY <1>7 DEF Record, FileFails
  <2>5. q \notin task'[c].todo \cup task'[c].busy
    BY <2>1, <2>4 DEF Copied
  <2> QED BY <2>1, <2>2, <2>3, <2>4, <2>5 DEF CollectedAs, Recorded
<1> QED BY <1>3, <1>4, <1>5, <1>6, <1>7 DEF Collection

-----------------------------------------------------------------------------
(* The invariant                                                           *)

LEMMA InvInit == Init => Inv
<1> SUFFICES ASSUME Init PROVE Inv
  OBVIOUS
<1> USE DEF Init
<1>1. Typed
  BY IdleTaskTyped, BoundsAssumption DEF Typed, NoRows, Generations, Steps
<1>2. Roles
  BY DEF Roles, Operations, CollectionSteps, DiscoverySteps
<1>3. Copied
  BY DEF Copied, Operations, IdleTask
<1>4. Narrow
  BY IdleTaskNarrow DEF Narrow, Width
<1>5. DeletedForGood /\ Past
  BY DEF DeletedForGood, Past, Recorded, NoRows, IdleTask
<1>6. Alone
  BY DEF Alone, Locked, SyncedAs, CollectedAs, Holding, Operations
<1> QED BY <1>1, <1>2, <1>3, <1>4, <1>5, <1>6 DEF Inv, BaseInv

LEMMA InvHost ==
  ASSUME Inv, NEW p \in Paths, Appear(p) \/ Disappear(p) \/ Rotate(p)
  PROVE  Inv'
<1> USE DEF Inv, BaseInv, Typed
<1>1. /\ exists' = exists /\ rows' = rows /\ lock' = lock /\ pc' = pc /\ task' = task
  BY DEF Appear, Disappear, Rotate, stored
<1>2. generation' \in [Paths -> Generations] /\ \A q \in Paths : generation[q] <= generation'[q]
  BY BoundsAssumption DEF Appear, Disappear, Rotate, Generations
<1>3. Typed'
  BY <1>1, <1>2, BoundsAssumption DEF Appear, Disappear, Rotate
<1>4. Past'
  <2>1. \A q \in Recorded(rows) : rows[q].identity <= generation'[q]
    BY <1>2 DEF Past, Recorded, Rows, Generations, NoIdentity
  <2>2. ASSUME NEW o \in Operations, NEW q \in Recorded(task[o].known)
        PROVE  task[o].known[q].identity <= generation'[q]
    <3>1. q \in Paths /\ task[o].known[q] \in Rows
      BY <2>2 DEF Recorded, Tasks
    <3>2. task[o].known[q].identity <= generation[q]
      BY <2>2 DEF Past
    <3> QED BY <1>2, <3>1, <3>2 DEF Rows, Generations, NoIdentity
  <2> QED BY <1>1, <2>1, <2>2 DEF Past, Recorded
<1>5. Roles' /\ Copied' /\ Narrow' /\ DeletedForGood'
  BY <1>1 DEF Roles, Copied, Narrow, DeletedForGood, Recorded, Active, Width
<1>6. Alone'
  BY <1>1 DEF Alone, Locked, Holding, SyncedAs, CollectedAs, Recorded, Active
<1> QED BY <1>3, <1>4, <1>5, <1>6

LEMMA InvDeleteServer ==
  ASSUME Inv, DeleteServer
  PROVE  Inv'
<1> USE DEF Inv, BaseInv, DeleteServer, remote
<1>1. rows' = NoRows /\ exists' = FALSE /\ Recorded(rows') = {}
  BY DEF Recorded, NoRows
<1>2. Typed'
  BY DEF Typed, NoRows
<1>3. Roles' /\ Copied' /\ Narrow' /\ DeletedForGood'
  BY <1>1 DEF Roles, Copied, Narrow, DeletedForGood, Recorded, Active, Width
<1>4. Past'
  BY <1>1 DEF Past, Recorded
<1>5. Alone'
  BY <1>1 DEF Alone, Locked, Holding, SyncedAs, CollectedAs, Recorded
<1> QED BY <1>2, <1>3, <1>4, <1>5
LEMMA InvStepOf ==
  ASSUME Inv, NEW o \in Operations, StepOf(o)
  PROVE  Inv'
<1> USE DEF Inv, BaseInv
<1>1. Typed'
  BY DiscoveryTyped, CollectionTyped DEF StepOf
<1>2. Roles' /\ DeletedForGood'
  BY RolesKept, RowsKept DEF StepOf
<1>3. Copied' /\ Narrow'
  BY <1>1, CopiedKept, NarrowKept
<1>4. Past'
  <2>1. \A q \in Operations \ {o} : task'[q] = task[q]
    BY OthersUntouched
  <2>2. generation' = generation
    BY OthersUntouched
  <2> QED BY <2>1, <2>2, PastRowsKept, PastCopiesKept DEF Past
<1>5. Alone'
  <2> SUFFICES ASSUME Isolation PROVE Alone'
    BY DEF Alone
  <2>1. Locked'
    BY LockedKept DEF Alone
  <2>2. ASSUME NEW d \in Discoverers PROVE SyncedAs(d)'
    <3>1. CASE d = o
      BY <3>1, SyncedAfter, OperationsAssumption DEF Alone, StepOf
    <3>2. CASE d # o
      BY <3>2, SyncedByOthers DEF Alone
    <3> QED BY <3>1, <3>2
  <2>3. ASSUME NEW c \in Collectors PROVE CollectedAs(c)'
    <3>1. CASE c = o
      BY <3>1, CollectedAfter, OperationsAssumption DEF Alone, StepOf
    <3>2. CASE c # o
      BY <3>2, CollectedByOthers DEF Alone
    <3> QED BY <3>1, <3>2
  <2> QED BY <2>1, <2>2, <2>3 DEF Alone
<1> QED BY <1>1, <1>2, <1>3, <1>4, <1>5

LEMMA InvNext == Inv /\ [Next]_vars => Inv'
<1> SUFFICES ASSUME Inv, [Next]_vars PROVE Inv'
  OBVIOUS
<1>1. CASE UNCHANGED vars
  BY <1>1 DEF vars, Inv, BaseInv, Typed, Roles, Copied, Narrow, Width, DeletedForGood, Recorded, Active,
              Past, Alone, Locked, Holding, SyncedAs, CollectedAs
<1>2. CASE \E p \in Paths : Appear(p) \/ Disappear(p) \/ Rotate(p)
  BY <1>2, InvHost
<1>3. CASE DeleteServer
  BY <1>3, InvDeleteServer
<1>4. CASE \E o \in Operations : StepOf(o)
  BY <1>4, InvStepOf
<1> QED BY <1>1, <1>2, <1>3, <1>4 DEF Next, StepOf, Operations

LEMMA InvAlways == Spec => []Inv
BY InvInit, InvNext, PTL DEF Spec

-----------------------------------------------------------------------------
(* Every variable keeps its type and no operation is at more files than    *)
(* its options allow, for every number of paths, operations and workers.   *)
THEOREM TypeCorrect == Spec => []TypeOK
<1>1. Inv => TypeOK
  BY DEF Inv, BaseInv, Typed, Narrow, TypeOK
<1> QED BY <1>1, InvAlways, PTL

(* No operation that was under way when a server was deleted brings a      *)
(* record of its files back (server/service.go, Delete, takes no lock).    *)
THEOREM DeletedServersStayEmpty == Spec => []DeletedForGood
<1>1. Inv => DeletedForGood
  BY DEF Inv, BaseInv
<1> QED BY <1>1, InvAlways, PTL

(* A Sync that ends without an error has made the active records the files *)
(* it found, if the servers are isolated (discovery/service.go, Sync).     *)
THEOREM SyncIsExact == Spec => []SyncExact
<1>1. Inv => SyncExact
  BY DEF Inv, Alone, SyncedAs, SyncExact
<1> QED BY <1>1, InvAlways, PTL

-----------------------------------------------------------------------------
KeepsFields(p) ==
  rows'[p] # NoRow =>
    /\ rows'[p].identity >= rows[p].identity
    /\ rows'[p].active # rows[p].active => Discovering

LEMMA SameRow ==
  ASSUME Typed, NEW p \in Recorded(rows), rows'[p] = rows[p]
  PROVE  KeepsFields(p)
BY DEF Typed, Recorded, KeepsFields, Rows, Generations, NoIdentity

LEMMA DiscoveryKeepsFields ==
  ASSUME Inv, Isolation, NEW d \in Discoverers, Discovery(d), NEW p \in Recorded(rows)
  PROVE  KeepsFields(p)
<1> USE DEF Inv, BaseInv
<1>1. /\ exists /\ SyncedAs(d) /\ p \in Paths /\ d \in Operations
      /\ rows[p] \in Rows
  BY DEF DeletedForGood, Alone, Recorded, Operations, Typed
<1>2. ASSUME NEW flag \in BOOLEAN, p \in Recorded(task[d].known), pc[d] \in {"sync", "drop"},
             p \in task[d].todo, rows'[p] = SetActive(task[d].known[p], flag)
      PROVE  KeepsFields(p)
  <2>1. rows[p] = task[d].known[p]
    BY <1>1, <1>2 DEF SyncedAs
  <2>2. rows'[p].identity = rows[p].identity /\ rows[p].identity \in Int
    BY <1>1, <1>2, <2>1 DEF SetActive, Rows, Generations, NoIdentity
  <2> QED BY <1>2, <2>2 DEF KeepsFields, Discovering
<1>3. ASSUME NEW q \in Paths, SyncFound(d, q) PROVE KeepsFields(p)
  <2>1. CASE rows'[p] = rows[p]
    BY <2>1, SameRow
  <2>2. CASE Reactivate(d, q) /\ p = q
    <3>1. rows'[p] = SetActive(task[d].known[p], TRUE)
      BY <1>1, <2>2 DEF Reactivate, UpdateLogFile, Typed
    <3> QED BY <1>2, <1>3, <2>2, <3>1 DEF SyncFound, Reactivate
  <2>3. CASE Create(d, q) /\ p = q
    BY <2>3 DEF Create, CreateLogFile, Recorded
  <2>4. KeepFound(d, q) \/ Reactivate(d, q) \/ Create(d, q)
    BY <1>3 DEF SyncFound
  <2>5. KeepFound(d, q) => rows'[p] = rows[p]
    BY DEF KeepFound
  <2>6. Reactivate(d, q) /\ p # q => rows'[p] = rows[p]
    BY DEF Reactivate, UpdateLogFile
  <2>7. Create(d, q) /\ p # q => rows'[p] = rows[p]
    BY DEF Create, CreateLogFile
  <2> QED BY <2>1, <2>2, <2>3, <2>4, <2>5, <2>6, <2>7
<1>4. ASSUME NEW q \in Paths, Deactivate(d, q) PROVE KeepsFields(p)
  <2>1. CASE p # q
    <3>1. rows'[p] = rows[p]
      BY <1>4, <2>1 DEF Deactivate, UpdateLogFile, Typed
    <3> QED BY <3>1, SameRow
  <2>2. CASE p = q
    <3>1. rows'[p] = SetActive(task[d].known[p], FALSE) /\ p \in Recorded(task[d].known)
      BY <1>1, <1>4, <2>2 DEF Deactivate, UpdateLogFile, Typed, Copied, Active
    <3> QED BY <1>2, <1>4, <2>2, <3>1 DEF Deactivate
  <2> QED BY <2>1, <2>2
<1>5. CASE rows' = rows
  BY <1>5, SameRow
<1> QED BY <1>3, <1>4, <1>5
    DEF Discovery, Start, Skip, TakeLock, Unlock, Find, ListExisting, FoundSynced, GoneSynced,
        SyncConflicts, DiscoveryFails, stored

LEMMA CollectionKeepsFields ==
  ASSUME Inv, Isolation, NEW c \in Collectors, Collection(c), NEW p \in Recorded(rows)
  PROVE  KeepsFields(p)
<1> USE DEF Inv, BaseInv
<1>1. ASSUME NEW q \in Paths, Record(c, q) PROVE KeepsFields(p)
  <2>1. CASE p # q
    <3>1. rows'[p] = rows[p]
      BY <1>1, <2>1 DEF Record, UpdateLogFile
    <3> QED BY <3>1, SameRow
  <2>2. CASE p = q
    <3>1. rows'[p] = task[c].known[p] /\ CollectedAs(c) /\ pc[c] = "work" /\ p \in task[c].busy
      BY <1>1, <2>2 DEF Record, UpdateLogFile, Alone, Typed
    <3>2. rows[p].active = task[c].known[p].active /\ rows[p].identity <= task[c].known[p].identity
      BY <3>1 DEF CollectedAs
    <3>3. rows[p] \in Rows /\ task[c].known[p] \in Rows
      BY <3>1, WrittenTyped DEF Typed, Recorded, Copied, Operations
    <3> QED BY <3>1, <3>2, <3>3 DEF KeepsFields, Rows, Generations, NoIdentity
  <2> QED BY <2>1, <2>2
<1>2. CASE rows' = rows
  BY <1>2, SameRow
<1> QED BY <1>1, <1>2
    DEF Collection, Start, Skip, TakeLock, Unlock, ListFiles, ListFilesFails, Cancel, FilesDone,
        StartFile, FileFails, stored

(* Neither discovery nor collection undoes what the other has written to a *)
(* record, although both write whole rows from old copies (runner.go and   *)
(* discovery/service.go write through UpdateLogFile), if the servers are   *)
(* isolated.                                                               *)
THEOREM NothingIsUndone == Spec => NothingUndone
<1>1. Inv /\ [Next]_vars =>
        [Isolation => \A p \in Recorded(rows) : KeepsFields(p)]_vars
  <2> SUFFICES ASSUME Inv, Next, Isolation, NEW p \in Recorded(rows)
               PROVE  KeepsFields(p)
    OBVIOUS
  <2>1. CASE (\E q \in Paths : Appear(q) \/ Disappear(q) \/ Rotate(q))
    <3>1. rows' = rows
      BY <2>1 DEF Appear, Disappear, Rotate, stored
    <3> QED BY <3>1, SameRow DEF Inv, BaseInv
  <2>2. CASE DeleteServer
    BY <2>2 DEF DeleteServer, NoRows, Recorded, KeepsFields
  <2> QED BY <2>1, <2>2, DiscoveryKeepsFields, CollectionKeepsFields DEF Next
<1>2. NothingUndone <=> [][Isolation => \A p \in Recorded(rows) : KeepsFields(p)]_vars
  BY PTL DEF NothingUndone, KeepsFields
<1> QED BY <1>1, <1>2, InvAlways, PTL DEF Spec
=================================================================================
