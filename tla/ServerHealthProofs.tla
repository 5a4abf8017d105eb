--------------------------- MODULE ServerHealthProofs ---------------------------
(***************************************************************************)
(* Theorems about ServerHealth, for every value of its constants.          *)
(***************************************************************************)
EXTENDS ServerHealth, WellFoundedInduction, TLAPS

-----------------------------------------------------------------------------
(* The loop of nextBackoffUntil                                            *)

LEMMA LeastElement ==
  ASSUME NEW S, S \subseteq Nat, S # {}
  PROVE  \E m \in S : \A k \in S : m <= k
<1> DEFINE R == OpToRel(<, Nat)
<1>1. IsWellFoundedOn(R, Nat)
  BY NatLessThanWellFounded
<1>2. \E x \in S : \A y \in S : ~ (<<y, x>> \in R)
  <2> HIDE DEF R
  <2> QED BY <1>1, WFMin
<1>3. \A x, y \in Nat : x < y => <<x, y>> \in R
  BY DEF OpToRel
<1> HIDE DEF R
<1>4. PICK m \in S : \A y \in S : ~ (<<y, m>> \in R)
  BY <1>2
<1>5. \A y \in S : ~ (y < m)
  BY <1>3, <1>4
<1> QED BY <1>5

NextDuration(duration) ==
  IF duration >= BackoffMax \div 2 THEN BackoffMax ELSE duration * 2

IsLoop(after, times) ==
  after = [n \in 0 .. times |-> IF n = 0 THEN BackoffBase ELSE NextDuration(after[n - 1])]

LEMMA LoopExists == \A times \in Nat : \E after : IsLoop(after, times)
<1> DEFINE Bad == {k \in Nat : ~ \E after : IsLoop(after, k)}
<1> SUFFICES ASSUME Bad # {} PROVE FALSE
  OBVIOUS
<1>1. PICK m \in Bad : \A k \in Bad : m <= k
  BY LeastElement
<1>2. CASE m = 0
  <2> DEFINE g == [n \in 0 .. 0 |-> BackoffBase]
  <2>1. IsLoop(g, 0)
    BY DEF IsLoop
  <2> QED BY <2>1, <1>2
<1>3. CASE m # 0
  <2>1. m - 1 \in Nat /\ m - 1 \notin Bad
    BY <1>1, <1>3
  <2>2. PICK f : IsLoop(f, m - 1)
    BY <2>1
  <2> DEFINE g == [n \in 0 .. m |-> IF n = m THEN NextDuration(f[m - 1]) ELSE f[n]]
  <2>3. IsLoop(g, m)
    BY <2>1, <2>2, <1>3 DEF IsLoop
  <2> QED BY <2>3
<1> QED BY <1>2, <1>3

LEMMA LoopType ==
  ASSUME NEW times \in Nat, NEW after, IsLoop(after, times)
  PROVE  after[times] \in Nat
<1> DEFINE Bad == {n \in 0 .. times : after[n] \notin Nat}
<1> SUFFICES ASSUME Bad # {} PROVE FALSE
  OBVIOUS
<1>0. Bad \subseteq Nat
  OBVIOUS
<1>1. PICK m \in Bad : \A k \in Bad : m <= k
  <2> HIDE DEF Bad
  <2> QED BY <1>0, LeastElement
<1>2. CASE m = 0
  BY <1>2, <1>1, BackoffAssumption DEF IsLoop
<1>3. CASE m # 0
  <2>1. m - 1 \in 0 .. times /\ after[m - 1] \in Nat
    BY <1>1, <1>3
  <2>2. after[m] = NextDuration(after[m - 1])
    BY <1>1, <1>3 DEF IsLoop
  <2>3. after[m] \in Nat
    BY <2>1, <2>2, BackoffAssumption DEF NextDuration
  <2> QED BY <2>3, <1>1
<1> QED BY <1>2, <1>3

(* The delay of nextBackoffUntil is a natural number and never exceeds the *)
(* maximum, whatever the number of failures (health/service.go:98-120).    *)
THEOREM BackoffWithinMax ==
  ASSUME NEW failures \in Nat
  PROVE  NextBackoff(failures) \in 0 .. BackoffMax
<1>1. CASE failures < FailureThreshold
  BY <1>1, BackoffAssumption DEF NextBackoff
<1>2. CASE ~ (failures < FailureThreshold)
  <2> DEFINE times == failures - FailureThreshold
             after == CHOOSE f : IsLoop(f, times)
  <2>1. times \in Nat
    BY <1>2, BackoffAssumption
  <2>2. IsLoop(after, times)
    <3> HIDE DEF times
    <3> QED BY <2>1, LoopExists
  <2>3. after[times] \in Nat
    <3> HIDE DEF times, after
    <3> QED BY <2>1, <2>2, LoopType
  <2>4. Duration(failures) = after[times]
    BY DEF Duration, IsLoop, NextDuration
  <2> HIDE DEF times, after
  <2>5. Duration(failures) \in Nat
    BY <2>3, <2>4
  <2> QED BY <2>5, BackoffAssumption DEF NextBackoff
<1> QED BY <1>1, <1>2

-----------------------------------------------------------------------------
(* The inductive invariant                                                 *)

(* A copy that is going to be judged or written is a whole record. *)
WholeCopies ==
  \A a \in Actors :
    pc[a] \in {"listed", "connecting", "persisting", "writing", "updating", "clearing"}
      => snap[a] \in Records

OnePieceEach == OfOnePiece(record) /\ \A a \in Actors : OfOnePiece(snap[a])

(* From the lock to its release an operation holds it. *)
HoldsLock(p) ==
  \/ pc[p] \in {"connecting", "persisting", "working", "unlocking"}
  \/ pc[p] \in {"recording", "writing"} /\ ~RecordsLate(p)
Locked == Isolation => \A p \in Operations : HoldsLock(p) => lock = p

IInv == TypeOK /\ WholeCopies /\ OnePieceEach /\ Locked

-----------------------------------------------------------------------------
(* What the calls make of a record                                         *)

LEMMA CallsOnRecords ==
  ASSUME NEW r \in Records, NEW n \in Nat
  PROVE  /\ Success(r) \in Records /\ OfOnePiece(Success(r))
         /\ Failure(r, n) \in Records /\ OfOnePiece(Failure(r, n))
         /\ Degraded(r) \in Records /\ OfOnePiece(Degraded(r))
         /\ Cleared(r) \in Records
<1>1. NextBackoff(n) \in 0 .. BackoffMax
  BY BackoffWithinMax
<1> HIDE DEF NextBackoff
<1>2. /\ Success(r) \in Records /\ OfOnePiece(Success(r))
      /\ Degraded(r) \in Records /\ OfOnePiece(Degraded(r))
      /\ Cleared(r) \in Records
  BY BackoffAssumption DEF Success, Degraded, Cleared, Records, Statuses, OfOnePiece
<1>3. Saturated(r.failures + 1) \in 1 .. MaxFailures
  BY BackoffAssumption DEF Saturated, Records
<1>4. Failure(r, n) \in Records /\ OfOnePiece(Failure(r, n))
  BY <1>1, <1>3, BackoffAssumption DEF Failure, Records, Statuses, OfOnePiece
<1> QED BY <1>2, <1>4

LEMMA ChangesOfCopies ==
  ASSUME NEW r \in Copies, OfOnePiece(r)
  PROVE  /\ FailuresOf(r) \in Copies /\ OfOnePiece(FailuresOf(r))
         /\ Later(r) \in Copies /\ OfOnePiece(Later(r))
         /\ r \in Records => Later(r) \in Records /\ OfOnePiece(Cleared(r))
         /\ \A status \in {"", "active", "inactive"}, osKnown \in BOOLEAN :
              r \in Records => Updated(r, status, osKnown) \in Records
                              /\ OfOnePiece(Updated(r, status, osKnown))
         /\ r \in Records => [r EXCEPT !.osKnown = TRUE] \in Records
                             /\ OfOnePiece([r EXCEPT !.osKnown = TRUE])
<1>1. FailuresOf(r) \in Copies /\ OfOnePiece(FailuresOf(r))
  BY BackoffAssumption DEF FailuresOf, Copies, OfOnePiece
<1>2. Later(r) \in Copies /\ OfOnePiece(Later(r))
  BY BackoffAssumption DEF Later, Copies, Statuses, OfOnePiece
<1>3. r \in Records => Later(r) \in Records /\ OfOnePiece(Cleared(r))
  BY BackoffAssumption DEF Later, Cleared, Records, Statuses, OfOnePiece
<1>4. ASSUME NEW status \in {"", "active", "inactive"}, NEW osKnown \in BOOLEAN, r \in Records
      PROVE  Updated(r, status, osKnown) \in Records /\ OfOnePiece(Updated(r, status, osKnown))
  BY <1>4, BackoffAssumption DEF Updated, Records, Statuses, OfOnePiece
<1>5. r \in Records => [r EXCEPT !.osKnown = TRUE] \in Records
                      /\ OfOnePiece([r EXCEPT !.osKnown = TRUE])
  BY DEF Records, Copies, OfOnePiece
<1> QED BY <1>1, <1>2, <1>3, <1>4, <1>5

LEMMA DeletedIsCopy ==
  /\ Deleted \in Copies /\ OfOnePiece(Deleted) /\ Later(Deleted) = Deleted
  /\ Records \subseteq Copies /\ Deleted \notin Records
  BY BackoffAssumption DEF Deleted, Copies, Records, Statuses, OfOnePiece, Later

-----------------------------------------------------------------------------
(* The invariant holds initially and is preserved                          *)

LEMMA InitEstablishes == Init => IInv
<1> SUFFICES ASSUME Init PROVE IInv
  OBVIOUS
<1>1. TypeOK
  BY DeletedIsCopy, ActorsAssumption
  DEF Init, TypeOK, OperationSteps, OperatorSteps, Outcomes
<1>2. WholeCopies
  BY DEF Init, WholeCopies
<1>3. OnePieceEach
  BY DeletedIsCopy DEF Init, OnePieceEach, OfOnePiece
<1>4. Locked
  BY DEF Init, Locked, HoldsLock, Actors
<1> QED BY <1>1, <1>2, <1>3, <1>4 DEF IInv

LEMMA PersistOSPreserves ==
  ASSUME IInv, NEW p \in Operations, PersistOS(p)
  PROVE  IInv'
<1> USE DEF IInv
<1>1. snap[p] \in Records /\ snap[p] \in Copies /\ OfOnePiece(snap[p]) /\ p \in Actors
  BY DeletedIsCopy DEF PersistOS, WholeCopies, OnePieceEach, TypeOK, Actors
<1>2. FailuresOf(snap[p]) \in Copies /\ OfOnePiece(FailuresOf(snap[p]))
  BY <1>1, ChangesOfCopies
<1>3. TypeOK'
  BY <1>1, <1>2 DEF PersistOS, TypeOK, Goto, OperationSteps, OperatorSteps
<1>4. WholeCopies'
  BY <1>1 DEF PersistOS, TypeOK, Goto, WholeCopies
<1>5. OnePieceEach'
  BY <1>1, <1>2 DEF PersistOS, TypeOK, OnePieceEach
<1>6. Locked'
  BY <1>1 DEF PersistOS, TypeOK, Goto, Locked, HoldsLock, RecordsLate
<1> QED BY <1>3, <1>4, <1>5, <1>6

LEMMA StartPreserves ==
  ASSUME IInv, NEW p \in Operations, Start(p)
  PROVE  IInv'
<1> USE DEF IInv
<1>1. record \in Records /\ record \in Copies /\ OfOnePiece(record) /\ p \in Actors
  BY DeletedIsCopy DEF Start, Exists, OnePieceEach, TypeOK, Actors
<1>3. TypeOK'
  BY <1>1 DEF Start, TypeOK, Goto, OperationSteps, OperatorSteps
<1>4. WholeCopies'
  BY <1>1 DEF Start, TypeOK, Goto, WholeCopies
<1>5. OnePieceEach'
  BY <1>1 DEF Start, TypeOK, OnePieceEach
<1>6. Locked'
  BY <1>1 DEF Start, TypeOK, Goto, Locked, HoldsLock, RecordsLate
<1> QED BY <1>3, <1>4, <1>5, <1>6

(* A call that changes the record, made by p on its way. *)
LEMMA RecordedPreserves ==
  ASSUME IInv, NEW p \in Operations, Recorded(p), UNCHANGED lock,
         pc[p] \in {"recording", "writing"},
         record' \in Records \cup {Deleted}, OfOnePiece(record')
  PROVE  IInv'
<1> USE DEF IInv
<1>1. p \in Actors /\ Deleted \in Copies /\ OfOnePiece(Deleted)
  BY DeletedIsCopy DEF Actors
<1>2. AfterRecord(p) \in {"idle", "unlocking"} /\ (AfterRecord(p) = "unlocking" => ~RecordsLate(p))
  BY DEF AfterRecord
<1>3. TypeOK'
  BY <1>1, <1>2 DEF Recorded, TypeOK, OperationSteps, OperatorSteps, Outcomes
<1>4. WholeCopies'
  BY <1>1, <1>2 DEF Recorded, TypeOK, WholeCopies
<1>5. OnePieceEach'
  BY <1>1 DEF Recorded, TypeOK, OnePieceEach
<1>6. Locked'
  BY <1>1, <1>2 DEF Recorded, TypeOK, Locked, HoldsLock, RecordsLate
<1> QED BY <1>3, <1>4, <1>5, <1>6

LEMMA RecordCallsPreserve ==
  ASSUME IInv, NEW p \in Operations,
         RecordSuccess(p) \/ RecordFailure(p) \/ WriteDegraded(p) \/ RecordFails(p)
  PROVE  IInv'
<1>1. /\ record \in Records \cup {Deleted} /\ OfOnePiece(record)
      /\ snap[p] \in Copies /\ OfOnePiece(snap[p]) /\ p \in Actors
      /\ pc[p] = "writing" => snap[p] \in Records
  BY DEF IInv, TypeOK, OnePieceEach, WholeCopies, Actors
<1>2. snap[p].failures + 1 \in Nat
  BY <1>1, BackoffAssumption DEF Copies
<1>3. /\ record' \in Records \cup {Deleted} /\ OfOnePiece(record')
      /\ Recorded(p) /\ UNCHANGED lock /\ pc[p] \in {"recording", "writing"}
  <2>1. CASE RecordSuccess(p)
    BY <2>1, <1>1, CallsOnRecords, DeletedIsCopy DEF RecordSuccess, Stored, Exists
  <2>2. CASE RecordFailure(p)
    BY <2>2, <1>1, <1>2, CallsOnRecords, DeletedIsCopy DEF RecordFailure, Stored, Exists
  <2>3. CASE WriteDegraded(p)
    BY <2>3, <1>1, DeletedIsCopy DEF WriteDegraded, Stored, Exists
  <2>4. CASE RecordFails(p)
    BY <2>4, <1>1 DEF RecordFails
  <2> QED BY <2>1, <2>2, <2>3, <2>4
<1> QED BY <1>3, RecordedPreserves

(* A step that leaves the record alone: the actor goes on with a new copy. *)
LEMMA MovePreserves ==
  ASSUME IInv, UNCHANGED record, Locked',
         NEW a \in Actors, NEW step \in OperationSteps \cup OperatorSteps, NEW copy \in Copies,
         pc' = [pc EXCEPT ![a] = step], snap' = [snap EXCEPT ![a] = copy], OfOnePiece(copy),
         step \in {"idle", "working", "recording", "unlocking"} \/ copy \in Records,
         lock' \in Operations \cup {NoActor}, outcome' \in [Operations -> Outcomes]
  PROVE  IInv'
<1> USE DEF IInv
<1>1. TypeOK'
  BY DEF TypeOK
<1>2. WholeCopies'
  BY DEF TypeOK, WholeCopies
<1>3. OnePieceEach'
  BY DEF TypeOK, OnePieceEach
<1> QED BY <1>1, <1>2, <1>3

LEMMA OthersHold ==
  ASSUME TypeOK, NEW p \in Operations, NEW step, pc' = [pc EXCEPT ![p] = step]
  PROVE  \A q \in Operations : q # p => (HoldsLock(q)' <=> HoldsLock(q))
<1> SUFFICES ASSUME NEW q \in Operations, q # p
             PROVE  HoldsLock(q)' <=> HoldsLock(q)
  OBVIOUS
<1>1. pc'[q] = pc[q]
  BY DEF TypeOK, Actors
<1> QED BY <1>1 DEF HoldsLock, RecordsLate

LEMMA MovesPreserve ==
  ASSUME IInv, NEW p \in Operations,
         \/ Skip(p) \/ TakeLock(p) \/ NoFiles(p) \/ ListFilesFails(p)
         \/ Connect(p) \/ ConnectFails(p) \/ PersistOSFails(p) \/ Work(p)
         \/ RecordDegraded(p) \/ Unlock(p)
  PROVE  IInv'
<1>1. /\ TypeOK /\ Locked /\ p \in Actors
      /\ snap[p] \in Copies /\ OfOnePiece(snap[p])
      /\ pc[p] \in {"listed", "connecting", "persisting"} => snap[p] \in Records
      /\ snap = [snap EXCEPT ![p] = snap[p]]
      /\ Deleted \in Copies /\ OfOnePiece(Deleted)
      /\ FailuresOf(snap[p]) \in Copies /\ OfOnePiece(FailuresOf(snap[p]))
  <2>1. TypeOK /\ Locked /\ p \in Actors /\ snap[p] \in Copies /\ OfOnePiece(snap[p])
    BY DEF IInv, TypeOK, OnePieceEach, Actors
  <2>2. pc[p] \in {"listed", "connecting", "persisting"} => snap[p] \in Records
    BY <2>1 DEF IInv, WholeCopies
  <2>3. snap = [snap EXCEPT ![p] = snap[p]]
    BY <2>1 DEF TypeOK
  <2> QED BY <2>1, <2>2, <2>3, DeletedIsCopy, ChangesOfCopies
<1>2. CASE Skip(p)
  <2>1. Locked'
    BY <1>1, <1>2 DEF Skip, Done, Goto, Locked, HoldsLock, RecordsLate, TypeOK
  <2>2. UNCHANGED <<record, lock>> /\ pc' = [pc EXCEPT ![p] = "idle"]
        /\ snap' = [snap EXCEPT ![p] = Deleted] /\ outcome' = [outcome EXCEPT ![p] = "none"]
    BY <1>2 DEF Skip, Done, Goto
  <2> QED BY <1>1, <2>1, <2>2, MovePreserves DEF TypeOK, OperationSteps, Outcomes
<1>3. CASE TakeLock(p)
  <2>1. Locked'
    <3>1. ASSUME Isolation, NEW q \in Operations, q # p PROVE ~ HoldsLock(q)
      BY <1>1, <1>3, <3>1, ActorsAssumption DEF TakeLock, LockFree, Locked, Actors
    <3>2. PICK step : pc' = [pc EXCEPT ![p] = step]
      BY <1>3 DEF TakeLock, Goto
    <3>3. Isolation => lock' = p
      BY <1>3 DEF TakeLock
    <3> QED BY <1>1, <3>1, <3>2, <3>3, OthersHold DEF Locked
  <2>2. UNCHANGED <<record, outcome>> /\ lock' \in Operations \cup {NoActor}
        /\ snap[p] \in Records
    BY <1>1, <1>3 DEF TakeLock, TypeOK
  <2>3. CASE Kind[p] = "discovery"
    BY <1>1, <1>3, <2>1, <2>2, <2>3, MovePreserves DEF TakeLock, Goto, TypeOK, OperationSteps
  <2>4. CASE Kind[p] # "discovery"
    BY <1>1, <1>3, <2>1, <2>2, <2>4, MovePreserves DEF TakeLock, Goto, TypeOK, OperationSteps
  <2> QED BY <2>3, <2>4
<1>4. CASE NoFiles(p)
  <2>1. Locked'
    BY <1>1, <1>4 DEF NoFiles, Goto, Locked, HoldsLock, RecordsLate, TypeOK
  <2> QED BY <1>1, <1>4, <2>1, MovePreserves DEF NoFiles, Goto, TypeOK, OperationSteps
<1>5. CASE ListFilesFails(p) \/ ConnectFails(p) \/ PersistOSFails(p)
  <2>1. /\ UNCHANGED <<record, lock>> /\ pc' = [pc EXCEPT ![p] = AfterWork(p)]
        /\ pc[p] \in {"working", "connecting", "persisting"}
        /\ snap' = [snap EXCEPT ![p] = FailuresOf(snap[p])]
        /\ outcome' = [outcome EXCEPT ![p] = "failure"]
    BY <1>5, <1>1 DEF ListFilesFails, ConnectFails, PersistOSFails, Fail, Goto, TypeOK
  <2>2. AfterWork(p) \in {"recording", "unlocking"}
    BY DEF AfterWork
  <2>3. Locked'
    <3>1. HoldsLock(p)
      BY <2>1 DEF HoldsLock
    <3> QED BY <1>1, <2>1, <3>1, OthersHold DEF Locked
  <2> QED BY <1>1, <2>1, <2>2, <2>3, MovePreserves DEF TypeOK, OperationSteps, Outcomes
<1>6. CASE Connect(p)
  <2>1. Locked'
    <3>1. HoldsLock(p) /\ UNCHANGED lock
      BY <1>6 DEF Connect, HoldsLock
    <3>2. PICK step : pc' = [pc EXCEPT ![p] = step]
      BY <1>6 DEF Connect, Goto
    <3> QED BY <1>1, <3>1, <3>2, OthersHold DEF Locked
  <2>2. CASE snap[p].osKnown
    <3>1. snap' = [snap EXCEPT ![p] = FailuresOf(snap[p])]
      BY <1>1, <1>6, <2>2 DEF Connect, TypeOK
    <3> QED BY <1>1, <1>6, <2>1, <2>2, <3>1, MovePreserves
            DEF Connect, Goto, TypeOK, OperationSteps
  <2>3. CASE ~ snap[p].osKnown
    <3> DEFINE copy == [snap[p] EXCEPT !.osKnown = TRUE]
    <3>1. copy \in Records /\ copy \in Copies /\ OfOnePiece(copy)
      BY <1>1, <1>6, ChangesOfCopies, DeletedIsCopy DEF Connect
    <3>2. snap' = [snap EXCEPT ![p] = copy]
      BY <1>1, <1>6, <2>3 DEF Connect, TypeOK
    <3> HIDE DEF copy
    <3> QED BY <1>1, <1>6, <2>1, <2>3, <3>1, <3>2, MovePreserves
            DEF Connect, Goto, TypeOK, OperationSteps
  <2> QED BY <2>2, <2>3
<1>7. CASE Work(p)
  <2>1. AfterWork(p) \in {"recording", "unlocking"}
    BY DEF AfterWork
  <2>2. Locked'
    BY <1>1, <1>7, <2>1 DEF Work, Goto, Locked, HoldsLock, RecordsLate, TypeOK
  <2>3. outcome' \in [Operations -> Outcomes]
    BY <1>1, <1>7 DEF Work, TypeOK, Outcomes
  <2> QED BY <1>1, <1>7, <2>1, <2>2, <2>3, MovePreserves DEF Work, Goto, TypeOK, OperationSteps
<1>8. CASE RecordDegraded(p)
  <2>1. Locked'
    BY <1>1, <1>8 DEF RecordDegraded, Goto, Locked, HoldsLock, RecordsLate, TypeOK
  <2>2. Degraded(record) \in Records /\ OfOnePiece(Degraded(record))
    BY <1>1, <1>8, CallsOnRecords DEF RecordDegraded, Exists, TypeOK
  <2> QED BY <1>1, <1>8, <2>1, <2>2, MovePreserves, DeletedIsCopy
          DEF RecordDegraded, Goto, TypeOK, OperationSteps
<1>9. CASE Unlock(p)
  <2>1. AfterUnlock(p) \in {"recording", "idle"} /\ (AfterUnlock(p) = "recording" => RecordsLate(p))
    BY DEF AfterUnlock
  <2>2. /\ UNCHANGED record /\ pc' = [pc EXCEPT ![p] = AfterUnlock(p)]
        /\ pc[p] = "unlocking" /\ lock' \in Operations \cup {NoActor}
    BY <1>1, <1>9 DEF Unlock, Done, Goto, TypeOK
  <2>3. Locked'
    BY <1>1, <1>9, <2>1, <2>2 DEF Unlock, Locked, HoldsLock, RecordsLate, TypeOK
  <2>4. /\ outcome' \in [Operations -> Outcomes]
        /\ \/ snap' = [snap EXCEPT ![p] = Deleted]
           \/ snap' = [snap EXCEPT ![p] = snap[p]]
    BY <1>1, <1>9 DEF Unlock, Done, Outcomes, TypeOK
  <2> QED BY <1>1, <2>1, <2>2, <2>3, <2>4, MovePreserves DEF OperationSteps
<1> QED BY <1>2, <1>3, <1>4, <1>5, <1>6, <1>7, <1>8, <1>9

(* The operator holds no lock and has no outcome. *)
LEMMA OperatorPreserves ==
  ASSUME IInv, NEW o \in Operators, OperatorStep(o)
  PROVE  IInv'
<1>1. /\ TypeOK /\ Locked /\ o \in Actors /\ o \notin Operations
      /\ record \in Records \cup {Deleted} /\ record \in Copies /\ OfOnePiece(record)
      /\ snap[o] \in Copies /\ OfOnePiece(snap[o])
      /\ Deleted \in Copies /\ OfOnePiece(Deleted)
  BY DeletedIsCopy, ActorsAssumption DEF IInv, TypeOK, OnePieceEach, Actors
<1>2. ASSUME NEW step, pc' = [pc EXCEPT ![o] = step], UNCHANGED lock
      PROVE  Locked'
  <2>1. \A q \in Operations : pc'[q] = pc[q]
    BY <1>1, <1>2 DEF TypeOK, Actors
  <2> QED BY <1>1, <1>2, <2>1 DEF Locked, HoldsLock, RecordsLate
<1>3. ASSUME NEW status \in {"", "active", "inactive"}, NEW osKnown \in BOOLEAN,
             Update(o, status, osKnown)
      PROVE  IInv'
  <2>1. Updated(record, status, osKnown) \in Records /\ OfOnePiece(Updated(record, status, osKnown))
    BY <1>1, <1>3, ChangesOfCopies DEF Update, Exists
  <2>2. UNCHANGED <<record, lock, outcome>> /\ pc' = [pc EXCEPT ![o] = "updating"]
        /\ snap' = [snap EXCEPT ![o] = Updated(record, status, osKnown)]
    BY <1>3 DEF Update, Goto
  <2>3. Locked'
    BY <1>2, <2>2
  <2> QED BY <1>1, <2>1, <2>2, <2>3, MovePreserves, DeletedIsCopy DEF TypeOK, OperatorSteps
<1>4. CASE Retry(o)
  <2>1. Cleared(record) \in Records /\ OfOnePiece(Cleared(record))
    BY <1>1, <1>4, ChangesOfCopies, CallsOnRecords DEF Retry, Exists
  <2>2. UNCHANGED <<record, lock, outcome>> /\ pc' = [pc EXCEPT ![o] = "clearing"]
        /\ snap' = [snap EXCEPT ![o] = Cleared(record)]
    BY <1>4 DEF Retry, Goto
  <2>3. Locked'
    BY <1>2, <2>2
  <2> QED BY <1>1, <2>1, <2>2, <2>3, MovePreserves, DeletedIsCopy DEF TypeOK, OperatorSteps
<1>5. CASE Write(o)
  <2>1. snap[o] \in Records
    BY <1>1, <1>5 DEF IInv, WholeCopies, Write
  <2>2. /\ record' \in Records \cup {Deleted} /\ OfOnePiece(record')
        /\ pc' = [pc EXCEPT ![o] = "idle"] /\ snap' = [snap EXCEPT ![o] = Deleted]
        /\ UNCHANGED <<lock, outcome>>
    BY <1>1, <1>5, <2>1 DEF Write, Stored, Goto, Exists
  <2>3. Locked'
    BY <1>2, <2>2
  <2>4. TypeOK'
    BY <1>1, <2>2 DEF TypeOK, OperatorSteps
  <2>5. WholeCopies'
    BY <1>1, <2>2 DEF IInv, WholeCopies, TypeOK
  <2>6. OnePieceEach'
    BY <1>1, <2>2 DEF IInv, OnePieceEach, TypeOK
  <2> QED BY <2>3, <2>4, <2>5, <2>6 DEF IInv
<1>6. CASE Delete(o)
  BY <1>1, <1>6 DEF Delete, IInv, TypeOK, WholeCopies, OnePieceEach, Locked, HoldsLock, RecordsLate
<1> QED BY <1>3, <1>4, <1>5, <1>6 DEF OperatorStep

LEMMA TickPreserves == IInv /\ Tick => IInv'
<1> SUFFICES ASSUME IInv, Tick PROVE IInv'
  OBVIOUS
<1>1. /\ TypeOK /\ WholeCopies /\ Locked
      /\ record \in Records \cup {Deleted} /\ record \in Copies /\ OfOnePiece(record)
      /\ \A a \in Actors : snap[a] \in Copies /\ OfOnePiece(snap[a])
  BY DeletedIsCopy DEF IInv, TypeOK, OnePieceEach
<1>2. /\ record' \in Records \cup {Deleted} /\ OfOnePiece(record')
  BY <1>1, ChangesOfCopies, DeletedIsCopy DEF Tick
<1>3. \A a \in Actors : /\ snap'[a] = Later(snap[a])
                        /\ Later(snap[a]) \in Copies /\ OfOnePiece(Later(snap[a]))
                        /\ snap[a] \in Records => Later(snap[a]) \in Records
  BY <1>1, ChangesOfCopies DEF Tick
<1>4. UNCHANGED <<lock, pc, outcome>> /\ snap' = [a \in Actors |-> Later(snap[a])]
  BY DEF Tick
<1>5. TypeOK'
  BY <1>1, <1>2, <1>3, <1>4 DEF TypeOK
<1>6. WholeCopies'
  BY <1>1, <1>3, <1>4 DEF WholeCopies
<1>7. OnePieceEach'
  BY <1>2, <1>3 DEF OnePieceEach
<1>8. Locked'
  BY <1>1, <1>4 DEF Locked, HoldsLock, RecordsLate
<1> QED BY <1>5, <1>6, <1>7, <1>8 DEF IInv

LEMMA StepPreserves == IInv /\ [Next]_vars => IInv'
<1> SUFFICES ASSUME IInv, [Next]_vars PROVE IInv'
  OBVIOUS
<1>1. ASSUME NEW p \in Operations, Start(p) \/ Continue(p) PROVE IInv'
  BY <1>1, StartPreserves, PersistOSPreserves, RecordCallsPreserve, MovesPreserve DEF Continue
<1>2. ASSUME NEW o \in Operators, OperatorStep(o) PROVE IInv'
  BY <1>2, OperatorPreserves
<1>3. CASE Tick
  BY <1>3, TickPreserves
<1>4. CASE UNCHANGED vars
  BY <1>4 DEF vars, IInv, TypeOK, WholeCopies, OnePieceEach, Locked, HoldsLock, RecordsLate
<1> QED BY <1>1, <1>2, <1>3, <1>4 DEF Next

(* The inductive invariant: types, records and copies of one piece, and the *)
(* lock held by whoever works (the operations of crons/ and the services). *)
THEOREM Invariance == Spec => []IInv
  BY InitEstablishes, StepPreserves, PTL DEF Spec

-----------------------------------------------------------------------------
(* The theorems                                                            *)

(* Every variable keeps its type; in particular no stored backoff exceeds  *)
(* the maximum.                                                            *)
THEOREM TypeCorrect == Spec => []TypeOK
<1>1. IInv => TypeOK
  BY DEF IInv
<1> QED BY <1>1, Invariance, PTL

(* The stored record is of one piece, with and without isolation, for any  *)
(* number of sweeps, manual operations and operators with copies that are  *)
(* out of date.                                                            *)
THEOREM OnePieceAlways == Spec => []RecordOfOnePiece
<1>1. IInv => RecordOfOnePiece
  BY DEF IInv, OnePieceEach, RecordOfOnePiece
<1> QED BY <1>1, Invariance, PTL

(* With isolation one operation at a time works on the server. *)
THEOREM MutualExclusion == Spec => []OneOperationAtATime
<1>1. IInv => OneOperationAtATime
  BY DEF IInv, Locked, HoldsLock, OneOperationAtATime, AtWork
<1> QED BY <1>1, Invariance, PTL

(* A deleted server does not come back. *)
THEOREM NoResurrection == Spec => DeletedStaysDeleted
<1>1. IInv /\ [Next]_vars => [record = Deleted => record' = Deleted]_vars
  <2> SUFFICES ASSUME IInv, Next, record = Deleted PROVE record' = Deleted
    BY DEF vars
  <2>1. ASSUME NEW p \in Operations, Start(p) \/ Continue(p) PROVE record' = Deleted
    BY <2>1 DEF Continue, Start, Skip, TakeLock, NoFiles, ListFilesFails, Connect, ConnectFails,
                PersistOS, PersistOSFails, Work, RecordSuccess, RecordFailure, RecordDegraded,
                WriteDegraded, RecordFails, Unlock, Stored, Exists
  <2>2. ASSUME NEW o \in Operators, OperatorStep(o) PROVE record' = Deleted
    BY <2>2 DEF OperatorStep, Update, Retry, Write, Delete, Stored, Exists
  <2>3. CASE Tick
    BY <2>3, DeletedIsCopy DEF Tick
  <2> QED BY <2>1, <2>2, <2>3 DEF Next
<1> QED BY <1>1, Invariance, PTL DEF Spec, DeletedStaysDeleted
=============================================================================
