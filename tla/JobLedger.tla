------------------------------ MODULE JobLedger ------------------------------
(***************************************************************************)
(* What the job API promises its clients, without the queue, the workers   *)
(* and the locks that keep the promise: an accepted job is queued, may     *)
(* run, ends exactly once and may be forgotten after that; two jobs that   *)
(* do the same work are never active together; every accepted job ends.    *)
(* JobManager implements it.                                               *)
(***************************************************************************)
EXTENDS Naturals

CONSTANTS
  JobId,           \* identifiers of jobs
  Fingerprints,    \* what a job works on
  NoFingerprint    \* "no such job"

VARIABLES
  status,   \* status of every job, "none" before it is accepted
  work      \* fingerprint of every job of the history

vars == <<status, work>>

Active == {"queued", "running"}
Terminal == {"succeeded", "failed", "canceled"}
Status == {"none", "forgotten"} \cup Active \cup Terminal

Init ==
  /\ status = [id \in JobId |-> "none"]
  /\ work = [id \in JobId |-> NoFingerprint]

Accept(id, fingerprint) ==
  /\ status[id] = "none"
  /\ \A other \in JobId : work[other] = fingerprint => status[other] \notin Active
  /\ status' = [status EXCEPT ![id] = "queued"]
  /\ work' = [work EXCEPT ![id] = fingerprint]

Begin(id) ==
  /\ status[id] = "queued"
  /\ status' = [status EXCEPT ![id] = "running"]
  /\ UNCHANGED work

(* The end of a job may make the history forget jobs that have ended. *)
End(id) ==
  /\ status[id] \in Active
  /\ \E outcome \in Terminal :
     \E forgotten \in SUBSET {j \in JobId : j = id \/ status[j] \in Terminal} :
       /\ status' = [j \in JobId |->
                      IF j \in forgotten THEN "forgotten"
                      ELSE IF j = id THEN outcome ELSE status[j]]
       /\ work' = [j \in JobId |->
                    IF j \in forgotten THEN NoFingerprint ELSE work[j]]

Next ==
  \E id \in JobId :
    \/ \E fingerprint \in Fingerprints : Accept(id, fingerprint)
    \/ Begin(id)
    \/ End(id)

Spec == Init /\ [][Next]_vars
FairSpec == Spec /\ \A id \in JobId : WF_vars(End(id))
=============================================================================
