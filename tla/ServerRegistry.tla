----------------------------- MODULE ServerRegistry -----------------------------
(***************************************************************************)
(* Who may monitor which host: the servers of the configuration, which     *)
(* every start of a process writes into the repository, and those of the   *)
(* API, which requests create, change and delete meanwhile (a command line *)
(* process seeds while the server process serves).  Discovery and the      *)
(* health service write whole rows of either sort back from copies they    *)
(* have read before.  A start may end after any entry; the repository      *)
(* outlives it.                                                            *)
(*                                                                         *)
(* A repository call is one step; a call that fails changes nothing.       *)
(* Names and hosts are compared without case; a name stands for its place  *)
(* in the alphabet.  What is kept of a server across a start (status,      *)
(* counters, backoff) belongs to its identifier; ServerHealth models it.   *)
(***************************************************************************)
EXTENDS Naturals, Sequences

CONSTANTS
  Names,        \* server names, numbers in the order of ListServers
  Hosts,        \* addresses
  Configs,      \* what the servers section of the configuration may hold
  Writers,      \* API requests, discoveries and health records that write servers
  MaxServers,   \* bound: identifiers drawn
  MaxEdits,     \* bound: edits of the configuration
  MaxFaults,    \* bound: starts that end early and calls of starts that fail
  NoServer      \* "no such server"

Entry == [name : Names, host : Hosts]
Server == [name : Names, host : Hosts, managedBy : {"api", "config"}]
Ids == 1 .. MaxServers

(* An entry has a name and a host (validateRuntime).  Nothing keeps two    *)
(* entries from having the same: the later replaces the earlier.           *)
ASSUME ConfigsAssumption ==
  /\ Names \subseteq Nat /\ \E last \in Names : \A n \in Names : n <= last
  /\ Configs \subseteq Seq(Entry)
ASSUME BoundsAssumption ==
  MaxServers \in Nat /\ MaxEdits \in Nat /\ MaxFaults \in Nat
ASSUME NoServerAssumption == NoServer \notin Server

VARIABLES
  servers,    \* the servers table
  drawn,      \* identifiers drawn
  file,       \* the servers section of the configuration
  start,      \* progress of the start of a process
  at,         \* the entry seedServers is at
  existing,   \* its list of servers, by identifier ...
  place,      \* ... and the place of each in the list
  warned,     \* entries it has skipped with a warning
  undone,     \* history: its entries that an old copy has replaced since
  step,       \* next call of each writer
  draft,      \* what a writer is going to store
  edits, faults

progress == <<start, at, existing, place, warned>>
seeding == <<progress, undone>>
bounds == <<edits, faults>>
vars == <<servers, drawn, file, seeding, step, draft, bounds>>

-----------------------------------------------------------------------------
Stored == {id \in Ids : servers[id] # NoServer}
ConfigServer(e) == [name |-> e.name, host |-> e.host, managedBy |-> "config"]
SameIdentity(s, e) == s.name = e.name \/ s.host = e.host

(* The unique indexes on the lower-case name and host. *)
Free(e, except) == \A id \in Stored \ {except} : ~SameIdentity(servers[id], e)
NoId == 0
NextId == drawn + 1

-----------------------------------------------------------------------------
(* NewRuntime and seedServers                                              *)

FirstEntry == 1

(* When the list cannot be read the start ends here and has done nothing. *)
ListServers ==
  /\ start \in {"off", "refused", "ready"}
  /\ start' = "seeding"
  /\ at' = FirstEntry
  /\ existing' = servers
  /\ place' = [id \in Ids |-> IF id \in Stored THEN servers[id].name ELSE 0]
  /\ warned' = {} /\ undone' = {}
  /\ UNCHANGED <<servers, drawn, file, step, draft, bounds>>

Matches(e) == {id \in Ids : existing[id] # NoServer /\ SameIdentity(existing[id], e)}

(* findServerByNameOrHost: the first of the list. *)
IsCurrent(id, e) ==
  /\ id \in Matches(e)
  /\ \A other \in Matches(e) : place[id] <= place[other]

(* The list of a start is gone with it. *)
Over(outcome) ==
  /\ start' = outcome
  /\ at' = FirstEntry
  /\ existing' = [id \in Ids |-> NoServer]
  /\ place' = [id \in Ids |-> 0]
  /\ warned' = {} /\ undone' = {}

Seeding == start = "seeding" /\ at \in DOMAIN file

\* Variation: a server of the configuration is refused, too.
IsNobodys(s) == FALSE
IsConfigManaged(s) == s.managedBy = "config"

Refused(e) == \E id \in Ids : IsCurrent(id, e) /\ ~IsConfigManaged(existing[id])

Refuse(e) ==
  /\ Refused(e)
  /\ Over("refused")
  /\ UNCHANGED <<servers, drawn, file, step, draft, bounds>>

(* The repository takes the entry: the row that is overwritten is still    *)
(* there, and no other has its name or host.                               *)
Overwritable(e) == {id \in Stored : IsCurrent(id, e) /\ Free(e, id)}
Accepted(e) == Overwritable(e) # {} \/ (Matches(e) = {} /\ Free(e, NoId))

(* The current server keeps its identifier and its place. *)
Overwrite(e) ==
  /\ ~Refused(e)
  /\ \E id \in Overwritable(e) :
       /\ servers' = [servers EXCEPT ![id] = ConfigServer(e)]
       /\ existing' = [existing EXCEPT ![id] = ConfigServer(e)]
  /\ at' = at + 1
  /\ UNCHANGED <<drawn, file, start, place, warned, undone, step, draft, bounds>>

(* A new server is appended to the list. *)
LastName == CHOOSE last \in Names : \A n \in Names : n <= last
Behind == LastName + NextId

Create(e) ==
  /\ Matches(e) = {} /\ Free(e, NoId)
  /\ NextId \in Ids
  /\ drawn' = NextId
  /\ servers' = [servers EXCEPT ![NextId] = ConfigServer(e)]
  /\ existing' = [existing EXCEPT ![NextId] = ConfigServer(e)]
  /\ place' = [place EXCEPT ![NextId] = Behind]
  /\ at' = at + 1
  /\ UNCHANGED <<file, start, warned, undone, step, draft, bounds>>

(* The call that would write the entry answers with an error, of whatever  *)
(* sort: a warning, and the start goes on.                                 *)
Skip(e) ==
  /\ ~Refused(e)
  /\ \/ ~Accepted(e) /\ UNCHANGED faults
     \/ faults < MaxFaults /\ faults' = faults + 1
  /\ at' = at + 1
  /\ warned' = warned \cup {e}
  /\ UNCHANGED <<servers, drawn, file, start, existing, place, undone, step, draft, edits>>

Seeded ==
  /\ start = "seeding"
  /\ at \notin DOMAIN file
  /\ Over("ready")
  /\ UNCHANGED <<servers, drawn, file, step, draft, bounds>>

(* The process ends. *)
Crash ==
  /\ start = "seeding"
  /\ faults < MaxFaults
  /\ Over("off")
  /\ faults' = faults + 1
  /\ UNCHANGED <<servers, drawn, file, step, draft, edits>>

(* The operator edits the file, though not while it is being applied. *)
EditConfig ==
  /\ start # "seeding"
  /\ edits < MaxEdits
  /\ file' \in Configs
  /\ edits' = edits + 1
  /\ UNCHANGED <<servers, drawn, seeding, step, draft, faults>>

SeedEntry ==
  /\ Seeding
  /\ Refuse(file[at]) \/ Overwrite(file[at]) \/ Create(file[at]) \/ Skip(file[at])

-----------------------------------------------------------------------------
(* Writers: what they read or test and what they do are different calls.   *)

NoDraft == [id |-> NoId, server |-> NoServer]
ToStep(r, what, id, server) ==
  /\ step' = [step EXCEPT ![r] = what]
  /\ draft' = [draft EXCEPT ![r] = [id |-> id, server |-> server]]

ApiServer(e) == [name |-> e.name, host |-> e.host, managedBy |-> "api"]

(* ensureUniqueIdentity *)
CreateChecked(r, e) ==
  /\ step[r] = "none"
  /\ Free(e, NoId)
  /\ ToStep(r, "create", NoId, ApiServer(e))
  /\ UNCHANGED <<servers, drawn, file, seeding, bounds>>

CreateServer(r) ==
  /\ step[r] = "create"
  /\ IF Free(draft[r].server, NoId)
     THEN /\ NextId \in Ids
          /\ drawn' = NextId
          /\ servers' = [servers EXCEPT ![NextId] = draft[r].server]
     ELSE UNCHANGED <<servers, drawn>>
  /\ ToStep(r, "none", NoId, NoServer)
  /\ UNCHANGED <<file, seeding, bounds>>

(* ensureAPIServerMutable                                                  *)

\* Variation: every server may be changed.
AnyServer(id) == id \in Stored
Mutable(id) == id \in Stored /\ servers[id].managedBy = "api"

\* Variation: the owner stays what the request says, nothing.
OwnerAsGiven(e, current) == [name |-> e.name, host |-> e.host, managedBy |-> ""]
(* Update keeps the managed_by it has read. *)
UpdatedServer(e, current) == [ApiServer(e) EXCEPT !.managedBy = current.managedBy]

GetToUpdate(r, id, e) ==
  /\ step[r] = "none"
  /\ Mutable(id)
  /\ ToStep(r, "check", id, UpdatedServer(e, servers[id]))
  /\ UNCHANGED <<servers, drawn, file, seeding, bounds>>

UpdateChecked(r) ==
  /\ step[r] = "check"
  /\ IF Free(draft[r].server, draft[r].id)
     THEN ToStep(r, "update", draft[r].id, draft[r].server)
     ELSE ToStep(r, "none", NoId, NoServer)
  /\ UNCHANGED <<servers, drawn, file, seeding, bounds>>

(* A row that is gone, or a name or host that is taken, is an error. *)
Put(r) ==
  servers' = IF draft[r].id \in Stored /\ Free(draft[r].server, draft[r].id)
             THEN [servers EXCEPT ![draft[r].id] = draft[r].server]
             ELSE servers

UpdateServer(r) ==
  /\ step[r] = "update"
  /\ Put(r)
  /\ ToStep(r, "none", NoId, NoServer)
  /\ UNCHANGED <<drawn, file, seeding, bounds>>

GetToDelete(r, id) ==
  /\ step[r] = "none"
  /\ Mutable(id)
  /\ ToStep(r, "delete", id, NoServer)
  /\ UNCHANGED <<servers, drawn, file, seeding, bounds>>

(* A server that is gone already is answered as deleted. *)
DeleteServer(r) ==
  /\ step[r] = "delete"
  /\ servers' = [servers EXCEPT ![draft[r].id] = NoServer]
  /\ ToStep(r, "none", NoId, NoServer)
  /\ UNCHANGED <<drawn, file, seeding, bounds>>

(* Discovery, once it has found the operating system, and the health       *)
(* service, which records a degraded server or clears a backoff, read a    *)
(* server of either sort and store the whole of it again.                  *)
ReadWhole(r, id) ==
  /\ step[r] = "none"
  /\ id \in Stored
  /\ ToStep(r, "store", id, servers[id])
  /\ UNCHANGED <<servers, drawn, file, seeding, bounds>>

Passed == {e \in Entry : \E i \in DOMAIN file : i < at /\ file[i] = e}

WriteBack(r) ==
  /\ step[r] = "store"
  /\ Put(r)
  /\ LET id == draft[r].id IN
       undone' = undone \cup {e \in Passed : servers[id] = ConfigServer(e)
                                           /\ servers'[id] # servers[id]}
  /\ ToStep(r, "none", NoId, NoServer)
  /\ UNCHANGED <<drawn, file, progress, bounds>>

(* A call fails or the process of the writer ends. *)
Abandon(r) ==
  /\ step[r] # "none"
  /\ ToStep(r, "none", NoId, NoServer)
  /\ UNCHANGED <<servers, drawn, file, seeding, bounds>>

Request(r) ==
  \/ \E e \in Entry : CreateChecked(r, e)
  \/ \E id \in Ids, e \in Entry : GetToUpdate(r, id, e)
  \/ \E id \in Ids : GetToDelete(r, id)
  \/ CreateServer(r) \/ UpdateChecked(r) \/ UpdateServer(r) \/ DeleteServer(r)
  \/ \E id \in Ids : ReadWhole(r, id)
  \/ Abandon(r)

-----------------------------------------------------------------------------
Init ==
  /\ servers = [id \in Ids |-> NoServer]
  /\ drawn = 0
  /\ file \in Configs
  /\ start = "off" /\ at = FirstEntry /\ warned = {} /\ undone = {}
  /\ existing = servers
  /\ place = [id \in Ids |-> 0]
  /\ step = [r \in Writers |-> "none"]
  /\ draft = [r \in Writers |-> NoDraft]
  /\ edits = 0 /\ faults = 0

Next ==
  \/ ListServers \/ SeedEntry \/ Seeded \/ Crash \/ EditConfig
  \/ \E r \in Writers : Request(r) \/ WriteBack(r)

Spec == Init /\ [][Next]_vars

(* A start that has begun goes on; nothing has to begin one. *)
Fairness == WF_vars(SeedEntry \/ Seeded)
FairSpec == Spec /\ Fairness

-----------------------------------------------------------------------------
(* Properties                                                              *)

(* Every variable has its type.                                            *)
TypeOK ==
  /\ servers \in [Ids -> Server \cup {NoServer}]
  /\ drawn \in 0 .. MaxServers
  /\ file \in Configs
  /\ start \in {"off", "seeding", "refused", "ready"}
  /\ at \in Nat \ {0}
  /\ existing \in [Ids -> Server \cup {NoServer}]
  /\ place \in [Ids -> Nat]
  /\ warned \subseteq Entry /\ undone \subseteq Entry
  /\ step \in [Writers -> {"none", "create", "check", "update", "delete", "store"}]
  /\ draft \in [Writers -> [id : Ids \cup {NoId}, server : Server \cup {NoServer}]]
  /\ edits \in Nat /\ faults \in Nat

Applied(e) == \E id \in Ids : servers[id] = ConfigServer(e)

(* A later entry of the file has the name or the host of this one. *)
Replaced(i) == \E j \in DOMAIN file : i < j /\ j < at /\ SameIdentity(file[j], file[i])

(* A start that goes on has applied every entry it has passed, or has      *)
(* warned of it.  Two things only can take an applied entry away again: a  *)
(* later entry with its name or host, and an old copy of that very server  *)
(* which discovery or the health service writes back (seedServers; the     *)
(* UpdateServer of discovery/service.go and health/service.go).  No API    *)
(* request in between and no entry with a name and host of its own does.   *)
SeededOrWarned ==
  start = "seeding" =>
    \A i \in DOMAIN file : i < at =>
      Applied(file[i]) \/ file[i] \in warned \/ Replaced(i) \/ file[i] \in undone

(* A server belongs to the configuration or to the API for good, and one   *)
(* of the configuration stays, whatever anybody has read before: no start  *)
(* takes a server over from the API, no request one of the configuration,  *)
(* and no old copy brings an owner or a deleted server back.  Name and     *)
(* host of a server of the configuration change by a start or by an old    *)
(* copy of the same server, never by a request that updates or deletes.    *)
OwnersKeep ==
  [][\A id \in Stored :
       /\ servers'[id] = NoServer => servers[id].managedBy = "api"
       /\ servers'[id] # NoServer => servers'[id].managedBy = servers[id].managedBy
       /\ servers'[id] # servers[id] =>
            IF servers[id].managedBy = "config"
            THEN SeedEntry \/ \E r \in Writers : WriteBack(r) /\ draft[r].id = id
            ELSE ~SeedEntry]_vars

Holders(e) == {id \in Stored : SameIdentity(servers[id], e)}
Torn(e) == \E id, other \in Holders(e) : id # other
Refusable == \E i \in DOMAIN file : \E id \in Holders(file[i]) : servers[id].managedBy = "api"
NoRoom(e) == drawn = MaxServers /\ Holders(e) = {}
InFile(e) == \E i \in DOMAIN file : file[i] = e

OldCopyStored == \E r \in Writers : WriteBack(r) /\ servers' # servers

(* What starts have left half done, skipped for an error or lost to an old *)
(* copy, later starts complete: if processes are started again and again   *)
(* and old copies stop changing servers, an entry is applied sooner or     *)
(* later, unless one stored server has its name and another its host, or   *)
(* the start is refused because a server of the API has either.            *)
EveryEntryArrives ==
  ([]<><<ListServers>>_vars /\ <>[][~OldCopyStored]_vars) =>
    \A e \in Entry :
      InFile(e) ~> (~InFile(e) \/ Applied(e) \/ Torn(e) \/ Refusable \/ NoRoom(e))
=============================================================================
