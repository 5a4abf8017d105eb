-------------------------- MODULE ServerRegistryProofs --------------------------
(***************************************************************************)
(* Theorems about ServerRegistry, for any names, hosts, configurations,    *)
(* writers and bounds.                                                     *)
(***************************************************************************)
EXTENDS ServerRegistry, TLAPS

IsConfig(s) == s # NoServer /\ IsConfigManaged(s)

(* An identifier that has not been drawn names no server. *)
Fresh ==
  \A id \in Ids : id > drawn => servers[id] = NoServer /\ existing[id] = NoServer

(* What a start believes to be of the configuration is stored and is of    *)
(* the configuration, whatever its name and host are by now.               *)
ListOwned ==
  start = "seeding" => \A id \in Ids : IsConfig(existing[id]) => IsConfig(servers[id])

(* A request only ever changes servers of the API. *)
DraftOfApi ==
  \A r \in Writers :
    /\ step[r] \in {"check", "update", "delete"} =>
         /\ draft[r].id \in Ids /\ draft[r].id <= drawn
         /\ ~IsConfig(servers[draft[r].id])
    /\ step[r] \in {"create", "check", "update"} =>
         draft[r].server \in Server /\ draft[r].server.managedBy = "api"

(* A copy, however old, has the owner of the row it was read from. *)
CopyOwned ==
  \A r \in Writers : step[r] = "store" =>
    /\ draft[r].id \in Ids /\ draft[r].id <= drawn
    /\ draft[r].server \in Server
    /\ servers[draft[r].id] # NoServer =>
         servers[draft[r].id].managedBy = draft[r].server.managedBy

Knowledge == Fresh /\ ListOwned /\ DraftOfApi /\ CopyOwned

(* Where the entries that have been passed are: the start has noted each   *)
(* under an identifier and only an old copy can have changed its row.      *)
Noted(i) ==
  \E k \in Ids :
    /\ existing[k] = ConfigServer(file[i])
    /\ servers[k] = ConfigServer(file[i]) \/ file[i] \in undone
EntriesKept ==
  start = "seeding" =>
    \A i \in DOMAIN file : i < at => file[i] \in warned \/ Replaced(i) \/ Noted(i)

IInv == TypeOK /\ Knowledge /\ EntriesKept

-----------------------------------------------------------------------------
(* Names, entries, servers                                                 *)

LEMMA LastNameIsNumber == LastName \in Nat
BY ConfigsAssumption DEF LastName

LEMMA ServersMade ==
  ASSUME NEW e \in Entry
  PROVE  /\ ConfigServer(e) \in Server /\ ConfigServer(e).managedBy = "config"
         /\ ApiServer(e) \in Server /\ ApiServer(e).managedBy = "api"
         /\ [ApiServer(e) EXCEPT !.managedBy = "api"] = ApiServer(e)
BY DEF Entry, Server, ConfigServer, ApiServer

LEMMA ConfigServerIsConfig ==
  ASSUME NEW e \in Entry
  PROVE  IsConfig(ConfigServer(e))
BY ServersMade, NoServerAssumption DEF IsConfig, IsConfigManaged

LEMMA EntriesOfFile ==
  ASSUME TypeOK
  PROVE  \A i \in DOMAIN file : file[i] \in Entry /\ i \in Nat /\ i >= 1
BY ConfigsAssumption DEF TypeOK

LEMMA NextIdUnused ==
  ASSUME TypeOK, Fresh
  PROVE  /\ drawn \in Nat /\ NextId = drawn + 1 /\ \A id \in Ids : id \in Nat
         /\ NextId \in Ids => servers[NextId] = NoServer /\ existing[NextId] = NoServer
BY BoundsAssumption DEF TypeOK, Fresh, NextId, Ids

-----------------------------------------------------------------------------
(* Types                                                                   *)

SeedStep == ListServers \/ SeedEntry \/ Seeded \/ Crash \/ EditConfig

LEMMA OverTypes ==
  ASSUME NEW outcome \in {"off", "refused", "ready"}, Over(outcome)
  PROVE  /\ start' \in {"off", "seeding", "refused", "ready"} /\ at' \in Nat \ {0}
         /\ existing' \in [Ids -> Server \cup {NoServer}] /\ place' \in [Ids -> Nat]
         /\ warned' \subseteq Entry /\ undone' \subseteq Entry
BY DEF Over, FirstEntry

LEMMA SeedTypes ==
  ASSUME TypeOK, SeedStep
  PROVE  TypeOK'
<1> USE DEF TypeOK, bounds
<1>1. CASE ListServers
  <2>1. place' \in [Ids -> Nat]
    BY <1>1, ConfigsAssumption DEF ListServers, Stored, Server
  <2> QED BY <1>1, <2>1 DEF ListServers, FirstEntry
<1>2. CASE Seeded
  BY <1>2, OverTypes DEF Seeded
<1>3. CASE Crash
  BY <1>3, OverTypes DEF Crash
<1>4. CASE EditConfig
  BY <1>4 DEF EditConfig, seeding, progress
<1>5. CASE Seeding /\ Refuse(file[at])
  BY <1>5, OverTypes DEF Refuse
<1>6. ASSUME Seeding PROVE file[at] \in Entry /\ ConfigServer(file[at]) \in Server
  BY <1>6, EntriesOfFile, ServersMade DEF Seeding
<1>7. CASE Seeding /\ Overwrite(file[at])
  <2>1. PICK id \in Ids : /\ servers' = [servers EXCEPT ![id] = ConfigServer(file[at])]
                          /\ existing' = [existing EXCEPT ![id] = ConfigServer(file[at])]
    BY <1>7 DEF Overwrite, Overwritable, Stored
  <2>2. /\ servers' \in [Ids -> Server \cup {NoServer}]
        /\ existing' \in [Ids -> Server \cup {NoServer}]
    BY <1>6, <1>7, <2>1
  <2>3. /\ at' \in Nat \ {0}
        /\ UNCHANGED <<drawn, file, start, place, warned, undone, step, draft, edits, faults>>
    BY <1>7 DEF Overwrite
  <2> QED BY <2>2, <2>3
<1>8. CASE Seeding /\ Create(file[at])
  <2>1. NextId \in Ids /\ NextId \in 0 .. MaxServers
    BY <1>8 DEF Create, Ids
  <2>2. Behind \in Nat
    BY LastNameIsNumber, BoundsAssumption DEF Behind, NextId
  <2> QED BY <1>6, <1>8, <2>1, <2>2 DEF Create
<1>9. CASE Seeding /\ Skip(file[at])
  BY <1>6, <1>9 DEF Skip
<1> QED BY <1>1, <1>2, <1>3, <1>4, <1>5, <1>7, <1>8, <1>9 DEF SeedStep, SeedEntry

Steps == {"none", "create", "check", "update", "delete", "store"}

LEMMA DraftTypes ==
  ASSUME TypeOK, NEW r \in Writers, NEW what \in Steps,
         NEW id \in Ids \cup {NoId}, NEW server \in Server \cup {NoServer}, ToStep(r, what, id, server)
  PROVE  /\ step' \in [Writers -> Steps]
         /\ draft' \in [Writers -> [id : Ids \cup {NoId}, server : Server \cup {NoServer}]]
BY DEF TypeOK, ToStep, Steps

LEMMA RequestTypes ==
  ASSUME TypeOK, DraftOfApi, NEW r \in Writers, Request(r)
  PROVE  TypeOK'
<1> USE DEF TypeOK, seeding, progress, bounds, Steps
<1>0. draft[r].id \in Ids \cup {NoId} /\ draft[r].server \in Server \cup {NoServer}
  OBVIOUS
<1>1. ASSUME NEW e \in Entry, CreateChecked(r, e) PROVE TypeOK'
  BY <1>1, DraftTypes, ServersMade DEF CreateChecked
<1>2. ASSUME NEW id \in Ids, NEW e \in Entry, GetToUpdate(r, id, e) PROVE TypeOK'
  <2>1. UpdatedServer(e, servers[id]) \in Server
    BY <1>2, ServersMade DEF GetToUpdate, Mutable, UpdatedServer
  <2> QED BY <1>2, <2>1, DraftTypes DEF GetToUpdate
<1>3. ASSUME NEW id \in Ids, GetToDelete(r, id) PROVE TypeOK'
  BY <1>3, DraftTypes DEF GetToDelete
<1>4. CASE CreateServer(r)
  <2>1. draft[r].server \in Server
    BY <1>4 DEF CreateServer, DraftOfApi
  <2>2. /\ step' \in [Writers -> Steps]
        /\ draft' \in [Writers -> [id : Ids \cup {NoId}, server : Server \cup {NoServer}]]
    BY <1>4, DraftTypes DEF CreateServer
  <2>3. servers' \in [Ids -> Server \cup {NoServer}]
    BY <1>4, <2>1 DEF CreateServer
  <2>4. drawn' \in 0 .. MaxServers
    BY <1>4 DEF CreateServer, Ids
  <2> QED BY <1>4, <2>2, <2>3, <2>4 DEF CreateServer
<1>5. CASE UpdateChecked(r)
  BY <1>0, <1>5, DraftTypes DEF UpdateChecked
<1>6. CASE UpdateServer(r)
  BY <1>0, <1>6, DraftTypes DEF UpdateServer, Put
<1>7. CASE DeleteServer(r)
  BY <1>0, <1>7, DraftTypes DEF DeleteServer
<1>8. CASE Abandon(r)
  BY <1>8, DraftTypes DEF Abandon
<1>9. ASSUME NEW id \in Ids, ReadWhole(r, id) PROVE TypeOK'
  BY <1>9, DraftTypes DEF ReadWhole
<1> QED BY <1>1, <1>2, <1>3, <1>4, <1>5, <1>6, <1>7, <1>8, <1>9 DEF Request

LEMMA WriteBackTypes ==
  ASSUME TypeOK, NEW r \in Writers, WriteBack(r)
  PROVE  TypeOK'
<1> USE DEF TypeOK, progress, bounds, Steps
<1>1. draft[r].id \in Ids \cup {NoId} /\ draft[r].server \in Server \cup {NoServer}
  OBVIOUS
<1>2. undone' \subseteq Entry
  BY DEF WriteBack, Passed
<1>3. servers' \in [Ids -> Server \cup {NoServer}]
  BY <1>1 DEF WriteBack, Put
<1>4. /\ step' \in [Writers -> Steps]
      /\ draft' \in [Writers -> [id : Ids \cup {NoId}, server : Server \cup {NoServer}]]
  BY DraftTypes DEF WriteBack
<1> QED BY <1>2, <1>3, <1>4 DEF WriteBack

-----------------------------------------------------------------------------
(* What a step makes of the servers that are stored                        *)

(* Nobody gives a server another owner or brings a deleted one back, and   *)
(* those of the configuration stay.                                        *)
Steady ==
  /\ drawn <= drawn'
  /\ \A id \in Ids : id <= drawn =>
       /\ servers'[id] # NoServer =>
            servers[id] # NoServer /\ servers'[id].managedBy = servers[id].managedBy
       /\ IsConfig(servers[id]) => IsConfig(servers'[id])

(* A start touches servers of the configuration only. *)
LEMMA OverwritesItsOwn ==
  ASSUME TypeOK, ListOwned, Seeding, Overwrite(file[at])
  PROVE  \E id \in Ids :
           /\ IsConfig(existing[id]) /\ IsConfig(servers[id])
           /\ SameIdentity(existing[id], file[at])
           /\ servers' = [servers EXCEPT ![id] = ConfigServer(file[at])]
           /\ existing' = [existing EXCEPT ![id] = ConfigServer(file[at])]
<1>1. PICK id \in Overwritable(file[at]) :
        /\ servers' = [servers EXCEPT ![id] = ConfigServer(file[at])]
        /\ existing' = [existing EXCEPT ![id] = ConfigServer(file[at])]
  BY DEF Overwrite
<1>2. id \in Ids /\ IsCurrent(id, file[at])
  BY <1>1 DEF Overwritable, Stored
<1>3. IsConfigManaged(existing[id])
  BY <1>2 DEF Overwrite, Refused
<1>4. existing[id] # NoServer /\ SameIdentity(existing[id], file[at])
  BY <1>2 DEF IsCurrent, Matches
<1>5. IsConfig(existing[id]) /\ IsConfig(servers[id])
  BY <1>2, <1>3, <1>4 DEF IsConfig, ListOwned, Seeding
<1> QED BY <1>1, <1>2, <1>4, <1>5

LEMMA SeedIsSteady ==
  ASSUME TypeOK, Fresh, ListOwned, SeedStep
  PROVE  Steady
<1> USE DEF Steady
<1>0. drawn \in Nat /\ NextId = drawn + 1 /\ \A id \in Ids : id \in Nat
  BY NextIdUnused
<1>1. CASE UNCHANGED <<servers, drawn>>
  BY <1>0, <1>1
<1>2. CASE Seeding /\ Overwrite(file[at])
  <2>1. PICK its \in Ids : /\ IsConfig(servers[its])
                           /\ servers' = [servers EXCEPT ![its] = ConfigServer(file[at])]
    BY <1>2, OverwritesItsOwn
  <2>2. /\ IsConfig(ConfigServer(file[at])) /\ ConfigServer(file[at]).managedBy = "config"
    BY <1>2, EntriesOfFile, ConfigServerIsConfig, ServersMade DEF Seeding
  <2>3. UNCHANGED drawn
    BY <1>2 DEF Overwrite
  <2> QED BY <1>0, <2>1, <2>2, <2>3 DEF TypeOK, IsConfig, IsConfigManaged
<1>3. CASE Seeding /\ Create(file[at])
  BY <1>0, <1>3 DEF Create, TypeOK
<1> QED BY <1>1, <1>2, <1>3 DEF SeedStep, ListServers, SeedEntry, Refuse, Skip, Seeded, Crash, EditConfig

(* What a request changes: nothing, a server of the API, or a new one.     *)
Harmless ==
  \/ UNCHANGED <<servers, drawn>>
  \/ \E id \in Ids, server \in Server \cup {NoServer} :
       /\ id <= drawn /\ ~IsConfig(servers[id]) /\ ~IsConfig(server)
       /\ server # NoServer => servers[id] # NoServer
       /\ servers' = [servers EXCEPT ![id] = server] /\ UNCHANGED drawn
  \/ /\ NextId \in Ids /\ drawn' = NextId
     /\ \E server \in Server : ~IsConfig(server) /\ servers' = [servers EXCEPT ![NextId] = server]

LEMMA RequestsAreHarmless ==
  ASSUME TypeOK, DraftOfApi, NEW r \in Writers, Request(r)
  PROVE  Harmless /\ UNCHANGED <<file, seeding>>
<1> USE DEF Harmless
<1>0. UNCHANGED <<file, seeding>>
  BY DEF Request, CreateChecked, GetToUpdate, GetToDelete, CreateServer, UpdateChecked,
    UpdateServer, DeleteServer, ReadWhole, Abandon
<1>1. CASE CreateServer(r)
  <2>1. draft[r].server \in Server /\ ~IsConfig(draft[r].server)
    BY <1>1 DEF CreateServer, DraftOfApi, IsConfig, IsConfigManaged
  <2> QED BY <1>0, <1>1, <2>1 DEF CreateServer
<1>2. CASE UpdateServer(r)
  <2>1. draft[r].server \in Server /\ ~IsConfig(draft[r].server)
    BY <1>2 DEF UpdateServer, DraftOfApi, IsConfig, IsConfigManaged
  <2>2. draft[r].id \in Ids /\ draft[r].id <= drawn /\ ~IsConfig(servers[draft[r].id])
    BY <1>2 DEF UpdateServer, DraftOfApi
  <2>3. CASE draft[r].id \in Stored /\ Free(draft[r].server, draft[r].id)
    <3>1. servers' = [servers EXCEPT ![draft[r].id] = draft[r].server] /\ UNCHANGED drawn
      BY <1>2, <2>3 DEF UpdateServer, Put
    <3>2. servers[draft[r].id] # NoServer
      BY <2>3 DEF Stored
    <3> QED BY <1>0, <2>1, <2>2, <3>1, <3>2
  <2>4. CASE ~(draft[r].id \in Stored /\ Free(draft[r].server, draft[r].id))
    BY <1>0, <1>2, <2>4 DEF UpdateServer, Put
  <2> QED BY <2>3, <2>4
<1>3. CASE DeleteServer(r)
  <2>1. draft[r].id \in Ids /\ draft[r].id <= drawn /\ ~IsConfig(servers[draft[r].id])
    BY <1>3 DEF DeleteServer, DraftOfApi
  <2>2. ~IsConfig(NoServer)
    BY DEF IsConfig
  <2> QED BY <1>0, <1>3, <2>1, <2>2 DEF DeleteServer
<1>4. CASE UNCHANGED <<servers, drawn>>
  BY <1>0, <1>4
<1> QED BY <1>1, <1>2, <1>3, <1>4 DEF Request, CreateChecked, GetToUpdate, GetToDelete,
  UpdateChecked, ReadWhole, Abandon

LEMMA HarmlessIsSteady ==
  ASSUME TypeOK, Fresh, Harmless
  PROVE  /\ Steady
         /\ \A id \in Ids : IsConfig(servers[id]) => servers'[id] = servers[id]
<1> USE DEF Steady
<1>0. /\ drawn \in Nat /\ NextId = drawn + 1 /\ \A id \in Ids : id \in Nat
      /\ NextId \in Ids => servers[NextId] = NoServer
  BY NextIdUnused
<1>1. CASE UNCHANGED <<servers, drawn>>
  BY <1>0, <1>1
<1>2. ASSUME NEW its \in Ids, NEW server \in Server \cup {NoServer},
             ~IsConfig(servers[its]), ~IsConfig(server),
             server # NoServer => servers[its] # NoServer,
             servers' = [servers EXCEPT ![its] = server], UNCHANGED drawn
      PROVE  /\ Steady
             /\ \A id \in Ids : IsConfig(servers[id]) => servers'[id] = servers[id]
  <2>1. server # NoServer => server.managedBy = servers[its].managedBy
    BY <1>2 DEF TypeOK, Server, IsConfig, IsConfigManaged
  <2> QED BY <1>0, <1>2, <2>1 DEF TypeOK
<1>3. ASSUME NextId \in Ids, drawn' = NextId, NEW server \in Server,
             servers' = [servers EXCEPT ![NextId] = server]
      PROVE  /\ Steady
             /\ \A id \in Ids : IsConfig(servers[id]) => servers'[id] = servers[id]
  BY <1>0, <1>3 DEF TypeOK, IsConfig
<1> QED BY <1>1, <1>2, <1>3 DEF Harmless

(* An old copy changes nothing, or the row of its own server. *)
LEMMA BackIsSteady ==
  ASSUME TypeOK, CopyOwned, NEW r \in Writers, WriteBack(r)
  PROVE  /\ Steady /\ UNCHANGED drawn
         /\ \A id \in Ids : servers'[id] # servers[id] => id = draft[r].id
         /\ \A id \in Ids : servers[id] = NoServer => servers'[id] = NoServer
<1> USE DEF Steady
<1>0. drawn \in Nat /\ UNCHANGED drawn
  BY BoundsAssumption DEF TypeOK, WriteBack
<1>1. /\ draft[r].id \in Ids /\ draft[r].server \in Server
      /\ servers[draft[r].id] # NoServer =>
           servers[draft[r].id].managedBy = draft[r].server.managedBy
  BY DEF WriteBack, CopyOwned
<1>2. CASE draft[r].id \in Stored /\ Free(draft[r].server, draft[r].id)
  <2>1. servers' = [servers EXCEPT ![draft[r].id] = draft[r].server]
    BY <1>2 DEF WriteBack, Put
  <2>2. servers[draft[r].id] # NoServer /\ draft[r].server # NoServer
    BY <1>1, <1>2, NoServerAssumption DEF Stored
  <2> QED BY <1>0, <1>1, <2>1, <2>2 DEF TypeOK, IsConfig, IsConfigManaged
<1>3. CASE ~(draft[r].id \in Stored /\ Free(draft[r].server, draft[r].id))
  <2>1. servers' = servers
    BY <1>3 DEF WriteBack, Put
  <2> QED BY <1>0, <2>1
<1> QED BY <1>2, <1>3

LEMMA StepIsSteady ==
  ASSUME TypeOK, Knowledge, Next
  PROVE  Steady
<1>1. CASE SeedStep
  BY <1>1, SeedIsSteady DEF Knowledge
<1>2. ASSUME NEW r \in Writers, Request(r) PROVE Steady
  BY <1>2, RequestsAreHarmless, HarmlessIsSteady DEF Knowledge
<1>3. ASSUME NEW r \in Writers, WriteBack(r) PROVE Steady
  BY <1>3, BackIsSteady DEF Knowledge
<1> QED BY <1>1, <1>2, <1>3 DEF Next, SeedStep

-----------------------------------------------------------------------------
(* What starts and writers know                                            *)

LEMMA OverForgets ==
  ASSUME NEW outcome \in {"off", "refused", "ready"}, Over(outcome), Fresh, UNCHANGED <<servers, drawn>>
  PROVE  Fresh' /\ ListOwned' /\ EntriesKept'
BY DEF Over, Fresh, ListOwned, EntriesKept

LEMMA ListStaysOwned ==
  ASSUME TypeOK, Fresh, ListOwned, Steady, UNCHANGED <<start, existing>>
  PROVE  ListOwned'
<1>0. drawn \in Nat /\ \A id \in Ids : id \in Nat
  BY NextIdUnused
<1>1. \A id \in Ids : IsConfig(servers[id]) => id <= drawn
  BY <1>0 DEF Fresh, IsConfig
<1> QED BY <1>1 DEF ListOwned, Steady

(* A draft or a copy goes on being one of its owner's. *)
LEMMA WritersStay ==
  ASSUME TypeOK, TypeOK', DraftOfApi, CopyOwned, Steady, NEW r \in Writers,
         step'[r] = step[r], draft'[r] = draft[r]
  PROVE  /\ step'[r] \in {"check", "update", "delete"} =>
              /\ draft'[r].id \in Ids /\ draft'[r].id <= drawn'
              /\ ~IsConfig(servers'[draft'[r].id])
         /\ step'[r] \in {"create", "check", "update"} =>
              draft'[r].server \in Server /\ draft'[r].server.managedBy = "api"
         /\ step'[r] = "store" =>
              /\ draft'[r].id \in Ids /\ draft'[r].id <= drawn'
              /\ draft'[r].server \in Server
              /\ servers'[draft'[r].id] # NoServer =>
                   servers'[draft'[r].id].managedBy = draft'[r].server.managedBy
<1>1. drawn \in Nat /\ drawn' \in Nat /\ drawn <= drawn' /\ \A id \in Ids : id \in Nat
  BY BoundsAssumption DEF TypeOK, Steady, Ids
<1>2. \A id \in Ids : id <= drawn /\ ~IsConfig(servers[id]) => ~IsConfig(servers'[id])
  BY DEF Steady, IsConfig, IsConfigManaged
<1>3. step[r] \in {"check", "update", "delete"} =>
        /\ draft[r].id \in Ids /\ draft[r].id <= drawn'
        /\ ~IsConfig(servers'[draft[r].id])
  BY <1>1, <1>2 DEF DraftOfApi
<1>4. step[r] = "store" =>
        /\ draft[r].id \in Ids /\ draft[r].id <= drawn'
        /\ draft[r].server \in Server
        /\ servers'[draft[r].id] # NoServer =>
             servers'[draft[r].id].managedBy = draft[r].server.managedBy
  BY <1>1 DEF CopyOwned, Steady
<1> QED BY <1>3, <1>4 DEF DraftOfApi

LEMMA SeedKnows ==
  ASSUME TypeOK, Knowledge, SeedStep
  PROVE  Knowledge'
<1> USE DEF Knowledge, bounds
<1>0. Steady /\ TypeOK'
  BY SeedIsSteady, SeedTypes
<1>1. DraftOfApi' /\ CopyOwned'
  <2>1. UNCHANGED <<step, draft>>
    BY DEF SeedStep, ListServers, SeedEntry, Refuse, Overwrite, Create, Skip, Seeded, Crash, EditConfig
  <2> QED BY <1>0, <2>1, WritersStay DEF DraftOfApi, CopyOwned
<1>2. /\ drawn \in Nat /\ NextId = drawn + 1 /\ \A id \in Ids : id \in Nat
      /\ NextId \in Ids => servers[NextId] = NoServer /\ existing[NextId] = NoServer
  BY NextIdUnused
<1>3. CASE ListServers
  BY <1>1, <1>3 DEF ListServers, Fresh, ListOwned
<1>4. CASE Seeded \/ Crash \/ (Seeding /\ Refuse(file[at]))
  BY <1>1, <1>4, OverForgets DEF Seeded, Crash, Refuse
<1>5. CASE EditConfig \/ (Seeding /\ Skip(file[at]))
  BY <1>1, <1>5 DEF EditConfig, Skip, seeding, progress, Fresh, ListOwned
<1>6. CASE Seeding /\ Overwrite(file[at])
  <2>1. PICK its \in Ids : /\ IsConfig(existing[its]) /\ IsConfig(servers[its])
                           /\ servers' = [servers EXCEPT ![its] = ConfigServer(file[at])]
                           /\ existing' = [existing EXCEPT ![its] = ConfigServer(file[at])]
    BY <1>6, OverwritesItsOwn
  <2>2. UNCHANGED <<drawn, start>>
    BY <1>6 DEF Overwrite
  <2>3. Fresh'
    BY <1>2, <2>1, <2>2 DEF Fresh, TypeOK, IsConfig
  <2>4. ListOwned'
    BY <2>1, <2>2 DEF ListOwned, TypeOK
  <2> QED BY <1>1, <2>3, <2>4
<1>7. CASE Seeding /\ Create(file[at])
  <2>1. /\ NextId \in Ids /\ drawn' = NextId
        /\ servers' = [servers EXCEPT ![NextId] = ConfigServer(file[at])]
        /\ existing' = [existing EXCEPT ![NextId] = ConfigServer(file[at])]
        /\ UNCHANGED start
    BY <1>7 DEF Create
  <2>2. Fresh'
    BY <1>2, <2>1 DEF Fresh, TypeOK
  <2>3. ListOwned'
    BY <2>1 DEF ListOwned, TypeOK
  <2> QED BY <1>1, <2>2, <2>3
<1> QED BY <1>3, <1>4, <1>5, <1>6, <1>7 DEF SeedStep, SeedEntry

(* What a request holds after its step. *)
LEMMA RequestDrafts ==
  ASSUME TypeOK, Knowledge, NEW r \in Writers, Request(r)
  PROVE  /\ \A q \in Writers \ {r} : step'[q] = step[q] /\ draft'[q] = draft[q]
         /\ step'[r] \in {"check", "update", "delete"} =>
              /\ draft'[r].id \in Ids /\ draft'[r].id <= drawn
              /\ ~IsConfig(servers[draft'[r].id])
         /\ step'[r] \in {"create", "check", "update"} =>
              draft'[r].server \in Server /\ draft'[r].server.managedBy = "api"
         /\ step'[r] = "store" =>
              /\ draft'[r].id \in Ids /\ draft'[r].id <= drawn
              /\ draft'[r].server \in Server
              /\ servers[draft'[r].id].managedBy = draft'[r].server.managedBy
<1> DEFINE Holds == /\ step'[r] \in {"check", "update", "delete"} =>
                         /\ draft'[r].id \in Ids /\ draft'[r].id <= drawn
                         /\ ~IsConfig(servers[draft'[r].id])
                    /\ step'[r] \in {"create", "check", "update"} =>
                         draft'[r].server \in Server /\ draft'[r].server.managedBy = "api"
                    /\ step'[r] = "store" =>
                         /\ draft'[r].id \in Ids /\ draft'[r].id <= drawn
                         /\ draft'[r].server \in Server
                         /\ servers[draft'[r].id].managedBy = draft'[r].server.managedBy
<1>1. \A q \in Writers \ {r} : step'[q] = step[q] /\ draft'[q] = draft[q]
  BY DEF Request, CreateChecked, GetToUpdate, GetToDelete, CreateServer, UpdateChecked,
    UpdateServer, DeleteServer, ReadWhole, Abandon, ToStep, TypeOK
<1>2. ASSUME NEW id \in Ids, id \in Stored PROVE id <= drawn
  <2>1. id \in Nat /\ drawn \in Nat
    BY BoundsAssumption DEF Ids, TypeOK
  <2> QED BY <1>2, <2>1 DEF Stored, Knowledge, Fresh
<1>3. ASSUME NEW id \in Ids, Mutable(id) PROVE id <= drawn /\ ~IsConfig(servers[id])
  BY <1>2, <1>3 DEF Mutable, IsConfig, IsConfigManaged
<1>4. ASSUME NEW e \in Entry, CreateChecked(r, e) PROVE Holds
  BY <1>4, ServersMade DEF CreateChecked, ToStep, TypeOK
<1>5. ASSUME NEW id \in Ids, NEW e \in Entry, GetToUpdate(r, id, e) PROVE Holds
  <2>1. UpdatedServer(e, servers[id]) = ApiServer(e)
    BY <1>5, ServersMade DEF GetToUpdate, Mutable, UpdatedServer
  <2>2. step'[r] = "check" /\ draft'[r] = [id |-> id, server |-> ApiServer(e)]
    BY <1>5, <2>1 DEF GetToUpdate, ToStep, TypeOK
  <2>3. id <= drawn /\ ~IsConfig(servers[id])
    BY <1>3, <1>5 DEF GetToUpdate
  <2> QED BY <2>2, <2>3, ServersMade
<1>6. ASSUME NEW id \in Ids, GetToDelete(r, id) PROVE Holds
  <2>1. step'[r] = "delete" /\ draft'[r].id = id
    BY <1>6 DEF GetToDelete, ToStep, TypeOK
  <2> QED BY <1>3, <1>6, <2>1 DEF GetToDelete
<1>7. CASE UpdateChecked(r)
  BY <1>7 DEF UpdateChecked, ToStep, TypeOK, Knowledge, DraftOfApi
<1>8. ASSUME NEW id \in Ids, ReadWhole(r, id) PROVE Holds
  <2>1. step'[r] = "store" /\ draft'[r] = [id |-> id, server |-> servers[id]]
    BY <1>8 DEF ReadWhole, ToStep, TypeOK
  <2>2. servers[id] \in Server
    BY <1>8 DEF ReadWhole, Stored, TypeOK
  <2> QED BY <1>2, <1>8, <2>1, <2>2 DEF ReadWhole
<1>9. CASE CreateServer(r) \/ UpdateServer(r) \/ DeleteServer(r) \/ Abandon(r)
  BY <1>9 DEF CreateServer, UpdateServer, DeleteServer, Abandon, ToStep, TypeOK
<1>10. Holds
  BY <1>4, <1>5, <1>6, <1>7, <1>8, <1>9 DEF Request
<1> QED BY <1>1, <1>10

LEMMA RequestKnows ==
  ASSUME TypeOK, Knowledge, NEW r \in Writers, Request(r)
  PROVE  Knowledge'
<1>1. Harmless /\ UNCHANGED seeding /\ Steady /\ TypeOK'
  BY RequestsAreHarmless, HarmlessIsSteady, RequestTypes DEF Knowledge
<1>2. /\ drawn \in Nat /\ drawn' \in Nat /\ drawn <= drawn' /\ NextId = drawn + 1
      /\ \A id \in Ids : id \in Nat
  BY <1>1, BoundsAssumption DEF TypeOK, Ids, NextId, Steady
<1>3. Fresh'
  BY <1>1, <1>2 DEF Harmless, Knowledge, Fresh, TypeOK, seeding, progress
<1>4. ListOwned'
  BY <1>1, ListStaysOwned DEF Knowledge, seeding, progress
<1>5. DraftOfApi' /\ CopyOwned'
  <2>1. \A id \in Ids : id <= drawn =>
          /\ ~IsConfig(servers[id]) => ~IsConfig(servers'[id])
          /\ servers'[id] # NoServer => servers'[id].managedBy = servers[id].managedBy
    BY <1>1 DEF Steady, IsConfig, IsConfigManaged
  <2>2. step'[r] \in {"check", "update", "delete"} =>
          /\ draft'[r].id \in Ids /\ draft'[r].id <= drawn'
          /\ ~IsConfig(servers'[draft'[r].id])
    BY <1>2, <2>1, RequestDrafts
  <2>3. step'[r] = "store" =>
          /\ draft'[r].id \in Ids /\ draft'[r].id <= drawn'
          /\ draft'[r].server \in Server
          /\ servers'[draft'[r].id] # NoServer =>
               servers'[draft'[r].id].managedBy = draft'[r].server.managedBy
    BY <1>2, <2>1, RequestDrafts
  <2>4. step'[r] \in {"create", "check", "update"} =>
          draft'[r].server \in Server /\ draft'[r].server.managedBy = "api"
    BY RequestDrafts
  <2>5. \A q \in Writers \ {r} : step'[q] = step[q] /\ draft'[q] = draft[q]
    BY RequestDrafts
  <2> QED BY <1>1, <2>2, <2>3, <2>4, <2>5, WritersStay DEF DraftOfApi, CopyOwned, Knowledge
<1> QED BY <1>3, <1>4, <1>5 DEF Knowledge

LEMMA WriteBackKnows ==
  ASSUME TypeOK, Knowledge, NEW r \in Writers, WriteBack(r)
  PROVE  Knowledge'
<1>1. /\ Steady /\ UNCHANGED drawn /\ TypeOK'
      /\ \A id \in Ids : servers[id] = NoServer => servers'[id] = NoServer
  BY BackIsSteady, WriteBackTypes DEF Knowledge
<1>2. UNCHANGED <<start, existing>>
  BY DEF WriteBack, progress
<1>3. Fresh' /\ ListOwned'
  BY <1>1, <1>2, ListStaysOwned DEF Knowledge, Fresh
<1>4. /\ step'[r] = "none"
      /\ \A q \in Writers \ {r} : step'[q] = step[q] /\ draft'[q] = draft[q]
  BY DEF WriteBack, ToStep, TypeOK
<1>5. DraftOfApi' /\ CopyOwned'
  BY <1>1, <1>4, WritersStay DEF Knowledge, DraftOfApi, CopyOwned
<1> QED BY <1>3, <1>5 DEF Knowledge

-----------------------------------------------------------------------------
(* Entries that have been passed                                           *)

LEMMA SeedKeepsEntries ==
  ASSUME IInv, SeedStep
  PROVE  EntriesKept'
<1>0. TypeOK /\ Knowledge /\ EntriesKept /\ Fresh /\ ListOwned
  BY DEF IInv, Knowledge
<1>1. \A i \in DOMAIN file : file[i] \in Entry /\ i \in Nat /\ i >= 1
  BY <1>0, EntriesOfFile
<1>2. CASE ListServers
  <2>1. at' = 1 /\ UNCHANGED file
    BY <1>2 DEF ListServers, FirstEntry
  <2> QED BY <1>1, <2>1 DEF EntriesKept
<1>3. CASE Seeded \/ Crash \/ (Seeding /\ Refuse(file[at]))
  BY <1>0, <1>3, OverForgets DEF Seeded, Crash, Refuse
<1>4. CASE EditConfig
  BY <1>4 DEF EditConfig, seeding, progress, EntriesKept
<1>5. ASSUME Seeding, UNCHANGED file, at' = at + 1, warned \subseteq warned', UNCHANGED undone,
             \A i \in DOMAIN file : i < at /\ Noted(i) => Noted(i)' \/ SameIdentity(file[at], file[i]),
             file[at] \in warned' \/ \E k \in Ids : /\ existing'[k] = ConfigServer(file[at])
                                                   /\ servers'[k] = ConfigServer(file[at])
      PROVE  EntriesKept'
  <2>0. at \in DOMAIN file /\ at \in Nat
    BY <1>1, <1>5 DEF Seeding
  <2>1. \A i \in DOMAIN file : i < at' => i < at \/ i = at
    BY <1>1, <1>5, <2>0
  <2>2. ASSUME NEW i \in DOMAIN file, i < at
        PROVE  file[i] \in warned' \/ Replaced(i)' \/ Noted(i)'
    <3>1. CASE file[i] \in warned
      BY <1>5, <3>1
    <3>2. CASE Replaced(i)
      <4>1. PICK j \in DOMAIN file : i < j /\ j < at /\ SameIdentity(file[j], file[i])
        BY <3>2 DEF Replaced
      <4>2. j < at'
        BY <1>1, <1>5, <2>0, <4>1
      <4> QED BY <1>5, <4>1, <4>2 DEF Replaced, SameIdentity
    <3>3. CASE Noted(i) /\ ~Noted(i)'
      <4>1. SameIdentity(file[at], file[i]) /\ at < at'
        BY <1>5, <2>0, <2>2, <3>3
      <4> QED BY <1>5, <2>0, <2>2, <4>1 DEF Replaced, SameIdentity
    <3> QED BY <1>0, <1>5, <2>2, <3>1, <3>2, <3>3 DEF EntriesKept, Seeding
  <2>3. \A i \in DOMAIN file : i = at => file[i] \in warned' \/ Noted(i)'
    BY <1>5 DEF Noted, ConfigServer
  <2> QED BY <1>5, <2>1, <2>2, <2>3 DEF EntriesKept
<1>6. CASE Seeding /\ Skip(file[at])
  BY <1>5, <1>6 DEF Skip, Noted
<1>7. CASE Seeding /\ Overwrite(file[at])
  <2>1. PICK its \in Ids : /\ SameIdentity(existing[its], file[at])
                           /\ servers' = [servers EXCEPT ![its] = ConfigServer(file[at])]
                           /\ existing' = [existing EXCEPT ![its] = ConfigServer(file[at])]
    BY <1>0, <1>7, OverwritesItsOwn
  <2>2. UNCHANGED <<file, warned, undone>> /\ at' = at + 1
    BY <1>7 DEF Overwrite
  <2>3. ASSUME NEW i \in DOMAIN file, Noted(i)
        PROVE  Noted(i)' \/ SameIdentity(file[at], file[i])
    <3>1. PICK k \in Ids : /\ existing[k] = ConfigServer(file[i])
                           /\ servers[k] = ConfigServer(file[i]) \/ file[i] \in undone
      BY <2>3 DEF Noted
    <3>2. CASE k = its
      BY <2>1, <3>1, <3>2 DEF SameIdentity, ConfigServer
    <3>3. CASE k # its
      <4>1. servers'[k] = servers[k] /\ existing'[k] = existing[k]
        BY <1>0, <2>1, <3>3 DEF TypeOK
      <4>2. /\ existing'[k] = ConfigServer(file'[i])
            /\ servers'[k] = ConfigServer(file'[i]) \/ file'[i] \in undone'
        BY <2>2, <3>1, <4>1
      <4> QED BY <4>2 DEF Noted, ConfigServer
    <3> QED BY <3>2, <3>3
  <2>4. servers'[its] = ConfigServer(file[at]) /\ existing'[its] = ConfigServer(file[at])
    BY <1>0, <2>1 DEF TypeOK
  <2> QED BY <1>5, <1>7, <2>2, <2>3, <2>4
<1>8. CASE Seeding /\ Create(file[at])
  <2>1. /\ NextId \in Ids
        /\ servers' = [servers EXCEPT ![NextId] = ConfigServer(file[at])]
        /\ existing' = [existing EXCEPT ![NextId] = ConfigServer(file[at])]
        /\ UNCHANGED <<file, warned, undone>> /\ at' = at + 1
    BY <1>8 DEF Create
  <2>2. existing[NextId] = NoServer
    BY <1>0, <2>1, NextIdUnused
  <2>3. ASSUME NEW i \in DOMAIN file, Noted(i) PROVE Noted(i)'
    <3>1. PICK k \in Ids : /\ existing[k] = ConfigServer(file[i])
                           /\ servers[k] = ConfigServer(file[i]) \/ file[i] \in undone
      BY <2>3 DEF Noted
    <3>2. k # NextId
      BY <1>1, <2>2, <3>1, ConfigServerIsConfig DEF IsConfig
    <3>3. servers'[k] = servers[k] /\ existing'[k] = existing[k]
      BY <1>0, <2>1, <3>2 DEF TypeOK
    <3> QED BY <2>1, <3>1, <3>3 DEF Noted, ConfigServer
  <2>4. /\ servers'[NextId] = ConfigServer(file[at])
        /\ existing'[NextId] = ConfigServer(file[at])
    BY <1>0, <2>1 DEF TypeOK
  <2> QED BY <1>5, <1>8, <2>1, <2>3, <2>4
<1> QED BY <1>2, <1>3, <1>4, <1>6, <1>7, <1>8 DEF SeedStep, SeedEntry

LEMMA RequestKeepsEntries ==
  ASSUME IInv, NEW r \in Writers, Request(r)
  PROVE  EntriesKept'
<1>1. /\ UNCHANGED <<file, start, at, existing, warned, undone>>
      /\ \A id \in Ids : IsConfig(servers[id]) => servers'[id] = servers[id]
  BY RequestsAreHarmless, HarmlessIsSteady DEF IInv, Knowledge, seeding, progress
<1>2. ASSUME NEW i \in DOMAIN file, Noted(i) PROVE Noted(i)'
  <2>1. PICK k \in Ids : /\ existing[k] = ConfigServer(file[i])
                         /\ servers[k] = ConfigServer(file[i]) \/ file[i] \in undone
    BY <1>2 DEF Noted
  <2>2. servers[k] = ConfigServer(file[i]) => servers'[k] = ConfigServer(file[i])
    BY <1>1, EntriesOfFile, ConfigServerIsConfig DEF IInv
  <2> QED BY <1>1, <2>1, <2>2 DEF Noted, ConfigServer
<1> QED BY <1>1, <1>2 DEF IInv, EntriesKept, Replaced, SameIdentity

LEMMA WriteBackKeepsEntries ==
  ASSUME IInv, NEW r \in Writers, WriteBack(r)
  PROVE  EntriesKept'
<1>1. UNCHANGED <<file, start, at, existing, warned>>
  BY DEF WriteBack, progress
<1>2. \A id \in Ids : servers'[id] # servers[id] => id = draft[r].id
  BY BackIsSteady DEF IInv, Knowledge
<1>3. undone' = undone \cup {e \in Passed : /\ servers[draft[r].id] = ConfigServer(e)
                                           /\ servers'[draft[r].id] # servers[draft[r].id]}
  BY DEF WriteBack
<1>4. ASSUME NEW i \in DOMAIN file, i < at, Noted(i) PROVE Noted(i)'
  <2>1. PICK k \in Ids : /\ existing[k] = ConfigServer(file[i])
                         /\ servers[k] = ConfigServer(file[i]) \/ file[i] \in undone
    BY <1>4 DEF Noted
  <2>2. file[i] \in Passed
    BY <1>4, EntriesOfFile DEF Passed, IInv
  <2>3. servers[k] = ConfigServer(file[i]) =>
          servers'[k] = ConfigServer(file[i]) \/ file[i] \in undone'
    BY <1>2, <1>3, <2>2
  <2>4. file[i] \in undone => file[i] \in undone'
    BY <1>3
  <2> QED BY <1>1, <2>1, <2>3, <2>4 DEF Noted, ConfigServer
<1> QED BY <1>1, <1>4 DEF IInv, EntriesKept, Replaced, SameIdentity

-----------------------------------------------------------------------------
(* Owners                                                                  *)

OwnerKept(id) ==
  /\ servers'[id] = NoServer => servers[id].managedBy = "api"
  /\ servers'[id] # NoServer => servers'[id].managedBy = servers[id].managedBy
  /\ servers'[id] # servers[id] =>
       IF servers[id].managedBy = "config"
       THEN SeedEntry \/ \E r \in Writers : WriteBack(r) /\ draft[r].id = id
       ELSE ~SeedEntry

LEMMA NoEntryUnlessMoving ==
  ASSUME TypeOK, UNCHANGED <<start, at>>
  PROVE  ~SeedEntry
<1>1. Seeding => start = "seeding" /\ at \in Nat /\ at + 1 # at
  BY DEF Seeding, TypeOK
<1> QED BY <1>1 DEF SeedEntry, Refuse, Over, Overwrite, Create, Skip

LEMMA OwnersStay ==
  ASSUME TypeOK, Fresh, Steady, NEW id \in Stored
  PROVE  /\ servers'[id] = NoServer => servers[id].managedBy = "api"
         /\ servers'[id] # NoServer => servers'[id].managedBy = servers[id].managedBy
<1>1. id \in Ids /\ servers[id] # NoServer /\ servers[id] \in Server
  BY DEF Stored, TypeOK
<1>2. id <= drawn
  BY <1>1, NextIdUnused DEF Fresh
<1> QED BY <1>1, <1>2 DEF Steady, Server, IsConfig, IsConfigManaged

LEMMA StepKeepsOwners ==
  IInv /\ [Next]_vars => [\A id \in Stored : OwnerKept(id)]_vars
<1> SUFFICES ASSUME IInv, Next, NEW id \in Stored PROVE OwnerKept(id)
  OBVIOUS
<1>0. TypeOK /\ Knowledge /\ Fresh /\ ListOwned
  BY DEF IInv, Knowledge
<1>1. /\ servers'[id] = NoServer => servers[id].managedBy = "api"
      /\ servers'[id] # NoServer => servers'[id].managedBy = servers[id].managedBy
  BY <1>0, StepIsSteady, OwnersStay
<1>2. id \in Ids /\ servers[id] # NoServer
  BY DEF Stored
<1>3. CASE servers'[id] = servers[id]
  BY <1>1, <1>3 DEF OwnerKept
<1>4. CASE Seeding /\ Overwrite(file[at])
  <2>1. PICK its \in Ids : /\ IsConfig(servers[its])
                           /\ servers' = [servers EXCEPT ![its] = ConfigServer(file[at])]
    BY <1>0, <1>4, OverwritesItsOwn
  <2>2. servers'[id] # servers[id] => servers[id].managedBy = "config"
    BY <1>0, <1>2, <2>1 DEF TypeOK, IsConfig, IsConfigManaged
  <2>3. SeedEntry
    BY <1>4 DEF SeedEntry
  <2> QED BY <1>1, <2>2, <2>3 DEF OwnerKept
<1>5. CASE Seeding /\ Create(file[at])
  <2>1. servers[NextId] = NoServer
    BY <1>0, <1>5, NextIdUnused DEF Create
  <2>2. servers'[id] = servers[id]
    BY <1>0, <1>2, <1>5, <2>1 DEF Create, TypeOK
  <2> QED BY <1>3, <2>2
<1>6. ASSUME NEW r \in Writers, Request(r) PROVE OwnerKept(id)
  <2>1. /\ ~SeedEntry
        /\ IsConfig(servers[id]) => servers'[id] = servers[id]
    BY <1>0, <1>2, <1>6, RequestsAreHarmless, HarmlessIsSteady, NoEntryUnlessMoving
      DEF Knowledge, seeding, progress
  <2> QED BY <1>1, <1>2, <2>1 DEF OwnerKept, IsConfig, IsConfigManaged
<1>7. ASSUME NEW r \in Writers, WriteBack(r) PROVE OwnerKept(id)
  <2>1. servers'[id] # servers[id] => draft[r].id = id
    BY <1>0, <1>2, <1>7, BackIsSteady DEF Knowledge
  <2>2. ~SeedEntry
    BY <1>0, <1>7, NoEntryUnlessMoving DEF WriteBack, progress
  <2> QED BY <1>1, <1>7, <2>1, <2>2 DEF OwnerKept
<1>8. CASE SeedStep /\ UNCHANGED servers
  BY <1>3, <1>8
<1> QED BY <1>4, <1>5, <1>6, <1>7, <1>8 DEF Next, SeedStep, ListServers, SeedEntry, Refuse,
  Skip, Seeded, Crash, EditConfig

-----------------------------------------------------------------------------
(* The invariant                                                           *)

LEMMA InitHolds == Init => IInv
<1> SUFFICES ASSUME Init PROVE IInv
  OBVIOUS
<1>1. TypeOK
  BY BoundsAssumption DEF Init, TypeOK, FirstEntry, NoDraft, NoId, Ids
<1>2. Knowledge
  BY NoServerAssumption DEF Init, Knowledge, Fresh, ListOwned, DraftOfApi, CopyOwned
<1>3. EntriesKept
  BY DEF Init, EntriesKept
<1> QED BY <1>1, <1>2, <1>3 DEF IInv

LEMMA StutterHolds == IInv /\ UNCHANGED vars => IInv'
<1> SUFFICES ASSUME IInv, UNCHANGED vars PROVE IInv'
  OBVIOUS
<1>0. UNCHANGED <<servers, drawn, file, start, at, existing, place, warned, undone, step, draft,
                  edits, faults>>
  BY DEF vars, seeding, progress, bounds
<1>1. TypeOK'
  BY <1>0 DEF IInv, TypeOK
<1>2. Knowledge'
  BY <1>0 DEF IInv, Knowledge, Fresh, ListOwned, DraftOfApi, CopyOwned
<1>3. EntriesKept'
  BY <1>0 DEF IInv, EntriesKept, Replaced, Noted, SameIdentity, ConfigServer
<1> QED BY <1>1, <1>2, <1>3 DEF IInv

LEMMA StepHolds == IInv /\ [Next]_vars => IInv'
<1> SUFFICES ASSUME IInv, [Next]_vars PROVE IInv'
  OBVIOUS
<1>0. TypeOK /\ Knowledge /\ DraftOfApi
  BY DEF IInv, Knowledge
<1>1. CASE SeedStep
  BY <1>0, <1>1, SeedTypes, SeedKnows, SeedKeepsEntries DEF IInv
<1>2. ASSUME NEW r \in Writers, Request(r) PROVE IInv'
  BY <1>0, <1>2, RequestTypes, RequestKnows, RequestKeepsEntries DEF IInv
<1>3. ASSUME NEW r \in Writers, WriteBack(r) PROVE IInv'
  BY <1>0, <1>3, WriteBackTypes, WriteBackKnows, WriteBackKeepsEntries DEF IInv
<1>4. CASE UNCHANGED vars
  BY <1>4, StutterHolds
<1> QED BY <1>1, <1>2, <1>3, <1>4 DEF Next, SeedStep

(* A start that seeds overwrites servers of the configuration only, drafts *)
(* are of the API, a copy has the owner of its row, and what a start has   *)
(* passed is where it has noted it: what seedServers relies on when it     *)
(* overwrites a server it has read before the others went on.              *)
THEOREM Invariance == Spec => []IInv
BY InitHolds, StepHolds, PTL DEF Spec

(* Every variable has its type.                                            *)
THEOREM TypeCorrect == Spec => []TypeOK
<1>1. IInv => TypeOK
  BY DEF IInv
<1> QED BY <1>1, Invariance, PTL

(* seedServers: what a start has passed is in the repository or in its     *)
(* warnings, unless a later entry has its name or host or discovery or the *)
(* health service has stored an old copy of that server since.             *)
THEOREM SeedingIsHonest == Spec => []SeededOrWarned
<1>1. IInv => SeededOrWarned
  BY DEF IInv, EntriesKept, SeededOrWarned, Noted, Applied
<1> QED BY <1>1, Invariance, PTL

(* ensureAPIServerMutable and the managed_by tests of seedServers: a       *)
(* server never changes hands and one of the configuration is never        *)
(* deleted, although all tests are made on what was read in an earlier     *)
(* call and whole rows are written back from copies of any age.            *)
THEOREM OwnersAreKept == Spec => OwnersKeep
<1>1. IInv /\ [Next]_vars =>
        [\A id \in Stored :
           /\ servers'[id] = NoServer => servers[id].managedBy = "api"
           /\ servers'[id] # NoServer => servers'[id].managedBy = servers[id].managedBy
           /\ servers'[id] # servers[id] =>
                IF servers[id].managedBy = "config"
                THEN SeedEntry \/ \E r \in Writers : WriteBack(r) /\ draft[r].id = id
                ELSE ~SeedEntry]_vars
  BY StepKeepsOwners DEF OwnerKept
<1> QED BY <1>1, Invariance, PTL DEF Spec, OwnersKeep
=============================================================================
