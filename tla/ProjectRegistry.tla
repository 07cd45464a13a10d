-------------------------- MODULE ProjectRegistry --------------------------
(***************************************************************************)
(* The project registry of packages/project-sync (registry.ts): the        *)
(* `projects' and `_syncStates' stores of one profile's IndexedDB, changed  *)
(* by any number of calls in any number of tabs.                            *)
(*                                                                          *)
(* Each await of a method is one transaction and one step here; the name    *)
(* check and the write of create() and rename() are two transactions.  A    *)
(* project is the name it has; ids are numbers in the order of creation,    *)
(* which is the order of the primary keys.                                  *)
(***************************************************************************)
EXTENDS Naturals, FiniteSets

CONSTANTS
  ProjectName,   \* names as typed: <<the name in lower case, its spelling>>
  Blank,         \* the one of white space
  MaxProjects,   \* bounds the projects ever created
  MaxRegCalls    \* bounds the calls

Project == 1..MaxProjects
RegCall == 1..MaxRegCalls
Absent == <<>>

ASSUME RegAssumption ==
  /\ MaxProjects \in Nat /\ MaxRegCalls \in Nat
  /\ Blank \in ProjectName /\ Absent \notin ProjectName

VARIABLES
  projects,    \* the store: per id the record's name, or Absent
  syncRows,    \* the ids with a row in _syncStates
  regCall,     \* per call: where it is, its project, its name, the record it read
  nextId,      \* the ids up to it have been generated
  \* history
  met,         \* pairs of calls of which one checked while the other had yet to write
  writer,      \* per id: the call that wrote its name last
  shared,      \* the pairs of projects that have had a name in common, with that name
  revivers     \* per id: the renames that had read the record when it was removed

regVars == <<projects, syncRows, regCall, nextId, met, writer, shared, revivers>>

IdleCall == [pc |-> "idle", id |-> 0, name |-> Blank]

RegInit ==
  /\ projects = [i \in Project |-> Absent]
  /\ syncRows = {}
  /\ regCall = [c \in RegCall |-> IdleCall]
  /\ nextId = 0
  /\ met = {}
  /\ writer = [i \in Project |-> 0]
  /\ shared = {}
  /\ revivers = [i \in Project |-> {}]

-----------------------------------------------------------------------------

\* normalizeProjectName(): trimmed and in lower case, the names of one project.
normalizeProjectName(name) == name[1]

\* getFromIndex('by-name-key'): the first record, in key order, or 0.
HoldersAsTyped(name) == {i \in Project : projects[i] = name}
Holders(name) ==
  {i \in Project : projects[i] # Absent /\ normalizeProjectName(projects[i]) = normalizeProjectName(name)}
Existing(name) ==
  IF Holders(name) = {} THEN 0 ELSE CHOOSE i \in Holders(name) : \A j \in Holders(name) : i <= j

SameName(i, j) ==
  /\ projects[i] # Absent /\ projects[j] # Absent
  /\ normalizeProjectName(projects[i]) = normalizeProjectName(projects[j])

\* History: what two projects share after the step is recorded.
CommonName(i, j) == <<{i, j}, normalizeProjectName(projects[i])>>
Sharing == {CommonName(p[1], p[2]) : p \in {q \in Project \X Project : q[1] # q[2] /\ SameName(q[1], q[2])}}
Shares == shared' = shared \cup Sharing'

Goto(c, pc) == regCall' = [regCall EXCEPT ![c].pc = pc]

\* The calls that have checked a name and not yet written it.
Claiming == {c \in RegCall : regCall[c].pc \in {"add", "put"}}

\* The name check that create() and rename() share: the call goes on to write,
\* or fails with "already exists".
Check(c, pc, write) ==
  /\ regCall[c].pc = pc
  /\ IF Existing(regCall[c].name) \in {0, regCall[c].id}
     THEN Goto(c, write) /\ met' = met \cup ({c} \X Claiming) \cup (Claiming \X {c})
     ELSE Goto(c, "failed") /\ UNCHANGED met
  /\ UNCHANGED <<projects, syncRows, nextId, writer, shared, revivers>>

Started(c) == regCall[c].pc = "idle" /\ \A d \in 1..c - 1 : regCall[d].pc # "idle"

\* validateProjectName() comes first in both.
create(c, name) ==
  /\ Started(c)
  /\ regCall' = [regCall EXCEPT ![c] =
       [pc |-> IF name = Blank THEN "failed" ELSE "createCheck", id |-> 0, name |-> name]]
  /\ UNCHANGED <<projects, syncRows, nextId, met, writer, shared, revivers>>

CreateCheck(c) == Check(c, "createCheck", "add")

CreateAdd(c) ==
  /\ regCall[c].pc = "add" /\ nextId < MaxProjects
  /\ nextId' = nextId + 1
  /\ projects' = [projects EXCEPT ![nextId + 1] = regCall[c].name]
  /\ writer' = [writer EXCEPT ![nextId + 1] = c]
  /\ Goto(c, "ok")
  /\ Shares
  /\ UNCHANGED <<syncRows, met, revivers>>

rename(c, id, name) ==
  /\ Started(c) /\ id <= nextId
  /\ regCall' = [regCall EXCEPT ![c] =
       [pc |-> IF name = Blank THEN "failed" ELSE "renameGet", id |-> id, name |-> name]]
  /\ UNCHANGED <<projects, syncRows, nextId, met, writer, shared, revivers>>

\* Reads the record, which the put writes back whole.
RenameGetAny(c) ==
  /\ regCall[c].pc = "renameGet"
  /\ Goto(c, "renameCheck")
  /\ UNCHANGED <<projects, syncRows, nextId, met, writer, shared, revivers>>

RenameGet(c) ==
  /\ regCall[c].pc = "renameGet"
  /\ Goto(c, IF projects[regCall[c].id] = Absent THEN "failed" ELSE "renameCheck")
  /\ UNCHANGED <<projects, syncRows, nextId, met, writer, shared, revivers>>

RenameCheck(c) == Check(c, "renameCheck", "put")

RenamePut(c) ==
  /\ regCall[c].pc = "put"
  /\ projects' = [projects EXCEPT ![regCall[c].id] = regCall[c].name]
  /\ writer' = [writer EXCEPT ![regCall[c].id] = c]
  /\ Goto(c, "ok")
  /\ Shares
  /\ UNCHANGED <<syncRows, nextId, met, revivers>>

remove(c, id) ==
  /\ Started(c) /\ id <= nextId
  /\ regCall' = [regCall EXCEPT ![c] = [pc |-> "remove", id |-> id, name |-> Blank]]
  /\ UNCHANGED <<projects, syncRows, nextId, met, writer, shared, revivers>>

RemoveProject(c) ==
  /\ regCall[c].pc = "remove"
  /\ projects' = [projects EXCEPT ![regCall[c].id] = Absent]
  /\ revivers' = [revivers EXCEPT ![regCall[c].id] =
       {d \in RegCall : regCall[d].id = regCall[c].id /\ regCall[d].pc \in {"renameCheck", "put"}}]
  /\ Goto(c, "removeState")
  /\ UNCHANGED <<syncRows, nextId, met, writer, shared>>

RemoveState(c) ==
  /\ regCall[c].pc = "removeState"
  /\ syncRows' = syncRows \ {regCall[c].id}
  /\ Goto(c, "ok")
  /\ UNCHANGED <<projects, nextId, met, writer, shared, revivers>>

\* SyncStateManager puts the row of a project it knows, removed or not.
SaveState(id) ==
  /\ id <= nextId
  /\ syncRows' = syncRows \cup {id}
  /\ UNCHANGED <<projects, regCall, nextId, met, writer, shared, revivers>>

\* The tab is closed between two transactions of a call.
CutOff(c) ==
  /\ regCall[c].pc \notin {"idle", "ok", "failed"}
  /\ Goto(c, "failed")
  /\ UNCHANGED <<projects, syncRows, nextId, met, writer, shared, revivers>>

RegNext ==
  \/ \E c \in RegCall :
       \/ \E name \in ProjectName : create(c, name) \/ \E id \in Project : rename(c, id, name)
       \/ \E id \in Project : remove(c, id)
       \/ CreateCheck(c) \/ CreateAdd(c) \/ RenameGet(c) \/ RenameCheck(c) \/ RenamePut(c)
       \/ RemoveProject(c) \/ RemoveState(c) \/ CutOff(c)
  \/ \E id \in Project : SaveState(id)

RegSpec == RegInit /\ [][RegNext]_regVars

-----------------------------------------------------------------------------

RegTypeOK ==
  /\ projects \in [Project -> ProjectName \cup {Absent}]
  /\ syncRows \subseteq 1..nextId
  /\ \A c \in RegCall : regCall[c].id \in 0..nextId /\ regCall[c].name \in ProjectName
  /\ \A i \in Project : i > nextId => projects[i] = Absent

\* Two projects come to share a name for the first time only if the calls that gave
\* it to them overlapped: neither had written when the other checked.  Twins so made
\* may part and, by a rename checked before, come together again.
NamesSharedByRace ==
  [][\A i, j \in Project :
       i # j /\ SameName(i, j)' /\ CommonName(i, j)' \notin shared
         => <<writer[i], writer[j]>>' \in met']_regVars

\* A project that was removed stays removed, unless a rename that had read it
\* before writes it back.
RemovedStaysRemoved ==
  [][\A i \in 1..nextId :
       projects[i] = Absent /\ projects'[i] # Absent => writer'[i] \in revivers[i]]_regVars
=============================================================================
