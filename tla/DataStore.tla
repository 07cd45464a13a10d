----------------------------- MODULE DataStore -----------------------------
(***************************************************************************)
(* The active project's database of packages/project-sync (dataStore.ts):   *)
(* setActive(), deleteDatabase() and closeAll() of one page, and the        *)
(* connections other tabs hold to the same databases.                       *)
(*                                                                          *)
(* IndexedDB serves the opens and the deletions of one database in the order *)
(* they were asked for; a deletion waits until every connection is closed.   *)
(* A connection is known by the call that opened it.                         *)
(***************************************************************************)
EXTENDS Naturals, Sequences, FiniteSets

CONSTANTS
  DataProject,   \* project ids
  NoProject,
  MaxDataCalls   \* bounds the calls

DataCall == 1..MaxDataCalls

ASSUME DataAssumption == NoProject \notin DataProject /\ MaxDataCalls \in Nat

VARIABLES
  activeProjectId,
  handleCache,   \* per project: the cached connection, or 0
  connections,   \* per project: the page's open connections
  foreign,       \* the projects whose database another tab has open
  requests,      \* per project: the calls whose open or deletion is queued
  dataCall,      \* per call: its kind, "none", "open" or "delete", and its project
  dataPc,        \* per call: "idle", "waiting", "ok", "failed"
  \* history
  tangled        \* the projects opened while an open of theirs was queued, or deleted then

dataVars ==
  <<activeProjectId, handleCache, connections, foreign, requests, dataCall, dataPc, tangled>>

DataInit ==
  /\ activeProjectId = NoProject
  /\ handleCache = [p \in DataProject |-> 0]
  /\ connections = [p \in DataProject |-> {}]
  /\ foreign = {}
  /\ requests = [p \in DataProject |-> <<>>]
  /\ dataCall = [c \in DataCall |-> [kind |-> "none", project |-> NoProject]]
  /\ dataPc = [c \in DataCall |-> "idle"]
  /\ tangled = {}

-----------------------------------------------------------------------------

FreshCall(c) == dataPc[c] = "idle" /\ \A d \in 1..c - 1 : dataPc[d] # "idle"

Opening(p) == \E i \in 1..Len(requests[p]) : dataCall[requests[p][i]].kind = "open"

Enqueue(c, kind, p) ==
  /\ dataCall' = [dataCall EXCEPT ![c] = [kind |-> kind, project |-> p]]
  /\ dataPc' = [dataPc EXCEPT ![c] = "waiting"]
  /\ requests' = [requests EXCEPT ![p] = Append(@, c)]
  /\ tangled' = IF Opening(p) THEN tangled \cup {p} ELSE tangled

\* The request of call c, the first of its queue, is answered.
Answer(c, kind, result) ==
  LET p == dataCall[c].project IN
  /\ dataPc[c] = "waiting" /\ dataCall[c].kind = kind /\ Head(requests[p]) = c
  /\ dataPc' = [dataPc EXCEPT ![c] = result]
  /\ requests' = [requests EXCEPT ![p] = Tail(@)]
  /\ UNCHANGED <<dataCall, tangled>>

\* No connection is open that a deletion, or an open with a newer version, waits for.
Unblocked(c) ==
  connections[dataCall[c].project] = {} /\ dataCall[c].project \notin foreign

\* With a cached handle setActive() only moves the pointer.
setActive(c, p) ==
  /\ FreshCall(c)
  /\ IF handleCache[p] # 0
     THEN /\ activeProjectId' = p
          /\ dataPc' = [dataPc EXCEPT ![c] = "ok"]
          /\ UNCHANGED <<requests, dataCall, tangled>>
     ELSE Enqueue(c, "open", p) /\ UNCHANGED activeProjectId
  /\ UNCHANGED <<handleCache, connections, foreign>>

\* Whatever happened meanwhile, the handle is cached and the project active.
Opened(c) ==
  LET p == dataCall[c].project IN
  /\ Answer(c, "open", "ok")
  /\ connections' = [connections EXCEPT ![p] = @ \cup {c}]
  /\ handleCache' = [handleCache EXCEPT ![p] = c]
  /\ activeProjectId' = p
  /\ UNCHANGED foreign

\* The upgrade throws: nothing is cached, no connection stays.
OpenFails(c) ==
  /\ Answer(c, "open", "failed")
  /\ UNCHANGED <<activeProjectId, handleCache, connections, foreign>>

deleteKeepsPointer(c, p) ==
  /\ FreshCall(c)
  /\ connections' = [connections EXCEPT ![p] = @ \ {handleCache[p]}]
  /\ handleCache' = [handleCache EXCEPT ![p] = 0]
  /\ Enqueue(c, "delete", p)
  /\ UNCHANGED <<activeProjectId, foreign>>

deleteKeepsOpen(c, p) ==
  /\ FreshCall(c)
  /\ handleCache' = [handleCache EXCEPT ![p] = 0]
  /\ activeProjectId' = IF activeProjectId = p THEN NoProject ELSE activeProjectId
  /\ Enqueue(c, "delete", p)
  /\ UNCHANGED <<connections, foreign>>

deleteDatabase(c, p) ==
  /\ FreshCall(c)
  /\ connections' = [connections EXCEPT ![p] = @ \ {handleCache[p]}]
  /\ handleCache' = [handleCache EXCEPT ![p] = 0]
  /\ activeProjectId' = IF activeProjectId = p THEN NoProject ELSE activeProjectId
  /\ Enqueue(c, "delete", p)
  /\ UNCHANGED foreign

\* onblocked only logs: the deletion goes on when the last connection closes.
Deleted(c) ==
  /\ Answer(c, "delete", "ok")
  /\ Unblocked(c)
  /\ UNCHANGED <<activeProjectId, handleCache, connections, foreign>>

\* onerror: the deletion is given up, and its caller told.
DeleteFails(c) ==
  /\ Answer(c, "delete", "failed")
  /\ UNCHANGED <<activeProjectId, handleCache, connections, foreign>>

closeAll ==
  /\ connections' = [p \in DataProject |-> connections[p] \ {handleCache[p]}]
  /\ handleCache' = [p \in DataProject |-> 0]
  /\ activeProjectId' = NoProject
  /\ UNCHANGED <<foreign, requests, dataCall, dataPc, tangled>>

\* Another tab opens the database, which a queued deletion delays; it need not
\* close it when it is asked to: "blocking" only logs.
ForeignOpens(p) ==
  /\ p \notin foreign /\ \A i \in 1..Len(requests[p]) : dataCall[requests[p][i]].kind # "delete"
  /\ foreign' = foreign \cup {p}
  /\ UNCHANGED <<activeProjectId, handleCache, connections, requests, dataCall, dataPc, tangled>>

ForeignCloses(p) ==
  /\ p \in foreign
  /\ foreign' = foreign \ {p}
  /\ UNCHANGED <<activeProjectId, handleCache, connections, requests, dataCall, dataPc, tangled>>

DataNext ==
  \/ \E c \in DataCall :
       \/ \E p \in DataProject : setActive(c, p) \/ deleteDatabase(c, p)
       \/ Opened(c) \/ OpenFails(c) \/ Deleted(c) \/ DeleteFails(c)
  \/ closeAll
  \/ \E p \in DataProject : ForeignOpens(p) \/ ForeignCloses(p)

\* IndexedDB answers what no connection blocks.  Other tabs may keep a database open.
DataFairness ==
  \A c \in DataCall :
    /\ WF_dataVars((Opened(c) \/ OpenFails(c)) /\ Unblocked(c))
    /\ WF_dataVars(Deleted(c))

DataSpec == DataInit /\ [][DataNext]_dataVars /\ DataFairness

-----------------------------------------------------------------------------

DataTypeOK ==
  /\ activeProjectId \in DataProject \cup {NoProject}
  /\ handleCache \in [DataProject -> 0..MaxDataCalls]
  /\ connections \in [DataProject -> SUBSET DataCall]
  /\ foreign \subseteq DataProject /\ tangled \subseteq DataProject
  /\ \A p \in DataProject : \A i \in 1..Len(requests[p]) :
       dataPc[requests[p][i]] = "waiting" /\ dataCall[requests[p][i]].project = p

\* getActiveDb() finds an open connection for the active project, through every
\* overlap of activations, deletions and closeAll().
ActiveIsOpen ==
  /\ activeProjectId # NoProject => handleCache[activeProjectId] # 0
  /\ \A p \in DataProject : handleCache[p] # 0 => handleCache[p] \in connections[p]

\* A deletion settles unless the project was being opened at the time, in which
\* case the page blocks itself, or another tab keeps its database open.
DeletionSettles ==
  \A p \in DataProject :
    (\E c \in DataCall : dataCall[c] = [kind |-> "delete", project |-> p] /\ dataPc[c] = "waiting")
      ~> (p \in tangled \cup foreign
          \/ \A c \in DataCall : dataCall[c] = [kind |-> "delete", project |-> p] => dataPc[c] # "waiting")
=============================================================================
