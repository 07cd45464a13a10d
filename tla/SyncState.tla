------------------------------ MODULE SyncState ------------------------------
(***************************************************************************)
(* The per-document sync state of packages/project-sync (syncState.ts):    *)
(* every tab keeps a map of one project's documents in memory, changes it  *)
(* synchronously, and chains one persist per change onto a queue; all tabs *)
(* put to the same IndexedDB record.                                       *)
(*                                                                         *)
(* What one setSynced() stores (driveFileId and lastSynced) is one stamp,  *)
(* the time of that call; 0 stands for null.                               *)
(***************************************************************************)
EXTENDS Naturals, Sequences, FiniteSets

CONSTANTS
    Tabs,
    Docs,
    MaxClock,     \* bound: how many documents are set synced
    MaxQueue      \* bound: how many persists of a tab are pending at one time

ASSUME StateAssumption == MaxClock \in Nat /\ MaxQueue \in Nat

VARIABLES
    states,       \* states[t][d]: this.map of tab t: status and stamp
    last,         \* last[t]: lastSyncedAtPerProject
    queue,        \* queue[t]: the updates whose persist has not settled
    putting,      \* the head of the queue has issued its put
    image,        \* image[t]: the record that put carries
    disk,         \* the `_syncStates' record, all stamps 0 when there is none
    clock,
    \* history
    failed,       \* failed[t]: the last put of tab t failed
    acked         \* acked[t][d]: the stamp of d that tab t has been told is stored

stateVars == <<states, last, queue, putting, image, disk, clock, failed, acked>>

Statuses == {"none", "pending", "syncing", "synced", "error"}
Stamps == 0..MaxClock
Records == [stamps : [Docs -> Stamps], last : Stamps]
NoRecord == [stamps |-> [d \in Docs |-> 0], last |-> 0]
Fresh == [status |-> "none", stamp |-> 0]

StateTypeOK ==
    /\ states \in [Tabs -> [Docs -> [status : Statuses, stamp : Stamps]]]
    /\ last \in [Tabs -> Stamps]
    /\ queue \in [Tabs -> Seq(Docs \X Stamps)]
    /\ putting \in [Tabs -> BOOLEAN]
    /\ image \in [Tabs -> Records]
    /\ disk \in Records
    /\ clock \in Stamps
    /\ failed \in [Tabs -> BOOLEAN]
    /\ acked \in [Tabs -> [Docs -> Stamps]]

StateInit ==
    /\ states = [t \in Tabs |-> [d \in Docs |-> Fresh]]
    /\ last = [t \in Tabs |-> 0]
    /\ queue = [t \in Tabs |-> <<>>]
    /\ putting = [t \in Tabs |-> FALSE]
    /\ image = [t \in Tabs |-> NoRecord]
    /\ disk = NoRecord
    /\ clock = 0
    /\ failed = [t \in Tabs |-> FALSE]
    /\ acked = [t \in Tabs |-> [d \in Docs |-> 0]]

-----------------------------------------------------------------------------
(* update(): the synchronous part *)

SyncedStamps(map) == {map[d].stamp : d \in {e \in Docs : map[e].status = "synced"}}

\* The latest stamp of a synced document; kept when there is none.
LastOf(map, old) ==
    LET S == SyncedStamps(map) \ {0}
    IN  IF S = {} THEN old ELSE CHOOSE s \in S : \A r \in S : r <= s

\* The tab's map becomes `map'; the persist of document d's change is queued.
Update(t, map, d, stamp) ==
    /\ Len(queue[t]) < MaxQueue
    /\ states' = [states EXCEPT ![t] = map]
    /\ last' = [last EXCEPT ![t] = LastOf(map, @)]
    /\ queue' = [queue EXCEPT ![t] = Append(@, <<d, stamp>>)]
    /\ acked' = [acked EXCEPT ![t] = [e \in Docs |-> IF map[e] = states[t][e] THEN @[e] ELSE 0]]
    /\ UNCHANGED <<putting, image, disk, failed>>

SetSynced(t, d) ==
    /\ clock < MaxClock
    /\ clock' = clock + 1
    /\ Update(t, [states[t] EXCEPT ![d] = [status |-> "synced", stamp |-> clock + 1]],
              d, clock + 1)

\* setSyncing(), setError() and updateDocument(): the stamp stays.
SetStatus(t, d, s) ==
    /\ Update(t, [states[t] EXCEPT ![d].status = s], d, 0)
    /\ UNCHANGED clock

ForgetDocument(t, d) ==
    /\ Update(t, [states[t] EXCEPT ![d] = Fresh], d, 0)
    /\ UNCHANGED clock

ClearProject(t) ==
    /\ \E d \in Docs : Update(t, [e \in Docs |-> Fresh], d, 0)
    /\ UNCHANGED clock

-----------------------------------------------------------------------------
(* persistSync(), one at a time per tab *)

StoredWithError(e) == IF e.status \in {"synced", "error"} THEN e.stamp ELSE 0
Stored(e) == IF e.status = "synced" THEN e.stamp ELSE 0

\* Only synced documents are stored; the record goes when there is none.
Persisted(t) ==
    LET stamps == [d \in Docs |-> Stored(states[t][d])]
    IN  IF \A d \in Docs : stamps[d] = 0 THEN NoRecord
        ELSE [stamps |-> stamps, last |-> last[t]]

ImageOfHead(t) ==
    [stamps |-> [d \in Docs |-> IF d = Head(queue[t])[1] THEN Stored(states[t][d]) ELSE 0],
     last |-> last[t]]
Image(t) == Persisted(t)

ReadyUnlessFailed(t) == queue[t] # <<>> /\ ~putting[t] /\ ~failed[t]
Ready(t) == queue[t] # <<>> /\ ~putting[t]

\* The map is read when the persist gets its turn, not when it was queued.
Put(t) ==
    /\ Ready(t)
    /\ putting' = [putting EXCEPT ![t] = TRUE]
    /\ image' = [image EXCEPT ![t] = Image(t)]
    /\ UNCHANGED <<states, last, queue, disk, clock, failed, acked>>

Settle(t) ==
    /\ putting[t]
    /\ putting' = [putting EXCEPT ![t] = FALSE]
    /\ image' = [image EXCEPT ![t] = NoRecord]
    /\ queue' = [queue EXCEPT ![t] = Tail(@)]
    /\ UNCHANGED <<states, last, clock>>

\* The stamp of the head of the queue, if its document has not changed since.
StillCurrent(t) ==
    LET d == Head(queue[t])[1]
        s == Head(queue[t])[2]
    IN  s # 0 /\ states[t][d].status = "synced" /\ states[t][d].stamp = s

PutLands(t) ==
    /\ Settle(t)
    /\ disk' = image[t]
    /\ failed' = [failed EXCEPT ![t] = FALSE]
    /\ acked' = IF StillCurrent(t)
                THEN [acked EXCEPT ![t][Head(queue[t])[1]] = Head(queue[t])[2]]
                ELSE acked

\* The error is logged; the update resolves and the queue goes on.
PutFails(t) ==
    /\ Settle(t)
    /\ failed' = [failed EXCEPT ![t] = TRUE]
    /\ UNCHANGED <<disk, acked>>

\* The tab is closed and opened again: init() loads the record.
LoadedStatus(s) == IF s = 0 THEN "none" ELSE "synced"

Reload(t) ==
    /\ states' = [states EXCEPT ![t] =
                    [d \in Docs |-> [status |-> LoadedStatus(disk.stamps[d]),
                                     stamp |-> disk.stamps[d]]]]
    /\ last' = [last EXCEPT ![t] = disk.last]
    /\ queue' = [queue EXCEPT ![t] = <<>>]
    /\ putting' = [putting EXCEPT ![t] = FALSE]
    /\ image' = [image EXCEPT ![t] = NoRecord]
    /\ failed' = [failed EXCEPT ![t] = FALSE]
    /\ UNCHANGED <<disk, clock, acked>>

TabStep(t) ==
    \/ \E d \in Docs : SetSynced(t, d) \/ ForgetDocument(t, d)
    \/ \E d \in Docs, s \in {"pending", "syncing", "error"} : SetStatus(t, d, s)
    \/ ClearProject(t)
    \/ Put(t) \/ PutLands(t) \/ PutFails(t)
    \/ Reload(t)

StateNext == \E t \in Tabs : TabStep(t)

StateSpec == StateInit /\ [][StateNext]_stateVars

\* getDb() and a put settle, with or without an error.
StateFairness == \A t \in Tabs : WF_stateVars(Put(t)) /\ WF_stateVars(PutLands(t) \/ PutFails(t))

FairStateSpec == StateSpec /\ StateFairness

-----------------------------------------------------------------------------
(* Properties *)

\* Of one tab: when all its updates have settled and the last put did not fail,
\* the record holds exactly the synced documents of the map, whatever puts
\* failed before: no forgotten, pending or failed document is left in it and no
\* synced one is missing.
SettledRecordIsMap ==
    \A t \in Tabs : queue[t] = <<>> /\ ~failed[t] =>
        \A d \in Docs : disk.stamps[d] =
            IF states[t][d].status = "synced" THEN states[t][d].stamp ELSE 0

\* Of one tab: a file id that has been acknowledged as stored stays stored, and
\* survives a reload, until its own document changes: the changes of other
\* documents, however they overlap and fail, do not clobber it.
AckedIsStored ==
    \A t \in Tabs, d \in Docs : acked[t][d] # 0 =>
        /\ disk.stamps[d] = acked[t][d]
        /\ states[t][d].stamp = acked[t][d]

\* A failed put does not wedge the queue: one that is full moves on.
QueueMoves == \A t \in Tabs : Len(queue[t]) = MaxQueue ~> Len(queue[t]) < MaxQueue
==============================================================================
