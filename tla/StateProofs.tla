------------------------------ MODULE StateProofs -----------------------------
(***************************************************************************)
(* Proofs about the state of syncs and connections and about how it is     *)
(* shown: StatusObservable (the status of the syncs), MergedStatus (that   *)
(* of a connection, in the hooks), SyncState (the map of the documents and *)
(* its record in IndexedDB) and DriveAuth (the connect of the widget).     *)
(***************************************************************************)
EXTENDS StatusObservable, MergedStatus, SyncState, DriveAuth, TLAPS, WellFoundedInduction,
        FiniteSetTheorems

\* A set of numbers that is not empty has a least one.
LEMMA LeastNumber ==
  ASSUME NEW S, S \subseteq Nat, S # {}
  PROVE  \E m \in S : \A n \in S : m <= n
  <1>1. PICK m \in S : \A n \in S : <<n, m>> \notin OpToRel(<, Nat)
    BY NatLessThanWellFounded, WFMin, Zenon
  <1>2. \A n \in S : n \in Nat /\ m \in Nat /\ ~(n < m)
    BY <1>1 DEF OpToRel
  <1>3. QED
    BY <1>2

-----------------------------------------------------------------------------
(* StatusObservable                                                        *)

StatusIInv == StatusTypeOK /\ StatusTruthful /\ DOMAIN told = Subscribers

\* The engine starts idle and has told nobody.
LEMMA StatusInitIInv == StatusInit => StatusIInv
  <1> SUFFICES ASSUME StatusInit PROVE StatusIInv
    OBVIOUS
  <1> USE StatusAssumption DEF StatusInit
  <1>1. StatusTypeOK /\ DOMAIN told = Subscribers
    BY DEF StatusTypeOK
  <1>2. Snapshot = currentStatus
    BY DEF Snapshot
  <1>3. StatusTruthful
    BY <1>2 DEF StatusTruthful
  <1>4. QED
    BY <1>1, <1>3 DEF StatusIInv

\* Whatever snapshot emitIfChanged() goes on with has the value of the fields, and
\* every subscriber has it.
LEMMA EmittedIsCurrent ==
  ASSUME StatusIInv, emitIfChanged, UNCHANGED callbacks
  PROVE  /\ Value(currentStatus)' = Value(Snapshot)'
         /\ \A s \in callbacks' : told'[s] = currentStatus'
         /\ DOMAIN told' = Subscribers
  <1>1. currentStatus' = IF Reused(Snapshot') THEN lastSnapshot ELSE Snapshot'
    BY DEF emitIfChanged
  <1>2. Reused(Snapshot') => Value(Snapshot') = Value(lastSnapshot)
    BY DEF Reused
  <1>3. Value(currentStatus') = Value(Snapshot')
    BY <1>1, <1>2
  <1>4. \A s \in callbacks' : told'[s] = currentStatus'
    BY DEF emitIfChanged, StatusIInv, StatusTypeOK, StatusTruthful
  <1>5. DOMAIN told' = Subscribers
    BY DEF emitIfChanged
  <1>6. QED
    BY <1>3, <1>4, <1>5 DEF Value

\* Every event of the engine and every reading of the hook keep the invariant.
LEMMA StatusStepIInv == StatusIInv /\ [StatusNext]_statusVars => StatusIInv'
  <1> SUFFICES ASSUME StatusIInv, [StatusNext]_statusVars
               PROVE  StatusIInv'
    OBVIOUS
  <1> USE StatusAssumption DEF StatusTypeOK
  <1>1. CASE markSyncStart
    <2>1. StatusTypeOK'
      BY <1>1 DEF markSyncStart, Mark, StatusIInv
    <2>2. QED
      BY <1>1, <2>1, EmittedIsCurrent DEF markSyncStart, StatusIInv, StatusTruthful
  <1>2. ASSUME NEW final \in {"idle", "error"}, Ends(final),
               IF final = "idle" THEN lastError' = NoError ELSE lastError' \in Failure,
               UNCHANGED callbacks, emitIfChanged
        PROVE  StatusIInv'
    <2>1. StatusTypeOK'
      BY <1>2 DEF Ends, Mark, StatusIInv
    <2>2. phase' = IF underway' > 0 THEN "syncing" ELSE final
      BY <1>2 DEF Ends, StatusIInv
    <2>3. QED
      BY <1>2, <2>1, <2>2, EmittedIsCurrent DEF StatusIInv, StatusTruthful
  <1>3. CASE markSyncEnd
    BY <1>2, <1>3 DEF markSyncEnd
  <1>4. ASSUME NEW error \in Failure, markSyncError(error)
        PROVE  StatusIInv'
    BY <1>2, <1>4 DEF markSyncError
  <1>5. ASSUME NEW conflicts, setConflicts(conflicts)
        PROVE  StatusIInv'
    <2>1. StatusTypeOK'
      BY <1>5 DEF setConflicts, Mark, StatusIInv
    <2>2. QED
      BY <1>5, <2>1, EmittedIsCurrent DEF setConflicts, StatusIInv, StatusTruthful
  <1>6. CASE clearReauth \/ Poll
    <2>1. StatusTypeOK'
      BY <1>6 DEF clearReauth, Poll, Mark, StatusIInv
    <2>2. QED
      BY <1>6, <2>1, EmittedIsCurrent DEF clearReauth, Poll, StatusIInv, StatusTruthful
  <1>7. ASSUME NEW s \in Subscribers, subscribe(s) \/ unsubscribe(s)
        PROVE  StatusIInv'
    BY <1>7 DEF subscribe, unsubscribe, StatusIInv, StatusTruthful, Value, Snapshot
  <1>8. CASE destroy
    BY <1>8 DEF destroy, StatusIInv, StatusTruthful, Value, Snapshot
  <1>9. CASE UNCHANGED statusVars
    BY <1>9 DEF statusVars, StatusIInv, StatusTruthful, Value, Snapshot
  <1>10. QED
    BY <1>1, <1>3, <1>4, <1>5, <1>6, <1>7, <1>8, <1>9 DEF StatusNext

\* Whatever snapshot is reused, subscribers have been handed what the fields say.
THEOREM StatusTruthfulHolds == StatusSpec => []StatusTruthful
  <1>1. StatusSpec => []StatusIInv
    BY StatusInitIInv, StatusStepIInv, PTL DEF StatusSpec
  <1>2. QED
    BY <1>1, PTL DEF StatusIInv

\* The fields of the engine keep their types, whoever subscribes and when.
THEOREM StatusTypeCorrect == StatusSpec => []StatusTypeOK
  <1>1. StatusSpec => []StatusIInv
    BY StatusInitIInv, StatusStepIInv, PTL DEF StatusSpec
  <1>2. QED
    BY <1>1, PTL DEF StatusIInv

-----------------------------------------------------------------------------
(* MergedStatus                                                            *)

\* A cached status is the current one, unless a change was missed.
CacheCurrent == merged # NotYet => merged = computeMerged \/ missed

MergedIInv ==
  /\ MergedTypeOK /\ CacheCurrent /\ ShownStatusCurrent
  /\ DOMAIN shown = Hook /\ missed \in BOOLEAN

\* The merged status is never the mark of one not computed yet.
LEMMA ComputedIsSet == computeMerged # NotYet
  <1>1. "error" \in DOMAIN computeMerged /\ "error" \notin DOMAIN NotYet
    BY DEF computeMerged, NotYet
  <1>2. QED
    BY <1>1

\* The hooks start before the first status is computed.
LEMMA MergedInitIInv == MergedInit => MergedIInv
  <1> SUFFICES ASSUME MergedInit PROVE MergedIInv
    OBVIOUS
  <1>1. MergedTypeOK
    BY DEF MergedInit, MergedTypeOK, Connections, Overlays
  <1>2. CacheCurrent /\ ShownStatusCurrent /\ missed \in BOOLEAN
    BY DEF MergedInit, CacheCurrent, ShownStatusCurrent
  <1>3. DOMAIN shown = Hook
    BY DEF MergedInit
  <1>4. QED
    BY <1>1, <1>2, <1>3 DEF MergedIInv

\* What notify() of the subscribers keeps, whatever has changed.
LEMMA NotifyKeeps ==
  ASSUME MergedIInv, Notify, linked' \in Connections, snapshot' \in Overlays
  PROVE  MergedIInv'
  <1> USE DEF MergedIInv, Notify, MergedTypeOK, CacheCurrent, ShownStatusCurrent
  <1>1. CASE listening = {}
    BY <1>1
  <1>2. CASE listening # {}
    <2>1. merged' = computeMerged' /\ merged' # NotYet
      <3>1. computeMerged' # NotYet
        <4>1. "error" \in DOMAIN computeMerged' /\ "error" \notin DOMAIN NotYet
          BY DEF computeMerged, NotYet
        <4>2. QED
          BY <4>1
      <3>2. QED
        BY <1>2, <3>1 DEF NotYet
    <2>2. QED
      BY <1>2, <2>1
  <1>3. QED
    BY <1>1, <1>2

\* Every step keeps what the hooks show current.
LEMMA MergedStepIInv == MergedIInv /\ [MergedNext]_mergedVars => MergedIInv'
  <1> SUFFICES ASSUME MergedIInv, [MergedNext]_mergedVars
               PROVE  MergedIInv'
    OBVIOUS
  <1>1. ASSUME NEW next \in Overlays, patch(next)
        PROVE  MergedIInv'
    BY <1>1, NotifyKeeps DEF patch, MergedIInv, MergedTypeOK
  <1>2. ASSUME NEW conn \in Connections, connectionChanges(conn)
        PROVE  MergedIInv'
    BY <1>2, NotifyKeeps DEF connectionChanges, MergedIInv, MergedTypeOK
  <1> USE DEF MergedIInv, MergedTypeOK, CacheCurrent, ShownStatusCurrent
  <1>3. ASSUME NEW h \in Hook, Mount(h)
        PROVE  MergedIInv'
    <2>1. computeMerged' = computeMerged
      BY <1>3 DEF Mount, computeMerged
    <2>2. merged' # NotYet /\ (merged # NotYet => merged' = merged)
          /\ (merged = NotYet => merged' = computeMerged)
      BY <1>3, ComputedIsSet DEF Mount
    <2>3. /\ linked' = linked /\ snapshot' = snapshot /\ missed' = missed
          /\ listening' = listening \cup {h} /\ shown' = [shown EXCEPT ![h] = merged']
      BY <1>3 DEF Mount
    <2>4. \A k \in listening' : shown'[k] = merged'
      BY <2>2, <2>3
    <2>5. merged' = computeMerged' \/ missed'
      BY <2>1, <2>2, <2>3
    <2>6. QED
      BY <2>2, <2>3, <2>4, <2>5
  <1>4. ASSUME NEW h \in Hook, Unmount(h)
        PROVE  MergedIInv'
    BY <1>4 DEF Unmount, computeMerged
  <1>5. CASE UNCHANGED mergedVars
    BY <1>5 DEF mergedVars, computeMerged
  <1>6. QED
    BY <1>1, <1>2, <1>3, <1>4, <1>5 DEF MergedNext

\* The hooks show one status, the current one unless a change was missed while none
\* was mounted.
THEOREM ShownStatusCurrentHolds == MergedSpec => []ShownStatusCurrent
  <1>1. MergedSpec => []MergedIInv
    BY MergedInitIInv, MergedStepIInv, PTL DEF MergedSpec
  <1>2. QED
    BY <1>1, PTL DEF MergedIInv

\* The connections, overlays and cached statuses of a page keep their types.
THEOREM MergedTypeCorrect == MergedSpec => []MergedTypeOK
  <1>1. MergedSpec => []MergedIInv
    BY MergedInitIInv, MergedStepIInv, PTL DEF MergedSpec
  <1>2. QED
    BY <1>1, PTL DEF MergedIInv

-----------------------------------------------------------------------------
(* SyncState                                                               *)

\* A set of stamps that is not empty has a latest one.
LEMMA LatestStamp ==
  ASSUME NEW S, S \subseteq Stamps, S # {}
  PROVE  \E m \in S : \A n \in S : n <= m
  <1> DEFINE Left == {n \in Nat : MaxClock - n \in S}
  <1>1. \A s \in S : s \in Nat /\ MaxClock - s \in Nat /\ MaxClock - (MaxClock - s) = s
    BY StateAssumption DEF Stamps
  <1>2. Left # {} /\ Left \subseteq Nat
    BY <1>1
  <1>3. PICK m \in Left : \A n \in Left : m <= n
    BY <1>2, LeastNumber
  <1>4. \A s \in S : s <= MaxClock - m
    <2> SUFFICES ASSUME NEW s \in S PROVE s <= MaxClock - m
      OBVIOUS
    <2>1. MaxClock - s \in Left
      BY <1>1
    <2>2. m <= MaxClock - s
      BY <1>3, <2>1
    <2>3. QED
      BY <1>1, <2>2, StateAssumption
  <1>5. QED
    BY <1>3, <1>4

Maps == [Docs -> [status : Statuses, stamp : Stamps]]

\* The last record of a queue is one of its records.
LEMMA LastOfType ==
  ASSUME NEW map \in Maps, NEW old \in Stamps
  PROVE  LastOf(map, old) \in Stamps
  <1> DEFINE S == SyncedStamps(map) \ {0}
  <1>1. S \subseteq Stamps
    BY DEF SyncedStamps, Maps
  <1>2. CASE S = {}
    BY <1>2 DEF LastOf
  <1>3. CASE S # {}
    <2>1. \E m \in S : \A n \in S : n <= m
      BY <1>1, <1>3, LatestStamp
    <2> HIDE DEF S
    <2>2. (CHOOSE m \in S : \A n \in S : n <= m) \in S
      BY <2>1
    <2>3. QED
      BY <1>1, <1>3, <2>2 DEF LastOf, S
  <1>4. QED
    BY <1>2, <1>3

\* The map and the record start in their types.
LEMMA StateInitType == StateInit => StateTypeOK
  <1> SUFFICES ASSUME StateInit PROVE StateTypeOK
    OBVIOUS
  <1> USE StateAssumption
  <1>1. 0 \in Stamps /\ NoRecord \in Records /\ Fresh \in [status : Statuses, stamp : Stamps]
    BY DEF Stamps, NoRecord, Records, Fresh, Statuses
  <1>2. <<>> \in Seq(Docs \X Stamps)
    OBVIOUS
  <1>3. QED
    BY <1>1, <1>2 DEF StateInit, StateTypeOK

\* What update() keeps: the map and its last stamp change together, the persist of one
\* document is queued.
LEMMA UpdateTypes ==
  ASSUME StateTypeOK, NEW t \in Tabs, NEW map \in Maps, NEW d \in Docs, NEW stamp \in Stamps,
         Update(t, map, d, stamp), clock' \in Stamps
  PROVE  StateTypeOK'
  <1> USE StateAssumption
  <1>1. states' \in [Tabs -> Maps]
    BY DEF Update, StateTypeOK, Maps
  <1>2. last' \in [Tabs -> Stamps]
    BY LastOfType DEF Update, StateTypeOK
  <1>3. queue' \in [Tabs -> Seq(Docs \X Stamps)]
    BY DEF Update, StateTypeOK
  <1>4. acked' \in [Tabs -> [Docs -> Stamps]]
    <2>1. 0 \in Stamps
      BY DEF Stamps
    <2>2. QED
      BY <2>1 DEF Update, StateTypeOK
  <1>5. QED
    BY <1>1, <1>2, <1>3, <1>4 DEF Update, StateTypeOK, Maps

\* The synchronous changes of a tab's map, and what they leave of its documents.
Changes(t) ==
  \E map \in Maps, d \in Docs, stamp \in Stamps :
    /\ Update(t, map, d, stamp)
    /\ clock' \in Stamps /\ clock <= clock'
    /\ stamp <= clock'
    /\ \A e \in Docs : \/ map[e] = states[t][e]
                       \/ map[e].status # "synced"
                       \/ map[e].status = "synced" /\ map[e].stamp > clock

\* An update of the map changes one document of it.
LEMMA UpdatesChange ==
  ASSUME StateTypeOK, NEW t \in Tabs,
         \/ \E d \in Docs : SetSynced(t, d) \/ ForgetDocument(t, d)
         \/ \E d \in Docs, s \in {"pending", "syncing", "error"} : SetStatus(t, d, s)
         \/ ClearProject(t)
  PROVE  Changes(t)
  <1> USE StateAssumption DEF Maps, Stamps
  <1>0. Fresh \in [status : Statuses, stamp : Stamps] /\ Fresh.status # "synced" /\ clock \in Stamps
        /\ states[t] \in Maps
    BY DEF Fresh, Statuses, StateTypeOK
  <1>1. ASSUME NEW d \in Docs, SetSynced(t, d)
        PROVE  Changes(t)
    <2> DEFINE map == [states[t] EXCEPT ![d] = [status |-> "synced", stamp |-> clock + 1]]
    <2>1. clock + 1 \in Stamps /\ clock' = clock + 1
      BY <1>0, <1>1 DEF SetSynced
    <2>2. map \in Maps
      BY <1>0, <2>1 DEF Statuses
    <2>3. \A e \in Docs : map[e] = states[t][e] \/ map[e].stamp > clock
      BY <1>0, <2>1
    <2>4. \A e \in Docs : map[e] = states[t][e] \/ map[e].status = "synced"
      BY <1>0
    <2>5. QED
      BY <1>0, <1>1, <2>1, <2>2, <2>3, <2>4 DEF SetSynced, Changes
  <1>2. ASSUME NEW d \in Docs, ForgetDocument(t, d)
        PROVE  Changes(t)
    <2> DEFINE map == [states[t] EXCEPT ![d] = Fresh]
    <2>1. map \in Maps /\ \A e \in Docs : map[e] = states[t][e] \/ map[e].status # "synced"
      BY <1>0
    <2>2. Update(t, map, d, 0) /\ clock' = clock /\ 0 \in Stamps
      BY <1>0, <1>2 DEF ForgetDocument
    <2>3. QED
      BY <1>0, <2>1, <2>2 DEF Changes
  <1>3. ASSUME NEW d \in Docs, NEW s \in {"pending", "syncing", "error"}, SetStatus(t, d, s)
        PROVE  Changes(t)
    <2> DEFINE map == [states[t] EXCEPT ![d].status = s]
    <2>1. map \in Maps /\ \A e \in Docs : map[e] = states[t][e] \/ map[e].status # "synced"
      BY <1>0 DEF Statuses
    <2>2. Update(t, map, d, 0) /\ clock' = clock /\ 0 \in Stamps
      BY <1>0, <1>3 DEF SetStatus
    <2>3. QED
      BY <1>0, <2>1, <2>2 DEF Changes
  <1>4. CASE ClearProject(t)
    <2> DEFINE map == [e \in Docs |-> Fresh]
    <2>1. map \in Maps /\ \A e \in Docs : map[e].status # "synced"
      BY <1>0
    <2>2. PICK d \in Docs : Update(t, map, d, 0)
      BY <1>4 DEF ClearProject
    <2>3. clock' = clock /\ 0 \in Stamps
      BY <1>0, <1>4 DEF ClearProject
    <2>4. QED
      BY <1>0, <2>1, <2>2, <2>3 DEF Changes
  <1>5. QED
    BY <1>1, <1>2, <1>3, <1>4

\* A step of a tab is a change of its map, a step of a persist, or a reload.
LEMMA TabStepKinds ==
  ASSUME StateTypeOK, NEW t \in Tabs, TabStep(t)
  PROVE  Changes(t) \/ Put(t) \/ PutLands(t) \/ PutFails(t) \/ Reload(t)
  BY UpdatesChange DEF TabStep

\* What is written to the record has its type.
LEMMA PersistedType ==
  ASSUME StateTypeOK, NEW t \in Tabs
  PROVE  /\ Persisted(t) \in Records
         /\ \A d \in Docs : Persisted(t).stamps[d] = Stored(states[t][d])
  <1> DEFINE stamps == [d \in Docs |-> Stored(states[t][d])]
  <1>1. stamps \in [Docs -> Stamps] /\ 0 \in Stamps
    BY StateAssumption DEF StateTypeOK, Stored, Stamps
  <1>2. CASE \A d \in Docs : stamps[d] = 0
    BY <1>1, <1>2 DEF Persisted, NoRecord, Records
  <1>3. CASE ~ \A d \in Docs : stamps[d] = 0
    BY <1>1, <1>3 DEF Persisted, Records, StateTypeOK
  <1>4. QED
    BY <1>2, <1>3

\* No step leaves the types.
LEMMA StateStepType == StateTypeOK /\ (\A t \in Tabs : putting[t] => queue[t] # <<>>)
                         /\ [StateNext]_stateVars => StateTypeOK'
  <1> SUFFICES ASSUME StateTypeOK, \A t \in Tabs : putting[t] => queue[t] # <<>>,
                      [StateNext]_stateVars
               PROVE  StateTypeOK'
    OBVIOUS
  <1>1. ASSUME NEW t \in Tabs, Changes(t)
        PROVE  StateTypeOK'
    BY <1>1, UpdateTypes DEF Changes
  <1>2. ASSUME NEW t \in Tabs, Put(t)
        PROVE  StateTypeOK'
    BY <1>2, PersistedType DEF Put, Image, StateTypeOK
  <1>3. ASSUME NEW t \in Tabs, Settle(t),
               disk' \in Records, failed' \in [Tabs -> BOOLEAN], acked' \in [Tabs -> [Docs -> Stamps]]
        PROVE  StateTypeOK'
    <2>1. queue[t] \in Seq(Docs \X Stamps) /\ queue[t] # <<>>
      BY <1>3 DEF Settle, StateTypeOK
    <2>2. Tail(queue[t]) \in Seq(Docs \X Stamps)
      BY <2>1
    <2>3. NoRecord \in Records
      BY StateAssumption DEF NoRecord, Records, Stamps
    <2>4. QED
      BY <1>3, <2>2, <2>3 DEF Settle, StateTypeOK
  <1>4. ASSUME NEW t \in Tabs, PutLands(t)
        PROVE  StateTypeOK'
    <2>1. Settle(t) /\ disk' \in Records /\ failed' \in [Tabs -> BOOLEAN]
      BY <1>4 DEF PutLands, StateTypeOK
    <2>2. queue[t] \in Seq(Docs \X Stamps) /\ queue[t] # <<>>
      BY <2>1 DEF Settle, StateTypeOK
    <2>3. Head(queue[t])[1] \in Docs /\ Head(queue[t])[2] \in Stamps
      BY <2>2
    <2>4. acked' \in [Tabs -> [Docs -> Stamps]]
      BY <1>4, <2>3 DEF PutLands, StateTypeOK
    <2>5. QED
      BY <1>3, <2>1, <2>4
  <1>5. ASSUME NEW t \in Tabs, PutFails(t)
        PROVE  StateTypeOK'
    BY <1>3, <1>5 DEF PutFails, StateTypeOK
  <1>6. ASSUME NEW t \in Tabs, Reload(t)
        PROVE  StateTypeOK'
    <2>1. NoRecord \in Records
      BY StateAssumption DEF NoRecord, Records, Stamps
    <2>2. \A s \in Stamps : LoadedStatus(s) \in Statuses
      BY DEF LoadedStatus, Statuses
    <2>3. disk.stamps \in [Docs -> Stamps] /\ disk.last \in Stamps
      BY DEF StateTypeOK, Records
    <2>4. states' \in [Tabs -> [Docs -> [status : Statuses, stamp : Stamps]]]
      BY <1>6, <2>2, <2>3 DEF Reload, StateTypeOK
    <2>5. QED
      BY <1>6, <2>1, <2>3, <2>4 DEF Reload, StateTypeOK
  <1>7. CASE UNCHANGED stateVars
    BY <1>7 DEF stateVars, StateTypeOK
  <1>8. QED
    BY <1>1, <1>2, <1>4, <1>5, <1>6, <1>7, TabStepKinds DEF StateNext

\* What is queued was stamped in the past, and what is being put is of the queue.
QueueStamped ==
  \A t \in Tabs : /\ putting[t] => queue[t] # <<>>
                 /\ \A i \in 1..Len(queue[t]) : queue[t][i][2] <= clock

\* The last put of the queue carries the map as it is, so that its landing makes the
\* record agree with it.
LastPutIsMap ==
  \A t \in Tabs : putting[t] /\ Len(queue[t]) = 1 =>
    \A d \in Docs : image[t].stamps[d] = Stored(states[t][d])

\* A put carries the stamp it was queued for, if that is still current.
PutCarriesStamp ==
  \A t \in Tabs : putting[t] /\ StillCurrent(t) =>
    image[t].stamps[Head(queue[t])[1]] = Head(queue[t])[2]

\* An acknowledged document is synced, stored, and carried by the put under way.
AckedIsCarried ==
  \A t \in Tabs, d \in Docs : acked[t][d] # 0 =>
    /\ states[t][d].status = "synced" /\ states[t][d].stamp = acked[t][d]
    /\ disk.stamps[d] = acked[t][d]
    /\ putting[t] => image[t].stamps[d] = acked[t][d]

StateIInv ==
  /\ StateTypeOK /\ QueueStamped
  /\ SettledRecordIsMap /\ LastPutIsMap /\ PutCarriesStamp /\ AckedIsCarried

\* Map and record agree at the start, and nothing is queued.
LEMMA StateInitIInv == StateInit => StateIInv
  <1> SUFFICES ASSUME StateInit PROVE StateIInv
    OBVIOUS
  <1>1. StateTypeOK
    BY StateInitType
  <1>2. QueueStamped /\ LastPutIsMap /\ PutCarriesStamp /\ AckedIsCarried
    BY DEF StateInit, QueueStamped, LastPutIsMap, PutCarriesStamp, AckedIsCarried
  <1>3. SettledRecordIsMap
    BY DEF StateInit, SettledRecordIsMap, Fresh, NoRecord
  <1>4. QED
    BY <1>1, <1>2, <1>3 DEF StateIInv

\* Every step queues its record with its stamp.
LEMMA StateStepStamped == StateTypeOK /\ QueueStamped /\ [StateNext]_stateVars => QueueStamped'
  <1> SUFFICES ASSUME StateTypeOK, QueueStamped, [StateNext]_stateVars, NEW u \in Tabs
               PROVE  /\ putting'[u] => queue'[u] # <<>>
                      /\ \A i \in 1..Len(queue'[u]) : queue'[u][i][2] <= clock'
    BY DEF QueueStamped
  <1> DEFINE Stamped == /\ putting'[u] => queue'[u] # <<>>
                        /\ \A i \in 1..Len(queue'[u]) : queue'[u][i][2] <= clock'
  <1>0. /\ queue[u] \in Seq(Docs \X Stamps) /\ clock \in Stamps
        /\ \A i \in 1..Len(queue[u]) : queue[u][i][2] \in Stamps /\ queue[u][i][2] <= clock
        /\ putting[u] => queue[u] # <<>>
    BY DEF StateTypeOK, QueueStamped
  <1> USE StateAssumption DEF Stamps
  <1>1. ASSUME NEW t \in Tabs, Changes(t)
        PROVE  Stamped
    <2>1. PICK map \in Maps, d \in Docs, stamp \in Stamps :
            /\ Update(t, map, d, stamp)
            /\ clock' \in Stamps /\ clock <= clock' /\ stamp <= clock'
      BY <1>1 DEF Changes
    <2>2. CASE u # t
      <3>1. queue'[u] = queue[u] /\ putting' = putting
        BY <2>1, <2>2 DEF Update, StateTypeOK
      <3>2. QED
        BY <1>0, <2>1, <3>1
    <2>3. CASE u = t
      <3>1. queue'[u] = Append(queue[u], <<d, stamp>>)
        BY <2>1, <2>3 DEF Update, StateTypeOK
      <3>2. /\ Len(queue'[u]) = Len(queue[u]) + 1 /\ Len(queue[u]) \in Nat
            /\ queue'[u][Len(queue[u]) + 1] = <<d, stamp>>
            /\ \A i \in 1..Len(queue[u]) : queue'[u][i] = queue[u][i]
        BY <1>0, <3>1
      <3>3. queue'[u] # <<>>
        BY <3>2
      <3>4. ASSUME NEW i \in 1..Len(queue'[u])
            PROVE  queue'[u][i][2] <= clock'
        <4>1. CASE i = Len(queue[u]) + 1
          BY <2>1, <3>2, <4>1
        <4>2. CASE i \in 1..Len(queue[u])
          <5>1. /\ queue'[u][i] = queue[u][i]
                /\ queue[u][i][2] \in Stamps /\ queue[u][i][2] <= clock
            BY <1>0, <3>2, <4>2
          <5>2. clock \in Stamps /\ clock' \in Stamps /\ clock <= clock'
            BY <1>0, <2>1
          <5>3. QED
            BY <5>1, <5>2
        <4>3. QED
          BY <3>2, <4>1, <4>2
      <3>5. QED
        BY <3>3, <3>4
    <2>4. QED
      BY <2>2, <2>3
  <1>2. ASSUME NEW t \in Tabs, Put(t)
        PROVE  Stamped
    <2>1. queue' = queue /\ clock' = clock
      BY <1>2 DEF Put
    <2>2. putting'[u] => queue[u] # <<>>
      BY <1>0, <1>2 DEF Put, Ready, StateTypeOK
    <2>3. QED
      BY <1>0, <2>1, <2>2
  <1>3. ASSUME NEW t \in Tabs, PutLands(t) \/ PutFails(t)
        PROVE  Stamped
    <2>1. Settle(t)
      BY <1>3 DEF PutLands, PutFails
    <2>2. clock' = clock
      BY <2>1 DEF Settle
    <2>3. CASE u # t
      <3>1. queue'[u] = queue[u] /\ putting'[u] = putting[u]
        BY <2>1, <2>3 DEF Settle, StateTypeOK
      <3>2. QED
        BY <1>0, <2>2, <3>1
    <2>4. CASE u = t
      <3>1. queue'[u] = Tail(queue[u]) /\ ~putting'[u] /\ queue[u] # <<>>
        BY <1>0, <2>1, <2>4 DEF Settle, StateTypeOK
      <3>2. /\ Len(queue'[u]) = Len(queue[u]) - 1 /\ Len(queue[u]) \in Nat
            /\ \A i \in 1..Len(queue'[u]) : queue'[u][i] = queue[u][i + 1]
        BY <1>0, <3>1
      <3>3. \A i \in 1..Len(queue'[u]) : i + 1 \in 1..Len(queue[u])
        BY <3>2
      <3>4. QED
        BY <1>0, <2>2, <3>1, <3>2, <3>3
    <2>5. QED
      BY <2>3, <2>4
  <1>4. ASSUME NEW t \in Tabs, Reload(t)
        PROVE  Stamped
    <2>1. clock' = clock /\ \/ queue'[u] = <<>> /\ ~putting'[u]
                            \/ queue'[u] = queue[u] /\ putting'[u] = putting[u]
      BY <1>4 DEF Reload, StateTypeOK
    <2>2. QED
      BY <1>0, <2>1
  <1>5. CASE UNCHANGED stateVars
    BY <1>0, <1>5 DEF stateVars
  <1>6. QED
    BY <1>1, <1>2, <1>3, <1>4, <1>5, TabStepKinds DEF StateNext

\* The record of one tab.
LEMMA StateStepOneTab ==
  ASSUME NEW t, Tabs = {t}, StateIInv, [StateNext]_stateVars
  PROVE  SettledRecordIsMap' /\ LastPutIsMap' /\ PutCarriesStamp' /\ AckedIsCarried'
  <1> DEFINE Agrees == \A d \in Docs : disk.stamps[d] = Stored(states[t][d])
             Carries == \A d \in Docs : image[t].stamps[d] = Stored(states[t][d])
             Settled == queue[t] = <<>> /\ ~failed[t] => Agrees
             LastPut == putting[t] /\ Len(queue[t]) = 1 => Carries
             Current == putting[t] /\ StillCurrent(t) =>
                          image[t].stamps[Head(queue[t])[1]] = Head(queue[t])[2]
             Acked(d) == acked[t][d] # 0 =>
                          /\ states[t][d].status = "synced" /\ states[t][d].stamp = acked[t][d]
                          /\ disk.stamps[d] = acked[t][d]
                          /\ putting[t] => image[t].stamps[d] = acked[t][d]
             Goal == Settled' /\ LastPut' /\ Current' /\ \A d \in Docs : Acked(d)'
  <1>0. /\ StateTypeOK /\ queue[t] \in Seq(Docs \X Stamps) /\ clock \in Stamps
        /\ t \in Tabs
        /\ states[t] \in Maps /\ acked[t] \in [Docs -> Stamps]
        /\ putting[t] => queue[t] # <<>>
        /\ \A i \in 1..Len(queue[t]) : queue[t][i][2] \in Stamps /\ queue[t][i][2] <= clock
    BY DEF StateIInv, StateTypeOK, QueueStamped, Maps
  <1>i. Settled /\ LastPut /\ Current /\ \A d \in Docs : Acked(d)
    BY <1>0 DEF StateIInv, SettledRecordIsMap, LastPutIsMap, PutCarriesStamp, AckedIsCarried, Stored
  <1>a. SUFFICES Goal
    BY DEF SettledRecordIsMap, LastPutIsMap, PutCarriesStamp, AckedIsCarried, Stored
  <1>1. CASE Changes(t)
    <2>1. PICK map \in Maps, d \in Docs, stamp \in Stamps :
            /\ Update(t, map, d, stamp)
            /\ \A e \in Docs : \/ map[e] = states[t][e]
                               \/ map[e].status # "synced"
                               \/ map[e].status = "synced" /\ map[e].stamp > clock
      BY <1>1 DEF Changes
    <2>2. /\ states'[t] = map /\ queue'[t] = Append(queue[t], <<d, stamp>>)
          /\ \A e \in Docs : acked'[t][e] = IF map[e] = states[t][e] THEN acked[t][e] ELSE 0
          /\ UNCHANGED <<putting, image, disk, failed>>
      BY <1>0, <2>1 DEF Update, StateTypeOK
    <2>3. queue'[t] # <<>> /\ (putting[t] => Len(queue'[t]) # 1)
      BY <1>0, <2>2
    <2>4. \A e \in Docs : Acked(e)'
      BY <1>i, <2>2
    <2>5. ASSUME putting[t], StillCurrent(t)'
          PROVE  image[t].stamps[Head(queue[t])[1]] = Head(queue[t])[2]
      <3>1. Head(queue'[t]) = Head(queue[t]) /\ Head(queue[t]) = queue[t][1] /\ 1 \in 1..Len(queue[t])
        BY <1>0, <2>2, <2>5
      <3>2. Head(queue[t])[1] \in Docs /\ Head(queue[t])[2] \in Stamps /\ Head(queue[t])[2] <= clock
        BY <1>0, <3>1
      <3>3. /\ Head(queue[t])[2] # 0
            /\ map[Head(queue[t])[1]].status = "synced"
            /\ map[Head(queue[t])[1]].stamp = Head(queue[t])[2]
        BY <2>2, <2>5, <3>1 DEF StillCurrent
      <3>4. map[Head(queue[t])[1]] = states[t][Head(queue[t])[1]]
        <4>1. ~ (map[Head(queue[t])[1]].stamp > clock)
          <5>1. Head(queue[t])[2] \in Nat /\ clock \in Nat
            BY <1>0, <3>2, StateAssumption DEF Stamps
          <5>2. QED
            BY <3>2, <3>3, <5>1
        <4>2. QED
          BY <2>1, <3>2, <3>3, <4>1
      <3>5. StillCurrent(t)
        BY <3>3, <3>4 DEF StillCurrent
      <3>6. QED
        BY <1>i, <2>5, <3>5
    <2>6. Current'
      <3>1. putting'[t] => Head(queue'[t]) = Head(queue[t])
        BY <1>0, <2>2
      <3>2. QED
        BY <2>2, <2>5, <3>1
    <2>7. QED
      BY <2>2, <2>3, <2>4, <2>6
  <1>2. CASE Put(t)
    <2>1. /\ putting'[t] /\ image'[t] = Persisted(t)
          /\ UNCHANGED <<states, queue, disk, failed, acked>> /\ queue[t] # <<>>
      BY <1>0, <1>2 DEF Put, Ready, Image, StateTypeOK
    <2>2. \A d \in Docs : image'[t].stamps[d] = Stored(states[t][d])
      BY <1>0, <2>1, PersistedType
    <2>3. \A d \in Docs : Acked(d)'
      BY <1>i, <2>1, <2>2 DEF Stored
    <2>4. Current'
      <3>1. Head(queue[t])[1] \in Docs
        BY <1>0, <2>1
      <3>2. StillCurrent(t)' => StillCurrent(t)
        BY <2>1 DEF StillCurrent
      <3>3. QED
        BY <2>1, <2>2, <3>1, <3>2 DEF StillCurrent, Stored
    <2>5. QED
      BY <2>1, <2>2, <2>3, <2>4
  <1>3. CASE PutLands(t)
    <2>1. /\ putting[t] /\ ~putting'[t] /\ queue'[t] = Tail(queue[t]) /\ states' = states
          /\ disk' = image[t] /\ ~failed'[t]
      BY <1>0, <1>3 DEF PutLands, Settle, StateTypeOK
    <2>2. queue[t] # <<>> /\ Head(queue[t])[1] \in Docs
      BY <1>0, <2>1
    <2>3. Settled'
      <3>1. queue'[t] = <<>> => Len(queue[t]) = 1
        <4>1. Len(queue'[t]) = Len(queue[t]) - 1 /\ Len(queue[t]) \in Nat
          BY <1>0, <2>1, <2>2
        <4>2. QED
          BY <4>1
      <3>2. QED
        BY <1>i, <2>1, <3>1
    <2>4. ASSUME NEW d \in Docs
          PROVE  Acked(d)'
      <3>1. CASE StillCurrent(t) /\ d = Head(queue[t])[1]
        <4>1. acked'[t][d] = Head(queue[t])[2]
          <5>1. acked' = [acked EXCEPT ![t][Head(queue[t])[1]] = Head(queue[t])[2]]
            BY <1>3, <3>1 DEF PutLands
          <5>2. acked \in [Tabs -> [Docs -> Stamps]] /\ Head(queue[t])[1] \in Docs
            BY <1>0, <2>2 DEF StateTypeOK
          <5>3. QED
            BY <1>0, <3>1, <5>1, <5>2
        <4>2. states[t][d].status = "synced" /\ states[t][d].stamp = acked'[t][d]
          BY <3>1, <4>1 DEF StillCurrent
        <4>3. image[t].stamps[d] = acked'[t][d]
          BY <1>i, <2>1, <3>1, <4>1
        <4>4. QED
          BY <2>1, <4>2, <4>3
      <3>2. CASE ~(StillCurrent(t) /\ d = Head(queue[t])[1])
        <4>1. acked'[t][d] = acked[t][d]
          BY <1>0, <1>3, <2>2, <3>2 DEF PutLands
        <4>2. QED
          BY <1>i, <2>1, <4>1
      <3>3. QED
        BY <3>1, <3>2
    <2>5. QED
      BY <2>1, <2>3, <2>4
  <1>4. CASE PutFails(t)
    <2>1. ~putting'[t] /\ failed'[t] /\ UNCHANGED <<states, disk, acked>>
      BY <1>0, <1>4 DEF PutFails, Settle, StateTypeOK
    <2>2. QED
      BY <1>i, <2>1
  <1>5. CASE Reload(t)
    <2>1. queue'[t] = <<>> /\ ~putting'[t] /\ UNCHANGED <<disk, acked>>
      BY <1>0, <1>5 DEF Reload, StateTypeOK
    <2>2. states'[t] = [d \in Docs |-> [status |-> LoadedStatus(disk.stamps[d]),
                                        stamp |-> disk.stamps[d]]]
      BY <1>0, <1>5 DEF Reload, StateTypeOK
    <2>3. ASSUME NEW d \in Docs
          PROVE  /\ states'[t][d].status = LoadedStatus(disk.stamps[d])
                 /\ states'[t][d].stamp = disk.stamps[d]
      BY <2>2
    <2>4. ASSUME NEW d \in Docs
          PROVE  disk'.stamps[d] = Stored(states'[t][d])
      <3>1. disk'.stamps[d] = disk.stamps[d]
        BY <2>1
      <3>2. CASE disk.stamps[d] = 0
        BY <2>3, <3>1, <3>2 DEF Stored
      <3>3. CASE disk.stamps[d] # 0
        <4>1. states'[t][d].status = "synced"
          BY <2>3, <3>3 DEF LoadedStatus
        <4>2. QED
          BY <2>3, <3>1, <4>1 DEF Stored
      <3>4. QED
        BY <3>2, <3>3
    <2>5. ASSUME NEW d \in Docs
          PROVE  Acked(d)'
      <3>1. acked'[t][d] = acked[t][d] /\ disk'.stamps[d] = disk.stamps[d]
        BY <2>1
      <3>2. disk.stamps[d] # 0 => states'[t][d].status = "synced"
        BY <2>3 DEF LoadedStatus
      <3>3. QED
        BY <1>i, <2>1, <2>3, <3>1, <3>2
    <2>6. QED
      BY <2>1, <2>4, <2>5
  <1>6. CASE UNCHANGED stateVars
    BY <1>i, <1>6 DEF stateVars, StillCurrent
  <1>7. QED
    BY <1>0, <1>1, <1>2, <1>3, <1>4, <1>5, <1>6, TabStepKinds DEF StateNext

\* The inductive invariant of the state while one tab writes it: the record is the map as it was
\* last put, the queue carries what is newer, and each acknowledged change is in one of them.
THEOREM StateInvariant ==
  ASSUME NEW t, Tabs = {t}
  PROVE  StateSpec => []StateIInv
  <1>1. StateIInv /\ [StateNext]_stateVars => StateIInv'
    BY StateStepType, StateStepStamped, StateStepOneTab DEF StateIInv, QueueStamped
  <1>2. QED
    BY StateInitIInv, <1>1, PTL DEF StateSpec

\* Whatever number of tabs, every variable of the sync state stays in its type.
THEOREM StateTypeCorrect == StateSpec => []StateTypeOK
  <1> DEFINE Inv == StateTypeOK /\ QueueStamped
  <1>1. StateInit => Inv
    BY StateInitIInv DEF StateIInv
  <1>2. Inv /\ [StateNext]_stateVars => Inv'
    BY StateStepType, StateStepStamped DEF QueueStamped
  <1>3. Inv => StateTypeOK
    OBVIOUS
  <1> HIDE DEF Inv
  <1>4. QED
    BY <1>1, <1>2, <1>3, PTL DEF StateSpec

\* Of one tab: when its updates have settled and the last put did not fail, the record
\* holds the synced documents of the map.
THEOREM SettledRecordIsMapHolds ==
  ASSUME NEW t, Tabs = {t}
  PROVE  StateSpec => []SettledRecordIsMap
  BY StateInvariant, PTL DEF StateIInv

\* Of one tab: what was acknowledged as stored stays stored until its document changes.
THEOREM AckedIsStoredHolds ==
  ASSUME NEW t, Tabs = {t}
  PROVE  StateSpec => []AckedIsStored
  <1>1. StateIInv => AckedIsStored
    BY DEF StateIInv, AckedIsCarried, AckedIsStored
  <1>2. QED
    BY StateInvariant, <1>1, PTL

-----------------------------------------------------------------------------
(* DriveAuth: the connect of the widget and its requests to Google.  A step  *)
(* of a request settles it or leaves its outcome alone.                      *)

AuthOutcomes == {"idle", "pending", "ok", "failed"}

AuthTypesKept ==
  /\ outcome \in [Attempt -> AuthOutcomes]
  /\ stage \in [Attempt -> {"none", "load", "asked"}]
  /\ timer \in [Attempt -> BOOLEAN]
  /\ grace \in [Attempt -> BOOLEAN]
  /\ attempt \in [Attempt -> {"none", "waiting", "finishing", "ok", "failed"}]

\* Nothing is begun before its connect(), and only a pending request has something
\* that may yet fail it.
Begun ==
  \A i \in Attempt :
    /\ attempt[i] = "none" => outcome[i] = "idle" /\ stage[i] = "none"
    /\ stage[i] = "load" => outcome[i] = "pending"
    /\ timer[i] => outcome[i] = "pending" /\ stage[i] = "asked"
    /\ grace[i] => stage[i] = "asked"

\* Without an exchange the pending request is the one of the coalescing map.
Coalesced == ~exchange => \A i \in Attempt : outcome[i] = "pending" => current = i

AuthIInv == AuthTypesKept /\ Begun /\ Coalesced

LEMMA AuthInitIInv == AuthInit => AuthIInv
  BY DEF AuthInit, AuthIInv, AuthTypesKept, AuthOutcomes, Begun, Coalesced

\* The two ways in which a step may change the outcomes.
Opens(i) ==
  /\ outcome[i] = "idle" /\ outcome' = [outcome EXCEPT ![i] = "pending"]
  /\ ~exchange => current = 0

Settles(i) ==
  \E r \in {"ok", "failed"} :
    outcome[i] = "pending" /\ outcome' = [outcome EXCEPT ![i] = r]

LEMMA ConnectStep ==
  ASSUME AuthIInv, NEW i \in Attempt, Connect(i)
  PROVE  AuthIInv' /\ (Opens(i) \/ UNCHANGED outcome)
  <1>1. attempt[i] = "none" /\ outcome[i] = "idle"
    BY DEF Connect, AuthIInv, Begun
  <1>2. CASE Joins # 0
    BY <1>1, <1>2 DEF Connect, AuthIInv, AuthTypesKept, Begun, Coalesced
  <1>3. CASE Joins = 0
    <2>1. Opens(i)
      BY <1>1, <1>3 DEF Connect, Opens, Joins
    <2>2. AuthTypesKept' /\ Begun'
      BY <1>1, <1>3 DEF Connect, AuthIInv, AuthTypesKept, AuthOutcomes, Begun
    <2>3. Coalesced'
      BY <1>1, <1>3, <2>1 DEF Connect, Opens, AuthIInv, AuthTypesKept, Coalesced, Attempt
    <2>4. QED
      BY <2>1, <2>2, <2>3 DEF AuthIInv
  <1>4. QED
    BY <1>2, <1>3

\* A step of a request settles it or leaves its outcome alone.
RequestStep(i) ==
  \/ Load(i) \/ GraceFires(i) \/ TimerFires(i)
  \/ \E ok \in BOOLEAN : ErrorCallback(i, ok)
  \/ \E result \in {"ok", "failed"} : Callback(i, result)

LEMMA RequestSettles ==
  ASSUME AuthIInv, NEW i \in Attempt, RequestStep(i)
  PROVE  AuthIInv' /\ (Settles(i) \/ UNCHANGED outcome)
  <1> USE DEF AuthIInv, AuthTypesKept, AuthOutcomes, Begun, Coalesced, SettleWith, Settles
  <1>1. CASE Load(i)
    BY <1>1 DEF Load, widget
  <1>2. CASE GraceFires(i)
    <2>1. CASE outcome[i] = "pending"
      BY <1>2, <2>1 DEF GraceFires
    <2>2. CASE outcome[i] # "pending"
      BY <1>2, <2>2 DEF GraceFires
    <2>3. QED
      BY <2>1, <2>2
  <1>3. CASE TimerFires(i)
    <2>1. outcome[i] = "pending" /\ outcome' = [outcome EXCEPT ![i] = "failed"]
      BY <1>3 DEF TimerFires
    <2>2. QED
      BY <1>3, <2>1 DEF TimerFires
  <1>4. ASSUME NEW ok \in BOOLEAN, ErrorCallback(i, ok)
        PROVE  AuthIInv' /\ (Settles(i) \/ UNCHANGED outcome)
    BY <1>4 DEF ErrorCallback, widget
  <1>5. ASSUME NEW result \in {"ok", "failed"}, Callback(i, result)
        PROVE  AuthIInv' /\ (Settles(i) \/ UNCHANGED outcome)
    BY <1>5 DEF Callback, widget
  <1>6. QED
    BY <1>1, <1>2, <1>3, <1>4, <1>5 DEF RequestStep

LEMMA ResumeStep ==
  ASSUME AuthIInv, NEW i \in Attempt, Resume(i)
  PROVE  AuthIInv' /\ UNCHANGED outcome
  <1>1. UNCHANGED <<exchange, outcome, stage, timer, grace>>
    BY DEF Resume
  <1>2. AuthTypesKept' /\ Begun'
    BY <1>1 DEF Resume, AuthIInv, AuthTypesKept, Begun
  <1>3. ASSUME NEW j \in Attempt, ~exchange, outcome[j] = "pending"
        PROVE  current' = j
    BY <1>3 DEF Resume, AuthIInv, Coalesced
  <1>4. QED
    BY <1>1, <1>2, <1>3 DEF AuthIInv, Coalesced

\* The widget's own steps and the end of an attempt do not touch a request.
LEMMA OtherStep ==
  ASSUME AuthIInv,
         \/ RaceSettled \/ RaceTimeout \/ Disconnect
         \/ \E ok \in BOOLEAN : DisconnectSettled(ok)
         \/ \E i \in Attempt, ok \in BOOLEAN : Finish(i, ok)
         \/ UNCHANGED authVars
  PROVE  AuthIInv' /\ UNCHANGED outcome
  <1> USE DEF AuthIInv, AuthTypesKept, Begun, Coalesced, request
  <1>1. CASE RaceSettled \/ RaceTimeout \/ Disconnect \/ UNCHANGED authVars
    BY <1>1 DEF RaceSettled, RaceTimeout, Disconnect, authVars
  <1>2. ASSUME NEW ok \in BOOLEAN, DisconnectSettled(ok)
        PROVE  AuthIInv' /\ UNCHANGED outcome
    BY <1>2 DEF DisconnectSettled
  <1>3. ASSUME NEW i \in Attempt, NEW ok \in BOOLEAN, Finish(i, ok)
        PROVE  AuthIInv' /\ UNCHANGED outcome
    BY <1>3 DEF Finish
  <1>4. QED
    BY <1>1, <1>2, <1>3

LEMMA AuthStepIInv ==
  ASSUME AuthIInv, [AuthNext]_authVars
  PROVE  /\ AuthIInv'
         /\ UNCHANGED outcome \/ \E i \in Attempt : Opens(i) \/ Settles(i)
  BY ConnectStep, RequestSettles, ResumeStep, OtherStep DEF AuthNext, RequestStep

\* Everything below holds in every behaviour of AuthSpec.
THEOREM AuthInvariant == AuthSpec => []AuthIInv
  BY AuthInitIInv, AuthStepIInv, PTL DEF AuthSpec

\* Who waits for whom: an attempt for a request that was begun, the race of the
\* handle for an attempt that was, and no more disconnects are under way than made.
Awaited ==
  /\ \A i \in Attempt : stage[i] = "asked" /\ outcome[i] = "pending" => timer[i]
  /\ current \in Attempt \cup {0}
  /\ current # 0 => outcome[current] # "idle"
  /\ waits \in [Attempt -> Attempt \cup {0}]
  /\ \A i \in Attempt : attempt[i] = "waiting" => waits[i] \in Attempt /\ outcome[waits[i]] # "idle"
  /\ inFlight \in Attempt \cup {0}
  /\ inFlight # 0 => attempt[inFlight] # "none"
  /\ left \in Nat /\ leaving \in 0..left /\ left <= MaxDisconnects

LEMMA ConnectAwaited ==
  ASSUME AuthIInv, Awaited, NEW i \in Attempt, Connect(i)
  PROVE  Awaited'
  <1> USE DEF AuthIInv, AuthTypesKept, Awaited, Connect
  <1>1. i # 0 /\ 0 \notin Attempt
    BY AuthAssumption DEF Attempt
  <1>2. CASE Joins # 0
    BY <1>1, <1>2 DEF Joins
  <1>3. CASE Joins = 0
    <2>1. outcome' = [outcome EXCEPT ![i] = "pending"] /\ waits' = [waits EXCEPT ![i] = i]
      BY <1>3
    <2>2. \A j \in Attempt : outcome[j] # "idle" => outcome'[j] # "idle"
      BY <2>1
    <2>3. QED
      BY <1>1, <1>3, <2>1, <2>2
  <1>4. QED
    BY <1>2, <1>3

LEMMA RequestAwaited ==
  ASSUME AuthIInv, Awaited, NEW i \in Attempt, RequestStep(i)
  PROVE  Awaited'
  <1> USE DEF AuthIInv, AuthTypesKept, AuthOutcomes, widget
  <1>1. UNCHANGED <<current, waits, attempt, inFlight, left, leaving>>
    BY DEF RequestStep, Load, GraceFires, TimerFires, ErrorCallback, Callback
  <1>2. \A j \in Attempt : outcome[j] # "idle" => outcome'[j] # "idle"
    BY RequestSettles DEF Settles
  <1>3. ASSUME NEW j \in Attempt, stage'[j] = "asked", outcome'[j] = "pending"
        PROVE  timer'[j]
    <2> USE <1>3 DEF Awaited, SettleWith
    <2>1. CASE Load(i)
      BY <2>1 DEF Load
    <2>2. CASE GraceFires(i)
      BY <2>2 DEF GraceFires
    <2>3. CASE TimerFires(i)
      BY <2>3 DEF TimerFires
    <2>4. ASSUME NEW ok \in BOOLEAN, ErrorCallback(i, ok)
          PROVE  timer'[j]
      BY <2>4 DEF ErrorCallback
    <2>5. ASSUME NEW result \in {"ok", "failed"}, Callback(i, result)
          PROVE  timer'[j]
      BY <2>5 DEF Callback
    <2>6. QED
      BY <2>1, <2>2, <2>3, <2>4, <2>5 DEF RequestStep
  <1>4. QED
    BY <1>1, <1>2, <1>3 DEF Awaited

LEMMA OtherAwaited ==
  ASSUME AuthIInv, Awaited,
         \/ RaceSettled \/ RaceTimeout \/ Disconnect
         \/ \E ok \in BOOLEAN : DisconnectSettled(ok)
         \/ \E i \in Attempt : Resume(i) \/ \E ok \in BOOLEAN : Finish(i, ok)
         \/ UNCHANGED authVars
  PROVE  Awaited'
  <1> USE AuthAssumption DEF Awaited, AuthIInv, AuthTypesKept, request, widget
  <1>1. CASE RaceSettled \/ RaceTimeout \/ UNCHANGED authVars
    BY <1>1 DEF RaceSettled, RaceTimeout, authVars
  <1>2. CASE Disconnect
    BY <1>2 DEF Disconnect
  <1>3. ASSUME NEW ok \in BOOLEAN, DisconnectSettled(ok)
        PROVE  Awaited'
    BY <1>3 DEF DisconnectSettled
  <1>4. ASSUME NEW i \in Attempt, Resume(i)
        PROVE  Awaited'
    BY <1>4 DEF Resume
  <1>5. ASSUME NEW i \in Attempt, NEW ok \in BOOLEAN, Finish(i, ok)
        PROVE  Awaited'
    BY <1>5 DEF Finish
  <1>6. QED
    BY <1>1, <1>2, <1>3, <1>4, <1>5

\* Every pending request that asked Google has its timer, and every wait is for
\* something begun.
THEOREM AuthTypeCorrect == AuthSpec => []AuthTypeOK
  <1>1. AuthInit => Awaited
    BY AuthAssumption DEF AuthInit, Awaited
  <1>2. AuthIInv /\ Awaited /\ [AuthNext]_authVars => Awaited'
    BY ConnectAwaited, RequestAwaited, OtherAwaited DEF AuthNext, RequestStep
  <1>3. ASSUME AuthIInv, Awaited PROVE AuthTypeOK
    BY <1>3 DEF AuthIInv, AuthTypesKept, Begun, Awaited, AuthTypeOK
  <1>4. AuthSpec => []Awaited
    BY AuthInvariant, <1>1, <1>2, PTL DEF AuthSpec
  <1>5. QED
    BY AuthInvariant, <1>3, <1>4, PTL

\* However often the user connects, without an exchange no second window to Google
\* opens beside one that is still pending.
THEOREM OneWindowHolds == AuthSpec => []OneWindow
  <1>1. ASSUME AuthIInv PROVE OneWindow
    <2> SUFFICES ASSUME ~exchange
                 PROVE  Cardinality({i \in Attempt : outcome[i] = "pending"}) <= 1
      BY DEF OneWindow
    <2> DEFINE Pending == {i \in Attempt : outcome[i] = "pending"}
    <2>1. Pending \subseteq {current}
      BY <1>1 DEF AuthIInv, Coalesced
    <2>2. IsFiniteSet({current}) /\ Cardinality({current}) = 1
      BY FS_Singleton
    <2>3. Cardinality(Pending) <= Cardinality({current})
      BY <2>1, <2>2, FS_Subset
    <2>4. QED
      BY <2>2, <2>3
  <1>2. QED
    BY AuthInvariant, <1>1, PTL

PromiseOf(i) == INSTANCE SettleOnce WITH outcome <- outcome[i]

\* The promise of every request keeps the safety half of SettleOnce: it settles
\* at most once, whatever the callbacks and timers do after that.
THEOREM PromiseRefined ==
  ASSUME NEW i \in Attempt
  PROVE  AuthSpec => PromiseOf(i)!Init /\ [][PromiseOf(i)!Next]_(outcome[i])
  <1>1. AuthInit => PromiseOf(i)!Init
    BY DEF AuthInit, PromiseOf!Init
  <1>2. AuthIInv /\ [AuthNext]_authVars => [PromiseOf(i)!Next]_(outcome[i])
    <2> SUFFICES ASSUME AuthIInv, [AuthNext]_authVars
                 PROVE  [PromiseOf(i)!Next]_(outcome[i])
      OBVIOUS
    <2>1. CASE UNCHANGED outcome
      BY <2>1
    <2>2. ASSUME NEW j \in Attempt, Opens(j)
          PROVE  [PromiseOf(i)!Next]_(outcome[i])
      BY <2>2 DEF Opens, AuthIInv, AuthTypesKept, PromiseOf!Next, PromiseOf!Begin
    <2>3. ASSUME NEW j \in Attempt, Settles(j)
          PROVE  [PromiseOf(i)!Next]_(outcome[i])
      BY <2>3 DEF Settles, AuthIInv, AuthTypesKept, PromiseOf!Next, PromiseOf!Settle
    <2>4. QED
      BY <2>1, <2>2, <2>3, AuthStepIInv
  <1>3. QED
    BY AuthInvariant, <1>1, <1>2, PTL DEF AuthSpec
===============================================================================
