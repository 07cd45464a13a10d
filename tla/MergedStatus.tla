---------------------------- MODULE MergedStatus ----------------------------
(***************************************************************************)
(* The status the drive-connect hook shows: drive-sync's connection merged  *)
(* with the handle's overlay (connecting, error) into one cached object,    *)
(* which is recomputed while somebody is subscribed (auth.ts, statusStore.ts, *)
(* useDriveConnection.ts).  Of the error the model keeps whether there is    *)
(* one.  What patches the overlay is DriveAuth, what changes the connection  *)
(* is Credentials; here both change as they like.                            *)
(***************************************************************************)
EXTENDS Naturals

CONSTANTS
  Hook,      \* the places in which useDriveConnection() is rendered
  Linked,    \* connections, told apart by their account and their token
  Unlinked   \* null

VARIABLES
  linked,    \* getConnectionSync()
  snapshot,  \* the overlay store's
  listening, \* the hooks that are mounted
  merged,    \* mergedSnapshot, or NotYet
  shown,     \* per hook: the status of its last render
  missed     \* history: a source has changed since anybody was subscribed

mergedVars == <<linked, snapshot, listening, merged, shown, missed>>

Connections == Linked \cup {Unlinked}
Overlays == [connecting : BOOLEAN, error : BOOLEAN]
NotYet == [linked |-> Unlinked]

MergedInit ==
  /\ linked = Unlinked
  /\ snapshot = [connecting |-> FALSE, error |-> FALSE]
  /\ listening = {}
  /\ merged = NotYet
  /\ shown = [h \in Hook |-> NotYet]
  /\ missed = FALSE

computeMerged == [linked |-> linked, connecting |-> snapshot.connecting, error |-> snapshot.error]

\* notify() of every subscriber: recomputeMerged(), and the hook renders again.
NotifyOverlayOnly ==
  /\ merged' = IF listening # {} /\ snapshot' # snapshot THEN computeMerged' ELSE merged
  /\ shown' = [h \in Hook |-> IF h \in listening THEN merged' ELSE shown[h]]
  /\ missed' = (listening = {} /\ (missed \/ merged # NotYet))
  /\ UNCHANGED listening

Notify ==
  /\ merged' = IF listening # {} THEN computeMerged' ELSE merged
  /\ shown' = [h \in Hook |-> IF h \in listening THEN merged' ELSE shown[h]]
  /\ missed' = (listening = {} /\ (missed \/ merged # NotYet))
  /\ UNCHANGED listening

\* patch(); equal overlays are not announced.
patch(next) ==
  /\ snapshot # next
  /\ snapshot' = next
  /\ UNCHANGED linked
  /\ Notify

\* drive-sync commits another connection to its snapshot.
connectionChanges(conn) ==
  /\ linked # conn
  /\ linked' = conn
  /\ UNCHANGED snapshot
  /\ Notify

\* useSyncExternalStore(): getMergedSnapshot(), which computes the first time
\* only, then subscribeMerged() to both sources.
Mount(h) ==
  /\ h \notin listening
  /\ listening' = listening \cup {h}
  /\ merged' = IF merged = NotYet THEN computeMerged ELSE merged
  /\ shown' = [shown EXCEPT ![h] = merged']
  /\ UNCHANGED <<linked, snapshot, missed>>

Unmount(h) ==
  /\ h \in listening
  /\ listening' = listening \ {h}
  /\ UNCHANGED <<linked, snapshot, merged, shown, missed>>

MergedNext ==
  \/ \E overlay \in Overlays : patch(overlay)
  \/ \E conn \in Connections : connectionChanges(conn)
  \/ \E h \in Hook : Mount(h) \/ Unmount(h)

MergedSpec == MergedInit /\ [][MergedNext]_mergedVars

-----------------------------------------------------------------------------

MergedTypeOK ==
  /\ linked \in Connections /\ snapshot \in Overlays /\ listening \subseteq Hook
  /\ merged = NotYet => listening = {}

\* All mounted hooks show the same status, that of both sources; but after a change
\* that came while none was mounted the stale one is shown until the next change.
ShownStatusCurrent ==
  \A h \in listening : shown[h] = merged /\ (merged = computeMerged \/ missed)
=============================================================================
