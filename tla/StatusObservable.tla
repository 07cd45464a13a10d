-------------------------- MODULE StatusObservable --------------------------
(***************************************************************************)
(* The status observable of packages/project-sync (status.ts): the sync     *)
(* operations of a page mark their start, success or failure; subscribers   *)
(* are handed snapshots, compared by the object they are.                    *)
(*                                                                          *)
(* A snapshot is its value and a serial number, its identity as an object.   *)
(* The callers follow the protocol: one end or one error for every start.    *)
(***************************************************************************)
EXTENDS Naturals, Sequences

CONSTANTS
  Subscribers,
  Conflict,      \* conflict objects
  Failure,       \* Error objects, each an identity of its own
  ReauthFailure, \* NeedsReauthError, ScopeInsufficientError, WrongAccountError
  NoError,       \* lastError = null
  MaxSyncs,      \* bounds the syncs under way
  MaxMarks       \* bounds the calls of the observable

ASSUME StatusAssumption ==
  /\ ReauthFailure \subseteq Failure /\ NoError \notin Failure
  /\ MaxSyncs \in Nat /\ MaxMarks \in Nat

VARIABLES
  phase, syncInProgress, lastError, lastConflicts, lastSyncedAt, needsReauth,
  lastSnapshot,   \* what buildSnapshot() compares with
  currentStatus,  \* what getStatus() returns
  callbacks,      \* the subscribed
  polling,        \* until destroy()
  told,           \* per subscriber: the snapshot it was handed last
  marks,          \* calls so far; also the clock and the source of identities
  \* history
  underway        \* syncs that have started and not ended

statusVars ==
  <<phase, syncInProgress, lastError, lastConflicts, lastSyncedAt, needsReauth,
    lastSnapshot, currentStatus, callbacks, polling, told, marks, underway>>

StatusInit ==
  /\ phase = "idle" /\ syncInProgress = 0
  /\ lastError = NoError /\ lastConflicts = <<>> /\ lastSyncedAt = 0
  /\ needsReauth = FALSE
  /\ currentStatus = [serial |-> 0, phase |-> "idle", at |-> 0, error |-> NoError,
                      reauth |-> FALSE, conflicts |-> <<>>]
  /\ lastSnapshot = currentStatus
  /\ callbacks = {} /\ polling = TRUE /\ told = [s \in Subscribers |-> currentStatus]
  /\ marks = 0 /\ underway = 0

-----------------------------------------------------------------------------

\* A snapshot of the fields, as an object of this call.
Snapshot ==
  [serial |-> marks, phase |-> phase, at |-> lastSyncedAt, error |-> lastError,
   reauth |-> needsReauth, conflicts |-> lastConflicts]

Value(snapshot) == [snapshot EXCEPT !.serial = 0]

\* buildSnapshot() returns the last one only if nothing changed and there are
\* conflicts; a change in the conflicts alone, their number the same, is returned
\* without being remembered.
Reused(new) == lastSnapshot.conflicts # <<>> /\ Value(new) = Value(lastSnapshot)
OnlyConflictsSwapped(new) ==
  /\ Len(new.conflicts) = Len(lastSnapshot.conflicts)
  /\ new.conflicts # lastSnapshot.conflicts
  /\ Value([new EXCEPT !.conflicts = lastSnapshot.conflicts]) = Value(lastSnapshot)

\* emitIfChanged(), at the end of every call.
emitIfChanged ==
  LET new == Snapshot'
      built == IF Reused(new) THEN lastSnapshot ELSE new
  IN
  /\ lastSnapshot' = IF Reused(new) \/ OnlyConflictsSwapped(new) THEN lastSnapshot ELSE new
  /\ currentStatus' = built
  /\ told' = [s \in Subscribers |->
       IF s \in callbacks /\ currentStatus # built THEN built ELSE told[s]]

Mark == marks < MaxMarks /\ marks' = marks + 1

markSyncStart ==
  /\ Mark /\ underway < MaxSyncs
  /\ underway' = underway + 1
  /\ syncInProgress' = syncInProgress + 1
  /\ phase' = "syncing"
  /\ UNCHANGED <<lastError, lastConflicts, lastSyncedAt, needsReauth, callbacks, polling>>
  /\ emitIfChanged

EndsAll(last) ==
  /\ Mark /\ underway > 0
  /\ underway' = underway - 1
  /\ syncInProgress' = IF syncInProgress = 0 THEN 0 ELSE syncInProgress - 1
  /\ phase' = last

\* Math.max(0, syncInProgress - 1) and the phase after it.
Ends(last) ==
  /\ Mark /\ underway > 0
  /\ underway' = underway - 1
  /\ syncInProgress' = IF syncInProgress = 0 THEN 0 ELSE syncInProgress - 1
  /\ phase' = IF syncInProgress' > 0 THEN "syncing" ELSE last

markSyncEnd ==
  /\ Ends("idle")
  /\ lastError' = NoError /\ lastConflicts' = <<>> /\ lastSyncedAt' = marks'
  /\ UNCHANGED <<needsReauth, callbacks, polling>>
  /\ emitIfChanged

markSyncError(error) ==
  /\ Ends("error")
  /\ lastError' = error
  /\ needsReauth' = (needsReauth \/ error \in ReauthFailure)
  /\ UNCHANGED <<lastConflicts, lastSyncedAt, callbacks, polling>>
  /\ emitIfChanged

setConflicts(conflicts) ==
  /\ Mark
  /\ lastConflicts' = conflicts
  /\ UNCHANGED <<phase, syncInProgress, lastError, lastSyncedAt, needsReauth, callbacks, polling, underway>>
  /\ emitIfChanged

clearReauth ==
  /\ Mark
  /\ needsReauth' = FALSE
  /\ UNCHANGED <<phase, syncInProgress, lastError, lastConflicts, lastSyncedAt, callbacks, polling, underway>>
  /\ emitIfChanged

\* The poll, every 60 s until destroy().
Poll ==
  /\ Mark /\ polling
  /\ UNCHANGED <<phase, syncInProgress, lastError, lastConflicts, lastSyncedAt, needsReauth,
                 callbacks, polling, underway>>
  /\ emitIfChanged

subscribe(s) ==
  /\ s \notin callbacks
  /\ callbacks' = callbacks \cup {s}
  /\ told' = [told EXCEPT ![s] = currentStatus]
  /\ UNCHANGED <<phase, syncInProgress, lastError, lastConflicts, lastSyncedAt, needsReauth,
                 lastSnapshot, currentStatus, polling, marks, underway>>

unsubscribe(s) ==
  /\ s \in callbacks
  /\ callbacks' = callbacks \ {s}
  /\ UNCHANGED <<phase, syncInProgress, lastError, lastConflicts, lastSyncedAt, needsReauth,
                 lastSnapshot, currentStatus, polling, told, marks, underway>>

destroy ==
  /\ polling
  /\ polling' = FALSE /\ callbacks' = {}
  /\ UNCHANGED <<phase, syncInProgress, lastError, lastConflicts, lastSyncedAt, needsReauth,
                 lastSnapshot, currentStatus, told, marks, underway>>

StatusNext ==
  \/ destroy
  \/ markSyncStart \/ markSyncEnd \/ \E error \in Failure : markSyncError(error)
  \/ \E conflicts \in {<<>>} \cup [{1} -> Conflict] : setConflicts(conflicts)
  \/ clearReauth \/ Poll
  \/ \E s \in Subscribers : subscribe(s) \/ unsubscribe(s)

StatusSpec == StatusInit /\ [][StatusNext]_statusVars

-----------------------------------------------------------------------------

StatusTypeOK ==
  /\ phase \in {"idle", "syncing", "error"}
  /\ syncInProgress = underway /\ underway \in 0..MaxSyncs /\ marks \in 0..MaxMarks
  /\ lastError \in Failure \cup {NoError}
  /\ callbacks \subseteq Subscribers

\* Whatever snapshot is reused, every subscriber has been handed the value the
\* fields have, and the phase tells what is under way however syncs overlap.
StatusTruthful ==
  /\ Value(currentStatus) = Value(Snapshot)
  /\ \A s \in callbacks : told[s] = currentStatus
  /\ (phase = "syncing") <=> underway > 0
  /\ phase = "error" => lastError # NoError
  /\ phase = "idle" => lastError = NoError
=============================================================================
