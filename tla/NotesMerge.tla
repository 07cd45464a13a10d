----------------------------- MODULE NotesMerge -----------------------------
(***************************************************************************)
(* Merging backups of notes (packages/notes-core: mergeRemoteEntries.ts,     *)
(* foldRuleEnvelopes.ts).  Entries are merged id by id, so the model follows *)
(* one entry.  The apps that call these functions are external: replicas      *)
(* that edit, archive, restore and delete the entry, publish backups, and     *)
(* pull each other's in any order, however old.                               *)
(*                                                                            *)
(* A version stands for its text: who wrote it and when (updatedAt).  A       *)
(* deletion is the time of its tombstone, 0 if there is none.                 *)
(***************************************************************************)
EXTENDS Naturals, Sequences, FiniteSets

CONSTANTS
  Replica,
  MaxTime,    \* bounds the clock, which the replicas share
  MaxEdits    \* bounds the edits and deletions

ASSUME NotesAssumption ==
  0 \notin Replica /\ MaxTime \in Nat \ {0} /\ MaxEdits \in Nat

VARIABLES
  copy,       \* per replica: its entry and its deletion
  backup,     \* per replica: what it has published
  now,
  edits

notesVars == <<copy, backup, now, edits>>

NoEntry == [at |-> 0, by |-> 0, archived |-> FALSE, valid |-> TRUE]  \* nobody's
Empty == [entry |-> NoEntry, removedAt |-> 0]
Present(entry) == entry.by # 0

NotesInit ==
  /\ copy = [r \in Replica |-> Empty]
  /\ backup = [r \in Replica |-> Empty]
  /\ now = 1
  /\ edits = 0

-----------------------------------------------------------------------------
(* mergeRemoteEntries()                                                     *)

\* The merge of the entries: an invalid doneAt rules the remote one out, an
\* archived local one stays, ties favour local.
MergedAnyAge(local, remote) ==
  IF /\ Present(remote) /\ remote.valid /\ (Present(local) => ~local.archived)
  THEN remote ELSE local
MergedEntry(local, remote) ==
  IF /\ Present(remote) /\ remote.valid
     /\ Present(local) => ~local.archived /\ remote.at > local.at
  THEN remote ELSE local

NewestRemovalLocal(local, remote) == local
NewestRemoval(local, remote) == IF remote > local THEN remote ELSE local

\* Only an entry strictly newer than its deletion survives.
SurvivesTie(entry, removedAt) == removedAt = 0 \/ entry.at >= removedAt
Survives(entry, removedAt) == removedAt = 0 \/ entry.at > removedAt

mergeRemoteEntries(local, remote) ==
  LET entry == MergedEntry(local.entry, remote.entry)
      removedAt == NewestRemoval(local.removedAt, remote.removedAt)
  IN [entry |-> IF Survives(entry, removedAt) THEN entry ELSE NoEntry, removedAt |-> removedAt]

\* foldRuleEnvelopes(): the merge without deletions, envelope after envelope.
\* The rule that is kept is the one of the first envelope with its id.  The
\* envelopes are well formed: any other makes the call throw, without a result.
foldRuleEnvelopes(entries) ==
  LET kept[n \in 0..Len(entries)] ==
        IF n = 0 THEN NoEntry ELSE MergedEntry(kept[n - 1], entries[n])
  IN kept[Len(entries)]

-----------------------------------------------------------------------------
(* The replicas                                                             *)

Change(r, entry, removedAt) ==
  copy' = [copy EXCEPT ![r] = [entry |-> entry, removedAt |-> removedAt]]

\* A text edit, or a new entry; deletions precede it.
Edit(r) ==
  /\ edits < MaxEdits /\ edits' = edits + 1
  /\ copy[r].removedAt < now
  /\ Change(r, [at |-> now, by |-> r, archived |-> FALSE, valid |-> TRUE], copy[r].removedAt)
  /\ UNCHANGED <<backup, now>>

Delete(r) ==
  /\ edits < MaxEdits /\ edits' = edits + 1
  /\ Present(copy[r].entry)
  /\ Change(r, NoEntry, now)
  /\ UNCHANGED <<backup, now>>

\* Archiving and restoring do not bump updatedAt.
Archive(r) ==
  /\ Present(copy[r].entry)
  /\ copy' = [copy EXCEPT ![r].entry.archived = ~@]
  /\ UNCHANGED <<backup, now, edits>>

\* The backup as it is, or with an entry that has lost its valid doneAt, or with a
\* tombstone that has lost its valid removedAt: a merge skips that one as if it
\* were not there.
Publish(r, valid, readable) ==
  /\ backup' = [backup EXCEPT ![r] =
       [entry |-> IF Present(copy[r].entry) THEN [copy[r].entry EXCEPT !.valid = valid]
                  ELSE copy[r].entry,
        removedAt |-> IF readable THEN copy[r].removedAt ELSE 0]]
  /\ UNCHANGED <<copy, now, edits>>

Pull(r, s) ==
  /\ copy' = [copy EXCEPT ![r] = mergeRemoteEntries(copy[r], backup[s])]
  /\ UNCHANGED <<backup, now, edits>>

Tick ==
  /\ now < MaxTime
  /\ now' = now + 1
  /\ UNCHANGED <<copy, backup, edits>>

NotesNext ==
  \/ \E r \in Replica :
       \/ Edit(r) \/ Delete(r) \/ Archive(r)
       \/ \E valid, readable \in BOOLEAN : Publish(r, valid, readable)
       \/ \E s \in Replica \ {r} : Pull(r, s)
  \/ Tick

NotesSpec == NotesInit /\ [][NotesNext]_notesVars

-----------------------------------------------------------------------------

\* A replica never keeps an entry as old as a deletion it has heard of.
NotesTypeOK ==
  /\ \A r \in Replica : copy[r].entry.valid /\ copy[r].entry.by \in Replica \cup {0}
  /\ \A c \in {copy[r] : r \in Replica} \cup {backup[r] : r \in Replica} :
       /\ c.entry.at \in 0..now /\ c.removedAt \in 0..now
       /\ Present(c.entry) => c.entry.at > c.removedAt
  /\ now \in 1..MaxTime /\ edits \in 0..MaxEdits

\* The newest a replica knows of the entry.
Newest(c) == IF c.entry.at > c.removedAt THEN c.entry.at ELSE c.removedAt

\* A replica never falls behind what it knew: no backup, however old, brings back a
\* deleted entry or an older text, nor makes it forget a deletion.
NeverGoesBack ==
  [][\A r \in Replica :
       /\ copy'[r].removedAt >= copy[r].removedAt
       /\ Newest(copy'[r]) >= Newest(copy[r])]_notesVars

Text(entry) == <<entry.at, entry.by>>
Ties(e, f) == Present(e) /\ Present(f) /\ e.at = f.at /\ e.by # f.by

\* When every replica has published and a pull changes nothing any more, all have
\* the same text and the same deletion, whatever the order and the age of what they
\* pulled, and so has a fold of their backups in either order; but for archived
\* entries and entries of the same millisecond.
Published(r) == backup[r] = copy[r]
Quiet == \A r, s \in Replica : Published(r) /\ mergeRemoteEntries(copy[r], backup[s]) = copy[r]
QuietReplicasAgree ==
  Quiet => \A r, s \in Replica :
    LET e == copy[r].entry  f == copy[s].entry IN
    \/ e.archived \/ f.archived \/ Ties(e, f)
    \/ /\ Text(e) = Text(f) /\ copy[r].removedAt = copy[s].removedAt
       /\ Text(foldRuleEnvelopes(<<e, f>>)) = Text(e)
=============================================================================
