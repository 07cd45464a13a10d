------------------------------ MODULE NotesProofs ------------------------------
(***************************************************************************)
(* The notes: replicas that merge each other's backups agree, and the list,  *)
(* the board and the filters agree on what they show.                         *)
(***************************************************************************)
EXTENDS NotesMerge, NotesBoard, FiniteSetTheorems, FunctionTheorems,
        WellFoundedInduction, TLAPS

-----------------------------------------------------------------------------
(* NotesMerge: the inductive invariant                                      *)

Versions == [at : Nat, by : Replica \cup {0}, archived : BOOLEAN, valid : BOOLEAN]
Copies == [entry : Versions, removedAt : Nat]

\* An entry and its deletion are of the past, the entry the later one.
Sane(c, time) ==
  /\ c \in Copies
  /\ c.entry.at <= time /\ c.removedAt <= time
  /\ Present(c.entry) => c.entry.at > c.removedAt
  /\ ~Present(c.entry) => c.entry = NoEntry

\* What a replica holds is valid; only what it publishes may have lost its doneAt.
Kept(c, time) == Sane(c, time) /\ c.entry.valid = TRUE

NotesIInv ==
  /\ copy \in [Replica -> Copies] /\ backup \in [Replica -> Copies]
  /\ \A r \in Replica : Kept(copy[r], now) /\ Sane(backup[r], now)
  /\ now \in 1..MaxTime /\ edits \in 0..MaxEdits

\* A merge keeps a copy sane, whatever backup it reads: the code drops the entry
\* that is not newer than the newest deletion.
LEMMA MergeKept ==
  ASSUME NEW time \in Nat, NEW local, NEW remote, Kept(local, time), Sane(remote, time)
  PROVE  Kept(mergeRemoteEntries(local, remote), time)
  <1> DEFINE entry == MergedEntry(local.entry, remote.entry)
             removedAt == NewestRemoval(local.removedAt, remote.removedAt)
             merged == mergeRemoteEntries(local, remote)
  <1>1. /\ removedAt \in Nat /\ removedAt <= time
        /\ local.removedAt <= removedAt /\ remote.removedAt <= removedAt
    BY DEF NewestRemoval, Kept, Sane, Copies
  <1>2. /\ entry \in Versions /\ entry.at <= time /\ entry.valid = TRUE
        /\ Present(entry) => entry.at > 0
        /\ ~Present(entry) => entry = NoEntry
    <2>1. CASE entry = local.entry
      BY <2>1, NotesAssumption DEF Kept, Sane, Copies, Versions, Present
    <2>2. CASE entry = remote.entry /\ Present(remote.entry) /\ remote.entry.valid
      BY <2>2, NotesAssumption DEF Sane, Copies, Versions, Present
    <2>3. QED
      BY <2>1, <2>2 DEF MergedEntry
  <1>3. NoEntry \in Versions /\ ~Present(NoEntry) /\ NoEntry.at = 0 /\ NoEntry.valid = TRUE
    BY NotesAssumption DEF NoEntry, Versions, Present
  <1>4. merged = [entry |-> IF Survives(entry, removedAt) THEN entry ELSE NoEntry,
                  removedAt |-> removedAt]
    BY DEF mergeRemoteEntries
  <1> HIDE DEF entry, removedAt, merged
  <1>5. CASE Survives(entry, removedAt)
    <2>1. merged.entry = entry /\ merged.removedAt = removedAt /\ merged \in Copies
      BY <1>1, <1>2, <1>4, <1>5 DEF Copies
    <2>2. Present(entry) => entry.at > removedAt
      BY <1>1, <1>2, <1>5 DEF Survives, Versions
    <2>3. QED
      BY <1>1, <1>2, <2>1, <2>2 DEF Kept, Sane, merged
  <1>6. CASE ~Survives(entry, removedAt)
    <2>1. merged.entry = NoEntry /\ merged.removedAt = removedAt /\ merged \in Copies
      BY <1>1, <1>3, <1>4, <1>6 DEF Copies
    <2>2. QED
      BY <1>1, <1>3, <2>1 DEF Kept, Sane, merged
  <1>7. QED
    BY <1>5, <1>6

\* What is of the past stays so.
LEMMA SaneLater ==
  ASSUME NEW c, NEW time \in Nat, NEW later \in Nat, time <= later, Sane(c, time)
  PROVE  Sane(c, later)
  BY DEF Sane, Copies, Versions

\* One copy changes to a kept one.
LEMMA CopyChanges ==
  ASSUME NotesIInv, NEW r \in Replica, NEW c, Kept(c, now), copy' = [copy EXCEPT ![r] = c],
         UNCHANGED <<backup, now>>, edits' \in 0..MaxEdits
  PROVE  NotesIInv'
  <1>1. c \in Copies
    BY DEF Kept, Sane
  <1>2. \A s \in Replica : Kept(copy'[s], now)
    BY DEF NotesIInv
  <1>3. \A s \in Replica : Kept(copy[s], now)'
    BY <1>2 DEF Kept, Sane, Present, Copies, Versions, NoEntry
  <1>4. \A s \in Replica : Sane(backup[s], now)'
    BY DEF NotesIInv, Sane, Present, Copies, Versions, NoEntry
  <1>5. copy' \in [Replica -> Copies] /\ backup' \in [Replica -> Copies]
    BY <1>1 DEF NotesIInv
  <1>6. QED
    BY <1>3, <1>4, <1>5 DEF NotesIInv, Copies, Versions

\* The invariant holds of every reachable state.
THEOREM NotesInvariant == NotesSpec => []NotesIInv
  <1>1. NotesInit => NotesIInv
    <2> SUFFICES ASSUME NotesInit
                 PROVE  NotesIInv
      OBVIOUS
    <2>1. Empty \in Copies /\ Empty.entry = NoEntry /\ Empty.removedAt = 0
      BY NotesAssumption DEF Empty, NoEntry, Copies, Versions
    <2>2. NoEntry.at = 0 /\ NoEntry.by = 0 /\ NoEntry.valid = TRUE
      BY DEF NoEntry
    <2>3. Kept(Empty, 1) /\ Sane(Empty, 1)
      BY <2>1, <2>2 DEF Kept, Sane, Present
    <2>4. QED
      BY <2>1, <2>3, NotesAssumption DEF NotesInit, NotesIInv
  <1>2. NotesIInv /\ [NotesNext]_notesVars => NotesIInv'
    <2> SUFFICES ASSUME NotesIInv, [NotesNext]_notesVars
                 PROVE  NotesIInv'
      OBVIOUS
    <2>0. now \in Nat /\ now >= 1 /\ edits \in 0..MaxEdits /\ MaxEdits \in Nat /\ MaxTime \in Nat
      BY NotesAssumption DEF NotesIInv
    <2>1. ASSUME NEW r \in Replica, Edit(r)
          PROVE  NotesIInv'
      <3> DEFINE version == [at |-> now, by |-> r, archived |-> FALSE, valid |-> TRUE]
                 c == [entry |-> version, removedAt |-> copy[r].removedAt]
      <3>1. copy[r].removedAt \in Nat /\ copy[r].removedAt < now
        BY <2>1 DEF NotesIInv, Copies, Edit
      <3>2. version \in Versions /\ version.at = now /\ version.by = r /\ version.valid = TRUE
        BY <2>0 DEF Versions
      <3>3. copy' = [copy EXCEPT ![r] = c] /\ UNCHANGED <<backup, now>>
        BY <2>1 DEF Edit, Change
      <3>4. edits' \in 0..MaxEdits
        BY <2>0, <2>1 DEF Edit
      <3> HIDE DEF version
      <3>5. c.entry = version /\ c.removedAt = copy[r].removedAt /\ c \in Copies
        BY <3>1, <3>2 DEF Copies
      <3> HIDE DEF c
      <3>6. Present(c.entry)
        BY <3>2, <3>5, NotesAssumption DEF Present
      <3>7. Kept(c, now)
        BY <2>0, <3>1, <3>2, <3>5, <3>6 DEF Kept, Sane
      <3>8. QED
        BY <3>3, <3>4, <3>7, CopyChanges
    <2>2. ASSUME NEW r \in Replica, Delete(r)
          PROVE  NotesIInv'
      <3> DEFINE c == [entry |-> NoEntry, removedAt |-> now]
      <3>1. NoEntry \in Versions /\ NoEntry.at = 0 /\ NoEntry.by = 0 /\ NoEntry.valid = TRUE
        BY NotesAssumption DEF NoEntry, Versions
      <3>2. copy' = [copy EXCEPT ![r] = c] /\ UNCHANGED <<backup, now>>
        BY <2>2 DEF Delete, Change
      <3>3. edits' \in 0..MaxEdits
        BY <2>0, <2>2 DEF Delete
      <3>4. c.entry = NoEntry /\ c.removedAt = now /\ c \in Copies
        BY <2>0, <3>1 DEF Copies
      <3> HIDE DEF c
      <3>5. Kept(c, now)
        BY <2>0, <3>1, <3>4 DEF Kept, Sane, Present
      <3>6. QED
        BY <3>2, <3>3, <3>5, CopyChanges
    <2>3. ASSUME NEW r \in Replica, Archive(r)
          PROVE  NotesIInv'
      <3> DEFINE e == copy[r].entry
                 c == [copy[r] EXCEPT !.entry.archived = ~@]
      <3>1. Kept(copy[r], now) /\ copy[r] \in Copies /\ Present(e)
        BY <2>3 DEF NotesIInv, Archive
      <3>2. copy' = [copy EXCEPT ![r] = c] /\ UNCHANGED <<backup, now>> /\ edits' \in 0..MaxEdits
        BY <2>0, <2>3 DEF Archive, NotesIInv
      <3>3. /\ c \in Copies /\ c.removedAt = copy[r].removedAt
            /\ c.entry.at = e.at /\ c.entry.by = e.by /\ c.entry.valid = e.valid
        BY <3>1 DEF Copies, Versions
      <3> HIDE DEF c
      <3>4. Kept(c, now)
        BY <3>1, <3>3 DEF Kept, Sane, Present
      <3>5. QED
        BY <3>2, <3>4, CopyChanges
    <2>4. ASSUME NEW r \in Replica, NEW valid \in BOOLEAN, NEW readable \in BOOLEAN,
                 Publish(r, valid, readable)
          PROVE  NotesIInv'
      <3> DEFINE e == copy[r].entry
                 f == IF Present(e) THEN [e EXCEPT !.valid = valid] ELSE e
                 at == IF readable THEN copy[r].removedAt ELSE 0
                 c == [entry |-> f, removedAt |-> at]
      <3>1. Kept(copy[r], now) /\ copy[r] \in Copies
        BY DEF NotesIInv
      <3>2. backup' = [backup EXCEPT ![r] = c] /\ UNCHANGED <<copy, now, edits>>
        BY <2>4 DEF Publish
      <3>3. Sane(c, now)
        <4>1. e \in Versions /\ copy[r].removedAt \in Nat
          BY <3>1 DEF Copies
        <4>2. f \in Versions /\ f.at = e.at /\ f.by = e.by /\ (~Present(e) => f = e)
          BY <4>1 DEF Versions
        <4>3. at \in Nat /\ at <= copy[r].removedAt
          BY <4>1
        <4> HIDE DEF f, at
        <4>4. c \in Copies /\ c.entry = f /\ c.removedAt = at
          BY <4>2, <4>3 DEF Copies
        <4> HIDE DEF c
        <4>5. e.at \in Nat /\ now \in Nat
          BY <4>1 DEF Versions, NotesIInv
        <4>6. QED
          BY <3>1, <4>1, <4>2, <4>3, <4>4, <4>5 DEF Kept, Sane, Present
      <3> HIDE DEF c
      <3>4. c \in Copies
        BY <3>3 DEF Sane
      <3>5. backup' \in [Replica -> Copies]
        BY <3>2, <3>4 DEF NotesIInv
      <3>6. \A s \in Replica : Sane(backup'[s], now)
        BY <3>2, <3>3 DEF NotesIInv
      <3>7. \A s \in Replica : Sane(backup[s], now)'
        BY <3>2, <3>6 DEF Sane, Present, Copies, Versions, NoEntry
      <3>8. \A s \in Replica : Kept(copy[s], now)'
        BY <3>2 DEF NotesIInv, Kept, Sane, Present, Copies, Versions, NoEntry
      <3>9. QED
        BY <3>2, <3>5, <3>7, <3>8 DEF NotesIInv, Copies, Versions
    <2>5. ASSUME NEW r \in Replica, NEW s \in Replica \ {r}, Pull(r, s)
          PROVE  NotesIInv'
      <3>1. Kept(mergeRemoteEntries(copy[r], backup[s]), now)
        BY <2>0, MergeKept DEF NotesIInv
      <3>2. /\ copy' = [copy EXCEPT ![r] = mergeRemoteEntries(copy[r], backup[s])]
            /\ UNCHANGED <<backup, now>> /\ edits' \in 0..MaxEdits
        BY <2>0, <2>5 DEF Pull
      <3>3. QED
        BY <3>1, <3>2, CopyChanges
    <2>6. CASE Tick
      <3>1. now' = now + 1 /\ now' \in 1..MaxTime /\ UNCHANGED <<copy, backup, edits>>
        BY <2>0, <2>6 DEF Tick
      <3>2. \A s \in Replica : Sane(copy[s], now + 1) /\ Sane(backup[s], now + 1)
        BY <2>0, SaneLater DEF NotesIInv, Kept
      <3>3. \A s \in Replica : Kept(copy[s], now + 1)
        BY <3>2 DEF NotesIInv, Kept
      <3>4. \A s \in Replica : Kept(copy[s], now)' /\ Sane(backup[s], now)'
        BY <3>1, <3>2, <3>3 DEF Kept, Sane, Present, Copies, Versions, NoEntry
      <3>5. QED
        BY <3>1, <3>4 DEF NotesIInv, Copies, Versions
    <2>7. CASE UNCHANGED notesVars
      BY <2>7 DEF NotesIInv, notesVars, Kept, Sane, Present, Copies, Versions, NoEntry
    <2>8. QED
      BY <2>1, <2>2, <2>3, <2>4, <2>5, <2>6, <2>7 DEF NotesNext
  <1>3. QED
    BY <1>1, <1>2, PTL DEF NotesSpec

\* A replica never keeps an entry as old as a deletion it has heard of, nor one
\* without a valid doneAt (mergeRemoteEntries).
THEOREM NotesTypeCorrect == NotesSpec => []NotesTypeOK
  <1>1. NotesIInv => NotesTypeOK
    <2> SUFFICES ASSUME NotesIInv
                 PROVE  NotesTypeOK
      OBVIOUS
    <2>1. \A r \in Replica : copy[r].entry.valid /\ copy[r].entry.by \in Replica \cup {0}
      BY DEF NotesIInv, Kept, Sane, Copies, Versions
    <2>2. \A c \in {copy[r] : r \in Replica} \cup {backup[r] : r \in Replica} : Sane(c, now)
      <3>1. \A r \in Replica : Sane(copy[r], now) /\ Sane(backup[r], now)
        BY DEF NotesIInv, Kept
      <3>2. QED
        BY <3>1
    <2>3. now \in 1..MaxTime /\ edits \in 0..MaxEdits
      BY DEF NotesIInv
    <2>4. \A c \in {copy[r] : r \in Replica} \cup {backup[r] : r \in Replica} :
            /\ c.entry.at \in 0..now /\ c.removedAt \in 0..now
            /\ Present(c.entry) => c.entry.at > c.removedAt
      <3> SUFFICES ASSUME NEW c \in {copy[r] : r \in Replica} \cup {backup[r] : r \in Replica}
                   PROVE  /\ c.entry.at \in 0..now /\ c.removedAt \in 0..now
                          /\ Present(c.entry) => c.entry.at > c.removedAt
        OBVIOUS
      <3>1. Sane(c, now)
        BY <2>2
      <3>2. QED
        BY <2>3, <3>1 DEF Sane, Copies, Versions
    <2>5. QED
      BY <2>1, <2>3, <2>4 DEF NotesTypeOK
  <1>2. QED
    BY <1>1, NotesInvariant, PTL

-----------------------------------------------------------------------------
(* Agreement                                                                *)

\* What foldRuleEnvelopes() makes of two envelopes.
LEMMA FoldOfTwo ==
  ASSUME NEW e, NEW f
  PROVE  foldRuleEnvelopes(<<e, f>>) = MergedEntry(MergedEntry(NoEntry, e), f)
  <1> DEFINE pair == <<e, f>>
             Folds(g) == g = [n \in 0..2 |->
                               IF n = 0 THEN NoEntry ELSE MergedEntry(g[n - 1], pair[n])]
             once == MergedEntry(NoEntry, e)
             twice == MergedEntry(once, f)
             h == [n \in 0..2 |-> IF n = 0 THEN NoEntry ELSE IF n = 1 THEN once ELSE twice]
             kept == CHOOSE g : Folds(g)
  <1>1. Len(pair) = 2 /\ pair[1] = e /\ pair[2] = f
    OBVIOUS
  <1>2. h[0] = NoEntry /\ h[1] = once /\ h[2] = twice
    OBVIOUS
  <1>3. foldRuleEnvelopes(pair) = kept[2]
    BY <1>1 DEF foldRuleEnvelopes
  <1>4. Folds(h)
    <2>1. \A n \in 0..2 : h[n] = IF n = 0 THEN NoEntry ELSE MergedEntry(h[n - 1], pair[n])
      <3> SUFFICES ASSUME NEW n \in 0..2
                   PROVE  h[n] = IF n = 0 THEN NoEntry ELSE MergedEntry(h[n - 1], pair[n])
        OBVIOUS
      <3> HIDE DEF h, pair
      <3>1. CASE n = 0
        BY <1>2, <3>1
      <3>2. CASE n = 1
        BY <1>1, <1>2, <3>2
      <3>3. CASE n = 2
        BY <1>1, <1>2, <3>3
      <3>4. QED
        BY <3>1, <3>2, <3>3
    <2>2. QED
      BY <2>1
  <1>5. Folds(kept)
    <2> HIDE DEF Folds, h
    <2>1. QED
      BY <1>4
  <1>6. /\ kept[0] = NoEntry
        /\ kept[1] = MergedEntry(kept[0], pair[1])
        /\ kept[2] = MergedEntry(kept[1], pair[2])
    <2> HIDE DEF kept, pair
    <2>1. \A n \in 0..2 : kept[n] = IF n = 0 THEN NoEntry ELSE MergedEntry(kept[n - 1], pair[n])
      BY <1>5
    <2>2. QED
      BY <2>1
  <1> HIDE DEF kept
  <1>7. QED
    BY <1>1, <1>3, <1>6

\* A replica that learns nothing from another's copy has heard of its deletion, and
\* has an entry as new as the other's unless its own is archived.
LEMMA NothingToLearn ==
  ASSUME NEW time, NEW a, NEW b, Kept(a, time), Kept(b, time), mergeRemoteEntries(a, b) = a
  PROVE  /\ a.removedAt >= b.removedAt
         /\ Present(b.entry) /\ a.removedAt = b.removedAt /\ ~a.entry.archived
              => Present(a.entry) /\ a.entry.at >= b.entry.at
  <1> DEFINE entry == MergedEntry(a.entry, b.entry)
             removedAt == NewestRemoval(a.removedAt, b.removedAt)
  <1>1. a.removedAt = removedAt /\ a.entry = IF Survives(entry, removedAt) THEN entry ELSE NoEntry
    BY DEF mergeRemoteEntries
  <1>2. a.removedAt \in Nat /\ b.removedAt \in Nat /\ a.entry.at \in Nat /\ b.entry.at \in Nat
    BY DEF Kept, Sane, Copies, Versions
  <1>3. a.removedAt >= b.removedAt
    BY <1>1, <1>2 DEF NewestRemoval
  <1>4. ASSUME Present(b.entry), a.removedAt = b.removedAt, ~a.entry.archived,
               ~(Present(a.entry) /\ a.entry.at >= b.entry.at)
        PROVE  FALSE
    <2>1. entry = b.entry
      BY <1>2, <1>4 DEF MergedEntry, Kept
    <2>2. Survives(entry, removedAt)
      BY <1>1, <1>2, <1>4, <2>1 DEF Survives, Kept, Sane
    <2>3. a.entry = b.entry
      BY <1>1, <2>1, <2>2
    <2>4. QED
      BY <1>2, <1>4, <2>3
  <1>5. QED
    BY <1>3, <1>4

\* When every replica has published and no pull changes anything, all replicas have the
\* same text and deletion and fold their backups to it, but for archived entries and ties:
\* for any number of replicas, whatever they pulled, in any order and of any age
\* (mergeRemoteEntries, foldRuleEnvelopes).
THEOREM QuietReplicasAgreeHolds == NotesSpec => []QuietReplicasAgree
  <1>1. NotesIInv => QuietReplicasAgree
    <2> SUFFICES ASSUME NotesIInv, Quiet, NEW r \in Replica, NEW s \in Replica,
                        ~copy[r].entry.archived, ~copy[s].entry.archived,
                        ~Ties(copy[r].entry, copy[s].entry)
                 PROVE  /\ Text(copy[r].entry) = Text(copy[s].entry)
                        /\ copy[r].removedAt = copy[s].removedAt
                        /\ Text(foldRuleEnvelopes(<<copy[r].entry, copy[s].entry>>)) = Text(copy[r].entry)
      BY DEF QuietReplicasAgree
    <2> DEFINE a == copy[r]
               b == copy[s]
    <2>1. mergeRemoteEntries(a, b) = a /\ mergeRemoteEntries(b, a) = b
      BY DEF Quiet, Published
    <2>2. Kept(a, now) /\ Kept(b, now)
      BY DEF NotesIInv
    <2>3. ~a.entry.archived /\ ~b.entry.archived /\ ~Ties(a.entry, b.entry)
      OBVIOUS
    <2> SUFFICES /\ Text(a.entry) = Text(b.entry) /\ a.removedAt = b.removedAt
                 /\ Text(foldRuleEnvelopes(<<a.entry, b.entry>>)) = Text(a.entry)
      OBVIOUS
    <2> HIDE DEF a, b
    <2>4. a.removedAt \in Nat /\ b.removedAt \in Nat /\ a.entry.at \in Nat /\ b.entry.at \in Nat
      BY <2>2 DEF Kept, Sane, Copies, Versions
    <2>5. a.removedAt = b.removedAt
      <3>1. a.removedAt >= b.removedAt
        BY <2>1, <2>2, NothingToLearn
      <3>2. b.removedAt >= a.removedAt
        BY <2>1, <2>2, NothingToLearn
      <3>3. QED
        BY <2>4, <3>1, <3>2
    <2>6. Present(b.entry) => Present(a.entry) /\ a.entry.at >= b.entry.at
      BY <2>1, <2>2, <2>3, <2>5, NothingToLearn
    <2>7. Present(a.entry) => Present(b.entry) /\ b.entry.at >= a.entry.at
      BY <2>1, <2>2, <2>3, <2>5, NothingToLearn
    <2>8. CASE Present(a.entry)
      <3>1. Present(b.entry) /\ a.entry.at = b.entry.at
        BY <2>4, <2>6, <2>7, <2>8
      <3>2. a.entry.by = b.entry.by
        BY <2>3, <2>8, <3>1 DEF Ties
      <3>3. MergedEntry(NoEntry, a.entry) = a.entry
        BY <2>2, <2>8 DEF MergedEntry, Present, NoEntry, Kept
      <3>4. MergedEntry(a.entry, b.entry) = a.entry
        BY <2>4, <2>8, <3>1 DEF MergedEntry
      <3>5. foldRuleEnvelopes(<<a.entry, b.entry>>) = a.entry
        BY <3>3, <3>4, FoldOfTwo
      <3>6. QED
        BY <2>5, <3>1, <3>2, <3>5 DEF Text
    <2>9. CASE ~Present(a.entry)
      <3>1. a.entry = NoEntry /\ b.entry = NoEntry
        BY <2>2, <2>6, <2>9 DEF Kept, Sane
      <3>2. MergedEntry(NoEntry, NoEntry) = NoEntry
        BY DEF MergedEntry
      <3>3. foldRuleEnvelopes(<<a.entry, b.entry>>) = NoEntry
        BY <3>1, <3>2, FoldOfTwo
      <3>4. QED
        BY <2>5, <3>1, <3>3
    <2>10. QED
      BY <2>5, <2>8, <2>9
  <1>2. QED
    BY <1>1, NotesInvariant, PTL

-----------------------------------------------------------------------------
(* What a replica knows only grows, and the order of pulls does not matter   *)

\* The time of a remote entry that may replace a local one; an entry is present from 1 on.
Offers(c) == IF c.entry.valid THEN c.entry.at ELSE 0
Settled(c) == ~c.entry.archived

LEMMA KeptFacts ==
  ASSUME NEW time \in Nat, NEW c, Sane(c, time)
  PROVE  /\ c.entry.at \in Nat /\ c.removedAt \in Nat
         /\ c.entry.valid \in BOOLEAN /\ c.entry.archived \in BOOLEAN
         /\ Present(c.entry) => c.entry.at > c.removedAt /\ c.entry.at > 0
         /\ ~Present(c.entry) => c.entry.at = 0 /\ c.entry.by = 0
  BY DEF Sane, Copies, Versions, Present, NoEntry

\* A merge keeps the newest entry of the two, if it is newer than the newest deletion.
LEMMA MergeIsNewest ==
  ASSUME NEW time \in Nat, NEW local, NEW remote, Kept(local, time), Sane(remote, time)
  PROVE  LET m == mergeRemoteEntries(local, remote) IN
         /\ m.removedAt = NewestRemoval(local.removedAt, remote.removedAt)
         /\ m.entry \in {local.entry, remote.entry, NoEntry}
         /\ m.entry.at > m.removedAt \/ m.entry = NoEntry
         /\ Settled(local) =>
              m.entry = IF Offers(remote) > local.entry.at
                        THEN IF Offers(remote) > m.removedAt THEN remote.entry ELSE NoEntry
                        ELSE IF local.entry.at > m.removedAt THEN local.entry ELSE NoEntry
         /\ m.entry # NoEntry => m.entry.at >= local.entry.at
         /\ m.entry = NoEntry => local.entry.at <= m.removedAt
  <1> DEFINE entry == MergedEntry(local.entry, remote.entry)
             removedAt == NewestRemoval(local.removedAt, remote.removedAt)
             m == mergeRemoteEntries(local, remote)
  <1>1. /\ m.removedAt = removedAt
        /\ m.entry = IF Survives(entry, removedAt) THEN entry ELSE NoEntry
    BY DEF mergeRemoteEntries
  <1>2. Sane(local, time) /\ local.entry.valid = TRUE
    BY DEF Kept
  <1>3. /\ local.entry.at \in Nat /\ remote.entry.at \in Nat
        /\ local.removedAt \in Nat /\ remote.removedAt \in Nat
        /\ remote.entry.valid \in BOOLEAN /\ local.entry.archived \in BOOLEAN
        /\ Present(local.entry) <=> local.entry.at > 0
        /\ Present(remote.entry) <=> remote.entry.at > 0
        /\ ~Present(local.entry) => local.entry = NoEntry
    BY <1>2, KeptFacts DEF Sane
  <1>4. removedAt \in Nat /\ local.removedAt <= removedAt
    BY <1>3 DEF NewestRemoval
  <1>5. entry = IF /\ Offers(remote) > local.entry.at
                   /\ Present(local.entry) => Settled(local)
                THEN remote.entry ELSE local.entry
    BY <1>3 DEF MergedEntry, Offers, Settled
  <1>6. NoEntry.at = 0 /\ NoEntry.archived = FALSE
    BY DEF NoEntry
  <1>7. entry.at \in Nat /\ entry.at >= local.entry.at /\ (entry.at = 0 => entry = NoEntry)
    <2>1. \/ entry = remote.entry /\ remote.entry.at > local.entry.at
          \/ entry = local.entry
      BY <1>3, <1>5 DEF Offers
    <2>2. QED
      BY <1>3, <1>6, <2>1
  <1> HIDE DEF entry, removedAt, m
  <1>8. m.entry = IF entry.at > removedAt THEN entry ELSE NoEntry
    BY <1>1, <1>4, <1>7 DEF Survives
  <1>9. Settled(local) => entry = IF Offers(remote) > local.entry.at THEN remote.entry ELSE local.entry
    BY <1>5
  <1>10. Offers(remote) > local.entry.at => remote.entry.at = Offers(remote)
    BY <1>3 DEF Offers
  <1>11. Settled(local) =>
              m.entry = IF Offers(remote) > local.entry.at
                        THEN IF Offers(remote) > m.removedAt THEN remote.entry ELSE NoEntry
                        ELSE IF local.entry.at > m.removedAt THEN local.entry ELSE NoEntry
    BY <1>1, <1>8, <1>9, <1>10
  <1>12. /\ m.entry \in {local.entry, remote.entry, NoEntry}
         /\ m.entry.at > m.removedAt \/ m.entry = NoEntry
    BY <1>1, <1>5, <1>8
  <1>13. /\ m.entry # NoEntry => m.entry.at >= local.entry.at
         /\ m.entry = NoEntry => local.entry.at <= m.removedAt
    BY <1>1, <1>3, <1>4, <1>6, <1>7, <1>8
  <1>14. QED
    BY <1>1, <1>11, <1>12, <1>13 DEF removedAt, m

\* No edit, deletion or pull takes a replica behind what it knew, for any number of replicas
\* and whatever the age of the backups they pull (mergeRemoteEntries).
THEOREM NeverGoesBackHolds == NotesSpec => NeverGoesBack
  <1>1. ASSUME NotesIInv, [NotesNext]_notesVars, NEW r \in Replica
        PROVE  /\ copy'[r].removedAt >= copy[r].removedAt
               /\ Newest(copy'[r]) >= Newest(copy[r])
    <2>1. /\ now \in Nat
          /\ copy[r].entry.at \in Nat /\ copy[r].removedAt \in Nat
          /\ copy[r].entry.at <= now /\ copy[r].removedAt <= now
      BY <1>1, KeptFacts DEF NotesIInv, Kept, Sane, Copies, Versions
    <2>2. CASE UNCHANGED copy
      BY <2>1, <2>2 DEF Newest
    <2>3. ASSUME NEW s \in Replica, Edit(s) \/ Delete(s) \/ Archive(s)
          PROVE  /\ copy'[r].removedAt >= copy[r].removedAt
                 /\ Newest(copy'[r]) >= Newest(copy[r])
      <3>1. CASE s = r
        <4>1. CASE Edit(s)
          <5>1. copy'[r].entry.at = now /\ copy'[r].removedAt = copy[r].removedAt
            BY <1>1, <3>1, <4>1 DEF Edit, Change, NotesIInv
          <5>2. QED
            BY <2>1, <5>1 DEF Newest
        <4>2. CASE Delete(s)
          <5>1. copy'[r].entry.at = 0 /\ copy'[r].removedAt = now
            BY <1>1, <3>1, <4>2 DEF Delete, Change, NoEntry, NotesIInv
          <5>2. QED
            BY <2>1, <5>1 DEF Newest
        <4>3. CASE Archive(s)
          <5>1. copy'[r].entry.at = copy[r].entry.at /\ copy'[r].removedAt = copy[r].removedAt
            BY <1>1, <3>1, <4>3 DEF Archive, NotesIInv, Copies, Versions
          <5>2. QED
            BY <2>1, <5>1 DEF Newest
        <4>4. QED
          BY <2>3, <4>1, <4>2, <4>3
      <3>2. CASE s # r
        <4>1. copy'[r] = copy[r]
          BY <1>1, <2>3, <3>2 DEF Edit, Delete, Archive, Change, NotesIInv
        <4>2. QED
          BY <2>1, <4>1 DEF Newest
      <3>3. QED
        BY <3>1, <3>2
    <2>4. ASSUME NEW s \in Replica, NEW t \in Replica \ {s}, Pull(s, t)
          PROVE  /\ copy'[r].removedAt >= copy[r].removedAt
                 /\ Newest(copy'[r]) >= Newest(copy[r])
      <3> DEFINE m == mergeRemoteEntries(copy[r], backup[t])
      <3>1. CASE s = r
        <4>1. copy'[r] = m
          BY <1>1, <2>4, <3>1 DEF Pull, NotesIInv
        <4>2. Kept(copy[r], now) /\ Sane(backup[t], now)
          BY <1>1 DEF NotesIInv
        <4>3. /\ m.removedAt = NewestRemoval(copy[r].removedAt, backup[t].removedAt)
              /\ m.entry.at > m.removedAt \/ m.entry = NoEntry
              /\ m.entry # NoEntry => m.entry.at >= copy[r].entry.at
              /\ m.entry = NoEntry => copy[r].entry.at <= m.removedAt
          BY <2>1, <4>2, MergeIsNewest
        <4>4. backup[t].removedAt \in Nat
          BY <2>1, <4>2, KeptFacts
        <4>5. m.removedAt \in Nat /\ m.removedAt >= copy[r].removedAt
          BY <2>1, <4>3, <4>4 DEF NewestRemoval
        <4>6. m.entry.at \in Nat /\ NoEntry.at = 0
          BY <2>1, <4>2, MergeKept, KeptFacts DEF Kept, NoEntry
        <4> HIDE DEF m
        <4>7. QED
          BY <2>1, <4>1, <4>3, <4>5, <4>6 DEF Newest
      <3>2. CASE s # r
        <4>1. copy'[r] = copy[r]
          BY <1>1, <2>4, <3>2 DEF Pull, NotesIInv
        <4>2. QED
          BY <2>1, <4>1 DEF Newest
      <3>3. QED
        BY <3>1, <3>2
    <2>5. QED
      BY <1>1, <2>2, <2>3, <2>4 DEF NotesNext, Publish, Tick, notesVars
  <1>2. NotesIInv /\ [NotesNext]_notesVars =>
          [\A r \in Replica :
             /\ copy'[r].removedAt >= copy[r].removedAt
             /\ Newest(copy'[r]) >= Newest(copy[r])]_notesVars
    BY <1>1
  <1>3. QED
    BY <1>2, NotesInvariant, PTL DEF NotesSpec, NeverGoesBack

\* The time and the author a merge ends up with.
LEMMA MergeText ==
  ASSUME NEW time \in Nat, NEW c, NEW a, Kept(c, time), Sane(a, time), Settled(c), Settled(a)
  PROVE  LET m == mergeRemoteEntries(c, a) IN
         /\ Kept(m, time) /\ Settled(m)
         /\ m.removedAt = NewestRemoval(c.removedAt, a.removedAt)
         /\ m.entry.at = IF Offers(a) > c.entry.at
                         THEN IF Offers(a) > m.removedAt THEN Offers(a) ELSE 0
                         ELSE IF c.entry.at > m.removedAt THEN c.entry.at ELSE 0
         /\ m.entry.by = IF Offers(a) > c.entry.at
                         THEN IF Offers(a) > m.removedAt THEN a.entry.by ELSE 0
                         ELSE IF c.entry.at > m.removedAt THEN c.entry.by ELSE 0
  <1> DEFINE m == mergeRemoteEntries(c, a)
  <1>1. Kept(m, time)
    BY MergeKept
  <1>2. NoEntry.at = 0 /\ NoEntry.by = 0 /\ NoEntry.archived = FALSE
    BY DEF NoEntry
  <1>3. c.entry.at \in Nat /\ a.entry.at \in Nat /\ a.entry.valid \in BOOLEAN
    BY KeptFacts DEF Kept
  <1>4. Offers(a) > c.entry.at => a.entry.at = Offers(a)
    BY <1>3 DEF Offers
  <1>5. /\ m.removedAt = NewestRemoval(c.removedAt, a.removedAt)
        /\ m.entry \in {c.entry, a.entry, NoEntry}
        /\ m.entry = IF Offers(a) > c.entry.at
                     THEN IF Offers(a) > m.removedAt THEN a.entry ELSE NoEntry
                     ELSE IF c.entry.at > m.removedAt THEN c.entry ELSE NoEntry
    BY MergeIsNewest
  <1> HIDE DEF m
  <1>6. Settled(m)
    BY <1>2, <1>5 DEF Settled
  <1>7. QED
    BY <1>1, <1>2, <1>4, <1>5, <1>6 DEF m

\* Two backups, of any age, valid or not and with any deletions, give the same text and the
\* same deletion in whichever order a replica pulls them, but for archived entries and
\* entries of the same millisecond (mergeRemoteEntries).
THEOREM PullOrderIrrelevant ==
  ASSUME NEW time \in Nat, NEW c, NEW a, NEW b,
         Kept(c, time), Sane(a, time), Sane(b, time),
         Settled(c), Settled(a), Settled(b), ~Ties(a.entry, b.entry)
  PROVE  LET ab == mergeRemoteEntries(mergeRemoteEntries(c, a), b)
             ba == mergeRemoteEntries(mergeRemoteEntries(c, b), a)
         IN  Text(ab.entry) = Text(ba.entry) /\ ab.removedAt = ba.removedAt
  <1> DEFINE ca == mergeRemoteEntries(c, a)
             cb == mergeRemoteEntries(c, b)
             ab == mergeRemoteEntries(ca, b)
             ba == mergeRemoteEntries(cb, a)
  <1>1. /\ Kept(ca, time) /\ Settled(ca)
        /\ ca.removedAt = NewestRemoval(c.removedAt, a.removedAt)
        /\ ca.entry.at = IF Offers(a) > c.entry.at
                         THEN IF Offers(a) > ca.removedAt THEN Offers(a) ELSE 0
                         ELSE IF c.entry.at > ca.removedAt THEN c.entry.at ELSE 0
        /\ ca.entry.by = IF Offers(a) > c.entry.at
                         THEN IF Offers(a) > ca.removedAt THEN a.entry.by ELSE 0
                         ELSE IF c.entry.at > ca.removedAt THEN c.entry.by ELSE 0
    BY MergeText
  <1>2. /\ Kept(cb, time) /\ Settled(cb)
        /\ cb.removedAt = NewestRemoval(c.removedAt, b.removedAt)
        /\ cb.entry.at = IF Offers(b) > c.entry.at
                         THEN IF Offers(b) > cb.removedAt THEN Offers(b) ELSE 0
                         ELSE IF c.entry.at > cb.removedAt THEN c.entry.at ELSE 0
        /\ cb.entry.by = IF Offers(b) > c.entry.at
                         THEN IF Offers(b) > cb.removedAt THEN b.entry.by ELSE 0
                         ELSE IF c.entry.at > cb.removedAt THEN c.entry.by ELSE 0
    BY MergeText
  <1> HIDE DEF ca, cb
  <1>3. /\ ab.removedAt = NewestRemoval(ca.removedAt, b.removedAt)
        /\ ab.entry.at = IF Offers(b) > ca.entry.at
                         THEN IF Offers(b) > ab.removedAt THEN Offers(b) ELSE 0
                         ELSE IF ca.entry.at > ab.removedAt THEN ca.entry.at ELSE 0
        /\ ab.entry.by = IF Offers(b) > ca.entry.at
                         THEN IF Offers(b) > ab.removedAt THEN b.entry.by ELSE 0
                         ELSE IF ca.entry.at > ab.removedAt THEN ca.entry.by ELSE 0
    BY <1>1, MergeText
  <1>4. /\ ba.removedAt = NewestRemoval(cb.removedAt, a.removedAt)
        /\ ba.entry.at = IF Offers(a) > cb.entry.at
                         THEN IF Offers(a) > ba.removedAt THEN Offers(a) ELSE 0
                         ELSE IF cb.entry.at > ba.removedAt THEN cb.entry.at ELSE 0
        /\ ba.entry.by = IF Offers(a) > cb.entry.at
                         THEN IF Offers(a) > ba.removedAt THEN a.entry.by ELSE 0
                         ELSE IF cb.entry.at > ba.removedAt THEN cb.entry.by ELSE 0
    BY <1>2, MergeText
  <1> HIDE DEF ab, ba
  <1>5. /\ c.entry.at \in Nat /\ Offers(a) \in Nat /\ Offers(b) \in Nat
        /\ c.removedAt \in Nat /\ a.removedAt \in Nat /\ b.removedAt \in Nat
    BY KeptFacts DEF Kept, Offers
  <1>6. Offers(a) = Offers(b) /\ Offers(a) > 0 => a.entry.by = b.entry.by
    BY <1>5, KeptFacts DEF Offers, Ties
  <1>7. ab.removedAt = ba.removedAt
    BY <1>1, <1>2, <1>3, <1>4, <1>5 DEF NewestRemoval
  <1>8. /\ ca.removedAt \in Nat /\ cb.removedAt \in Nat /\ ab.removedAt \in Nat
        /\ ca.removedAt <= ab.removedAt /\ cb.removedAt <= ab.removedAt
        /\ c.removedAt <= ca.removedAt /\ c.removedAt <= cb.removedAt
    BY <1>1, <1>2, <1>3, <1>4, <1>5, <1>7 DEF NewestRemoval
  <1>9. ab.entry.at = ba.entry.at
    BY <1>1, <1>2, <1>3, <1>4, <1>5, <1>7, <1>8
  <1>10. ab.entry.by = ba.entry.by
    BY <1>1, <1>2, <1>3, <1>4, <1>5, <1>6, <1>7, <1>8
  <1>11. QED
    BY <1>7, <1>9, <1>10 DEF Text, ca, cb, ab, ba

-----------------------------------------------------------------------------
(* NotesBoard: the inductive invariant                                      *)

BoardIInv == text \in EntryTexts /\ BoardTypeOK

\* The user changes the filters and the entry's state, never its text.
THEOREM BoardInvariant == BoardSpec => []BoardIInv
  <1>1. BoardInit => BoardIInv
    BY BoardAssumption DEF BoardInit, BoardIInv, BoardTypeOK, Queries
  <1>2. BoardIInv /\ [BoardNext]_boardVars => BoardIInv'
    BY DEF BoardIInv, BoardTypeOK, BoardNext, SetDone, SetArchived, SelectTags, SelectDate,
           Search, boardVars, entryVars, filterVars
  <1>3. QED
    BY <1>1, <1>2, PTL DEF BoardSpec

\* The filters and the entry's state stay what the views offer.
THEOREM BoardTypeCorrect == BoardSpec => []BoardTypeOK
  <1>1. BoardIInv => BoardTypeOK
    BY DEF BoardIInv
  <1>2. QED
    BY <1>1, BoardInvariant, PTL

LEMMA TextTyped ==
  ASSUME BoardIInv
  PROVE  /\ Len(text) \in Nat
         /\ \A i \in 1..Len(text) : text[i] \in Sections
         /\ RemainingLength(text) \in 0..Len(text)
         /\ HasGlobalTag(text) => Len(text) \in 1..Len(text)
  <1>1. text \in Seq(Sections)
    BY BoardAssumption DEF BoardIInv
  <1>2. Len(text) \in Nat /\ (text # <<>> => Len(text) >= 1)
    BY <1>1
  <1>3. \A i \in 1..Len(text) : text[i] \in Sections
    BY <1>1
  <1>4. QED
    BY <1>2, <1>3 DEF RemainingLength, HasGlobalTag

-----------------------------------------------------------------------------
(* The filters                                                              *)

\* A date or a query more never shows a section more.
LEMMA ShownNarrow ==
  ASSUME NEW selection, NEW day, NEW tab, NEW query
  PROVE  Shown(selection, day, tab, query) \subseteq Shown(selection, AnyDate, tab, NoQuery)
  BY DEF Shown, dateMatchesSelection, matchesQuery, GroupSelected

\* The 'upcoming' tab shows nothing the other one does not.
LEMMA ShownInAll ==
  ASSUME NEW selection, NEW day, NEW query
  PROVE  Shown(selection, day, "upcoming", query) \subseteq Shown(selection, day, "all", query)
  BY DEF Shown, matchesDateTab

\* A section is of its own group.
LEMMA InOwnGroup ==
  ASSUME NEW i \in Nat, i >= 1, RemainingLength(text) \in Nat, i <= RemainingLength(text)
  PROVE  i \in groupSectionsByTag(text, i)
  BY DEF groupSectionsByTag

\* A section that contains the query itself is shown with the query if it is without.
LEMMA ShownWithQuery ==
  ASSUME BoardIInv, NEW selection, NEW day, NEW query,
         NEW i \in Shown(selection, day, "all", NoQuery), matchesQuery(text[i], query)
  PROVE  i \in Shown(selection, day, "all", query)
  <1>1. i \in 1..Len(text) /\ i \in Nat /\ i >= 1
    BY TextTyped DEF Shown
  <1>2. CASE GlobalTagMatches(text, selection)
    BY <1>1, <1>2 DEF Shown
  <1>3. CASE ~GlobalTagMatches(text, selection)
    <2>1. i <= RemainingLength(text)
      BY <1>3 DEF Shown
    <2>2. i \in groupSectionsByTag(text, i)
      BY <1>1, <2>1, TextTyped, InOwnGroup
    <2>3. QED
      BY <1>1, <1>3, <2>1, <2>2 DEF Shown
  <1>4. QED
    BY <1>2, <1>3

\* Whatever the text, the tags and the date: a filter more never reveals a section
\* (filterParagraphsForTab, filterParagraphsInEntry).
THEOREM FiltersNarrowHolds == BoardSpec => []FiltersNarrow
  <1>1. BoardIInv => FiltersNarrow
    <2> SUFFICES ASSUME BoardIInv
                 PROVE  FiltersNarrow
      OBVIOUS
    <2> DEFINE Tab(tab, day, query) == filterParagraphsForTab(tab, selectedTags, day, query)
    <2>1. ASSUME NEW tab
          PROVE  Tab(tab, selectedDate, searching) \subseteq Tab(tab, AnyDate, NoQuery)
      <3>1. CASE tab = "upcoming" /\ doneAt # NoDay
        BY <3>1, ShownNarrow DEF filterParagraphsForTab, filterParagraphsInEntry, matchesQuery
      <3>2. CASE ~(tab = "upcoming" /\ doneAt # NoDay)
        BY <3>2, ShownNarrow DEF filterParagraphsForTab
      <3>3. QED
        BY <3>1, <3>2
    <2>2. Tab("upcoming", selectedDate, searching) \subseteq Tab("all", selectedDate, searching)
      <3>1. CASE doneAt # NoDay
        BY <3>1, ShownWithQuery DEF filterParagraphsForTab, filterParagraphsInEntry
      <3>2. CASE doneAt = NoDay
        BY <3>2, ShownInAll DEF filterParagraphsForTab
      <3>3. QED
        BY <3>1, <3>2
    <2>3. filterParagraphsInEntry("tag", selectedTags, selectedDate, NoQuery)
            \subseteq filterParagraphsInEntry("tag", selectedTags, AnyDate, NoQuery)
      BY ShownNarrow DEF filterParagraphsInEntry
    <2>4. QED
      BY <2>1, <2>2, <2>3 DEF FiltersNarrow
  <1>2. QED
    BY <1>1, BoardInvariant, PTL

-----------------------------------------------------------------------------
(* The board                                                                *)

RowOf(i) ==
  [section |-> i, done |-> doneAt # NoDay,
   day |-> IF doneAt # NoDay THEN doneAt
           ELSE sectionDateForTab(text[i], getEntryLevelDate(text))]
RowsOf(sections) == {RowOf(i) : i \in sections}
WeeksOf(stacked) == {[start |-> mondayFor(row.day), row |-> row] : row \in stacked}

Dated(sections) == {row \in RowsOf(sections) : row.day # NoDay}
Fanned(sections) == {row \in Dated(sections) : ~row.done /\ row.day \in Today..Today + 6}
Ahead(sections) == {row \in Dated(sections) : ~row.done /\ row.day >= Today + 7}
Late(sections) == {row \in Dated(sections) : ~row.done /\ row.day < Today /\ row.day >= Today - 7}
Overdue(sections) == {row \in Dated(sections) : ~row.done /\ row.day < Today /\ row.day < Today - 7}
Completed(sections) == {row \in Dated(sections) : row.done}

LEMMA BoardDef ==
  ASSUME NEW sections
  PROVE  LET board == groupTodoBoard(sections, TRUE, TRUE) IN
         /\ board.upcomingFanned = Fanned(sections)
         /\ board.upcomingMonths = WeeksOf(Ahead(sections))
         /\ board.pastDueFanned = Late(sections)
         /\ board.pastDueMonths = WeeksOf(Overdue(sections))
         /\ board.completed = WeeksOf(Completed(sections))
  BY DEF groupTodoBoard, bucketRows, RowsOf, RowOf, WeeksOf, Dated, Fanned, Ahead, Late, Overdue,
         Completed

\* The five parts of the board hold each dated row once.
LEMMA PartsSplit ==
  ASSUME BoardIInv, NEW sections \in SUBSET (1..Len(text))
  PROVE  /\ Dated(sections) = Fanned(sections) \cup Ahead(sections) \cup Late(sections)
                                \cup Overdue(sections) \cup Completed(sections)
         /\ Fanned(sections) \cap Ahead(sections) = {}
         /\ (Fanned(sections) \cup Ahead(sections)) \cap Late(sections) = {}
         /\ (Fanned(sections) \cup Ahead(sections) \cup Late(sections)) \cap Overdue(sections) = {}
         /\ (Fanned(sections) \cup Ahead(sections) \cup Late(sections) \cup Overdue(sections))
               \cap Completed(sections) = {}
  <1>1. Today \in Nat /\ doneAt \in Nat
    BY BoardAssumption DEF BoardIInv, BoardTypeOK
  <1>2. \A i \in 1..Len(text) : text[i].date \in Nat
    BY TextTyped DEF Sections
  <1>3. getEntryLevelDate(text) \in Nat
    BY <1>2, TextTyped DEF getEntryLevelDate, NoDay
  <1>4. \A i \in sections : RowOf(i).day \in Nat /\ RowOf(i).done \in BOOLEAN
    BY <1>1, <1>2, <1>3 DEF RowOf, sectionDateForTab
  <1>5. \A row \in Dated(sections) : row.day \in Nat /\ row.done \in BOOLEAN
    BY <1>4 DEF Dated, RowsOf
  <1>6. QED
    BY <1>1, <1>5 DEF Fanned, Ahead, Late, Overdue, Completed

\* Stacking by week neither loses a row nor doubles one.
LEMMA WeeksCount ==
  ASSUME NEW S, IsFiniteSet(S)
  PROVE  Cardinality(WeeksOf(S)) = Cardinality(S)
  <1> DEFINE f == [row \in S |-> [start |-> mondayFor(row.day), row |-> row]]
  <1>1. f \in [S -> WeeksOf(S)]
    BY DEF WeeksOf
  <1>2. \A a, b \in S : f[a] = f[b] => a = b
    <2>1. \A a \in S : f[a].row = a
      OBVIOUS
    <2>2. QED
      BY <2>1
  <1>3. \A item \in WeeksOf(S) : \E row \in S : f[row] = item
    BY DEF WeeksOf
  <1>4. f \in Bijection(S, WeeksOf(S))
    BY <1>1, <1>2, <1>3, Fun_IsBij
  <1>5. ExistsBijection(S, WeeksOf(S))
    BY <1>4 DEF ExistsBijection
  <1>6. QED
    BY <1>5, FS_Bijection

\* A section has one row.
LEMMA SectionsCount ==
  ASSUME BoardIInv, NEW sections \in SUBSET (1..Len(text))
  PROVE  LET R == Dated(sections) IN
         /\ IsFiniteSet(R) /\ Cardinality({row.section : row \in R}) = Cardinality(R)
  <1> DEFINE R == Dated(sections)
             P == {i \in sections : RowOf(i).day # NoDay}
             f == [i \in P |-> RowOf(i)]
  <1>1. IsFiniteSet(P)
    <2>1. IsFiniteSet(1..Len(text))
      BY TextTyped, FS_Interval
    <2>2. P \in SUBSET (1..Len(text))
      OBVIOUS
    <2>3. QED
      BY <2>1, <2>2, FS_Subset
  <1>2. \A i : RowOf(i).section = i
    BY DEF RowOf
  <1>3. f \in [P -> R]
    BY DEF Dated, RowsOf
  <1>4. \A a, b \in P : f[a] = f[b] => a = b
    BY <1>2
  <1>5. \A row \in R : \E i \in P : f[i] = row
    BY DEF Dated, RowsOf
  <1>6. f \in Bijection(P, R)
    BY <1>3, <1>4, <1>5, Fun_IsBij
  <1>7. ExistsBijection(P, R)
    BY <1>6 DEF ExistsBijection
  <1>8. {row.section : row \in R} = P
    <2>1. ASSUME NEW row \in R
          PROVE  row.section \in P
      <3>1. PICK i \in P : RowOf(i) = row
        BY <1>5
      <3>2. QED
        BY <1>2, <3>1
    <2>2. ASSUME NEW i \in P
          PROVE  \E row \in R : i = row.section
      <3>1. RowOf(i) \in R
        BY DEF Dated, RowsOf
      <3>2. QED
        BY <1>2, <3>1
    <2>3. QED
      BY <2>1, <2>2
  <1>9. QED
    BY <1>1, <1>7, <1>8, FS_Bijection

LEMMA DisjointCount ==
  ASSUME NEW S, NEW T, IsFiniteSet(S), IsFiniteSet(T), S \cap T = {}
  PROVE  /\ IsFiniteSet(S \cup T)
         /\ Cardinality(S \cup T) = Cardinality(S) + Cardinality(T)
  <1>1. Cardinality(S) \in Nat /\ Cardinality(T) \in Nat
    BY FS_CardinalityType
  <1>2. Cardinality(S \cap T) = 0
    BY FS_EmptySet
  <1>3. /\ IsFiniteSet(S \cup T)
        /\ Cardinality(S \cup T) = Cardinality(S) + Cardinality(T) - Cardinality(S \cap T)
    BY FS_Union
  <1>4. QED
    BY <1>1, <1>2, <1>3

\* What is on the board, and how much of it.
LEMMA BoardHolds ==
  ASSUME BoardIInv, NEW sections \in SUBSET (1..Len(text))
  PROVE  LET board == groupTodoBoard(sections, TRUE, TRUE) IN
         /\ OnBoard(board) = {row.section : row \in Dated(sections)}
         /\ BoardSize(board) = Cardinality(Dated(sections))
  <1> DEFINE board == groupTodoBoard(sections, TRUE, TRUE)
             A == Fanned(sections)
             B == Ahead(sections)
             C == Late(sections)
             D == Overdue(sections)
             E == Completed(sections)
             R == Dated(sections)
  <1>1. /\ board.upcomingFanned = A /\ board.upcomingMonths = WeeksOf(B)
        /\ board.pastDueFanned = C /\ board.pastDueMonths = WeeksOf(D)
        /\ board.completed = WeeksOf(E)
    BY BoardDef
  <1>2. /\ R = A \cup B \cup C \cup D \cup E
        /\ A \cap B = {} /\ (A \cup B) \cap C = {} /\ (A \cup B \cup C) \cap D = {}
        /\ (A \cup B \cup C \cup D) \cap E = {}
    BY PartsSplit
  <1>3. IsFiniteSet(R)
    BY SectionsCount
  <1> HIDE DEF board, A, B, C, D, E, R
  <1>4. IsFiniteSet(A) /\ IsFiniteSet(B) /\ IsFiniteSet(C) /\ IsFiniteSet(D) /\ IsFiniteSet(E)
    <2>1. A \in SUBSET R /\ B \in SUBSET R /\ C \in SUBSET R /\ D \in SUBSET R /\ E \in SUBSET R
      BY <1>2
    <2>2. QED
      BY <1>3, <2>1, FS_Subset
  <1>5. Cardinality(R) = Cardinality(A) + Cardinality(B) + Cardinality(C) + Cardinality(D)
                           + Cardinality(E)
    <2>1. IsFiniteSet(A \cup B) /\ Cardinality(A \cup B) = Cardinality(A) + Cardinality(B)
      BY <1>2, <1>4, DisjointCount
    <2>2. /\ IsFiniteSet(A \cup B \cup C)
          /\ Cardinality(A \cup B \cup C) = Cardinality(A \cup B) + Cardinality(C)
      BY <1>2, <1>4, <2>1, DisjointCount
    <2>3. /\ IsFiniteSet(A \cup B \cup C \cup D)
          /\ Cardinality(A \cup B \cup C \cup D) = Cardinality(A \cup B \cup C) + Cardinality(D)
      BY <1>2, <1>4, <2>2, DisjointCount
    <2>4. Cardinality(R) = Cardinality(A \cup B \cup C \cup D) + Cardinality(E)
      BY <1>2, <1>4, <2>3, DisjointCount
    <2>5. QED
      BY <2>1, <2>2, <2>3, <2>4
  <1>6. /\ Cardinality(A) \in Nat /\ Cardinality(B) \in Nat /\ Cardinality(C) \in Nat
        /\ Cardinality(D) \in Nat /\ Cardinality(E) \in Nat
    BY <1>4, FS_CardinalityType
  <1>7. /\ Cardinality(WeeksOf(B)) = Cardinality(B) /\ Cardinality(WeeksOf(D)) = Cardinality(D)
        /\ Cardinality(WeeksOf(E)) = Cardinality(E)
    BY <1>4, WeeksCount
  <1>8. BoardSize(board) = Cardinality(R)
    BY <1>1, <1>5, <1>6, <1>7 DEF BoardSize
  <1>9. OnBoard(board) = {row.section : row \in R}
    <2>1. /\ \A S : \A item \in WeeksOf(S) : item.row \in S
          /\ \A S : \A row \in S : [start |-> mondayFor(row.day), row |-> row] \in WeeksOf(S)
      BY DEF WeeksOf
    <2>2. \A row : [start |-> mondayFor(row.day), row |-> row].row = row
      OBVIOUS
    <2>3. {item.row.section : item \in WeeksOf(D) \cup WeeksOf(B) \cup WeeksOf(E)}
            = {row.section : row \in D \cup B \cup E}
      <3>1. ASSUME NEW item \in WeeksOf(D) \cup WeeksOf(B) \cup WeeksOf(E)
            PROVE  item.row \in D \cup B \cup E
        BY <2>1
      <3>2. ASSUME NEW row \in D \cup B \cup E
            PROVE  \E item \in WeeksOf(D) \cup WeeksOf(B) \cup WeeksOf(E) : item.row = row
        BY <2>1, <2>2
      <3>3. QED
        BY <3>1, <3>2
    <2>4. OnBoard(board) = {row.section : row \in A \cup C}
              \cup {item.row.section : item \in WeeksOf(B) \cup WeeksOf(D) \cup WeeksOf(E)}
      BY <1>1 DEF OnBoard
    <2>5. OnBoard(board) = {row.section : row \in A \cup C} \cup {row.section : row \in D \cup B \cup E}
      <3>1. WeeksOf(B) \cup WeeksOf(D) \cup WeeksOf(E) = WeeksOf(D) \cup WeeksOf(B) \cup WeeksOf(E)
        OBVIOUS
      <3>2. QED
        BY <2>3, <2>4, <3>1
    <2>6. R = (A \cup C) \cup (D \cup B \cup E)
      BY <1>2
    <2>7. QED
      BY <2>5, <2>6
  <1>10. QED
    BY <1>8, <1>9 DEF board, R

-----------------------------------------------------------------------------
(* The lists                                                                *)

\* The tab's list wants what the board shows: a section with a date.
LEMMA ListIsBoard ==
  ASSUME BoardIInv, NEW selection, NEW day, NEW query, ~archived
  PROVE  LET sections == filterParagraphsForTab("upcoming", selection, day, query) IN
         filterEntriesForTab("upcoming", selection, day, query) <=> Dated(sections) # {}
  <1> DEFINE sections == filterParagraphsForTab("upcoming", selection, day, query)
             Date(i) == sectionDateForTab(text[i], getEntryLevelDate(text))
  <1>1. filterEntriesForTab("upcoming", selection, day, query)
          <=> sections # {} /\ ((\E i \in sections : Date(i) # NoDay) \/ doneAt # NoDay)
    BY DEF filterEntriesForTab
  <1>2. Dated(sections) # {} <=> \E i \in sections : RowOf(i).day # NoDay
    BY DEF Dated, RowsOf
  <1>3. \A i : RowOf(i).day # NoDay <=> Date(i) # NoDay \/ doneAt # NoDay
    BY DEF RowOf
  <1>4. QED
    BY <1>1, <1>2, <1>3

LEMMA SmallestPosition ==
  ASSUME NEW S \in SUBSET Nat, S # {}
  PROVE  \E a \in S : \A b \in S : a <= b
  <1>1. S \subseteq Nat
    OBVIOUS
  <1>2. PICK a \in S : \A b \in S : ~(<<b, a>> \in OpToRel(<, Nat))
    BY <1>1, NatLessThanWellFounded, WFMin
  <1>3. \A b \in S : ~(b < a)
    BY <1>1, <1>2 DEF OpToRel
  <1>4. QED
    BY <1>1, <1>3

\* The tags of a group are the ones of a section.
LEMMA GroupTagsOfSection ==
  ASSUME BoardIInv, NEW i \in 1..Len(text), i <= RemainingLength(text)
  PROVE  \E j \in 1..Len(text) : GroupTags(text, groupSectionsByTag(text, i)) = text[j].tags
  <1> DEFINE group == groupSectionsByTag(text, i)
             closers == {j \in 1..RemainingLength(text) : isTagOnlySection(text[j])}
             before == {j \in closers : j < i}
             after == {j \in closers : j >= i}
             IsLast(k) == k \in group /\ \A j \in group : k >= j
             last == CHOOSE k \in group : \A j \in group : k >= j
  <1>1. /\ Len(text) \in Nat /\ RemainingLength(text) \in Nat /\ RemainingLength(text) <= Len(text)
        /\ i \in Nat /\ i >= 1
    BY TextTyped
  <1>2. group = IF after = {} THEN {i}
                ELSE {j \in 1..RemainingLength(text) :
                        (\A b \in before : b < j) /\ (\A a \in after : j <= a)}
    BY DEF groupSectionsByTag
  <1>3. group \subseteq 1..Len(text)
    BY <1>1, <1>2
  <1>4. \E k : IsLast(k)
    <2>1. CASE after = {}
      BY <1>1, <1>2, <2>1
    <2>2. CASE after # {}
      <3>1. after \in SUBSET Nat
        BY <1>1
      <3>2. PICK a \in after : \A b \in after : a <= b
        BY <2>2, <3>1, SmallestPosition
      <3>3. a \in 1..RemainingLength(text) /\ a >= i
        BY <3>2
      <3>4. \A b \in before : b < a
        BY <1>1, <3>3
      <3>5. a \in group
        BY <1>2, <2>2, <3>2, <3>3, <3>4
      <3>6. \A j \in group : j \in Nat /\ a >= j
        BY <1>1, <1>2, <2>2, <3>2, <3>3
      <3>7. QED
        BY <3>5, <3>6
    <2>3. QED
      BY <2>1, <2>2
  <1>5. IsLast(last)
    <2> HIDE DEF group
    <2>1. QED
      BY <1>4
  <1>6. GroupTags(text, group) = text[last].tags
    BY DEF GroupTags
  <1>7. QED
    BY <1>3, <1>5, <1>6

\* Of an entry that is shown in a mode, without a date selected, a section matches.
LEMMA ShownIsListed ==
  ASSUME BoardIInv, selectedDate = AnyDate,
         filterParagraphsInEntry(deriveMode, selectedTags, AnyDate, searching) # {}
  PROVE  filterEntries(deriveMode, selectedTags, AnyDate, searching)
  <1>1. CASE deriveMode = "all"
    BY <1>1 DEF filterEntries
  <1>2. CASE deriveMode = "search"
    BY <1>2 DEF filterEntries, filterParagraphsInEntry
  <1>3. CASE deriveMode = "tag"
    <2>1. PICK i \in Shown(selectedTags, AnyDate, "all", NoQuery) : TRUE
      BY <1>3 DEF filterParagraphsInEntry
    <2>2. i \in 1..Len(text)
      BY <2>1 DEF Shown
    <2>3. \E j \in 1..Len(text) : tagsMatchSelection(text[j].tags, selectedTags)
      <3>1. CASE GlobalTagMatches(text, selectedTags)
        <4>1. Len(text) \in 1..Len(text)
          BY <3>1, TextTyped DEF GlobalTagMatches
        <4>2. tagsMatchSelection(text[Len(text)].tags, selectedTags)
          BY <3>1 DEF GlobalTagMatches, tagsMatchSelection, getEntryLevelTags
        <4>3. QED
          BY <4>1, <4>2
      <3>2. CASE ~GlobalTagMatches(text, selectedTags)
        <4>1. /\ i <= RemainingLength(text)
              /\ tagsMatchSelection(GroupTags(text, groupSectionsByTag(text, i)), selectedTags)
          BY <2>1, <3>2 DEF Shown, GroupSelected
        <4>2. PICK j \in 1..Len(text) :
                 GroupTags(text, groupSectionsByTag(text, i)) = text[j].tags
          BY <2>2, <4>1, GroupTagsOfSection
        <4>3. QED
          BY <4>1, <4>2
      <3>3. QED
        BY <3>1, <3>2
    <2>4. QED
      BY <1>3, <2>3 DEF filterEntries, dateMatchesSelection
  <1>4. QED
    BY <1>1, <1>2, <1>3 DEF deriveMode

\* Whatever the text, the tags, the date and the query: the list of 'upcoming' and its
\* board hold the same entries, no dated row is on the board twice or missing, and an
\* entry of which a section is shown is in the list (entryFiltering.ts, stickyGroups.ts).
THEOREM ListedIsShownHolds == BoardSpec => []ListedIsShown
  <1>1. BoardIInv => ListedIsShown
    <2> SUFFICES ASSUME BoardIInv
                 PROVE  ListedIsShown
      OBVIOUS
    <2> DEFINE shown == filterParagraphsForTab("upcoming", selectedTags, selectedDate, searching)
               board == groupTodoBoard(shown, TRUE, TRUE)
    <2>1. shown \in SUBSET (1..Len(text))
      BY DEF filterParagraphsForTab, filterParagraphsInEntry, Shown
    <2>2. /\ OnBoard(board) = {row.section : row \in Dated(shown)}
          /\ BoardSize(board) = Cardinality(Dated(shown))
      BY <2>1, BoardHolds
    <2>3. BoardSize(board) = Cardinality(OnBoard(board))
      BY <2>1, <2>2, SectionsCount
    <2>4. ~archived =>
            (filterEntriesForTab("upcoming", selectedTags, selectedDate, searching)
               <=> OnBoard(board) # {})
      <3>1. OnBoard(board) # {} <=> Dated(shown) # {}
        BY <2>2
      <3>2. QED
        BY <3>1, ListIsBoard
    <2>5. selectedDate = AnyDate
            /\ filterParagraphsInEntry(deriveMode, selectedTags, AnyDate, searching) # {}
          => filterEntries(deriveMode, selectedTags, AnyDate, searching)
      BY ShownIsListed
    <2>6. QED
      BY <2>3, <2>4, <2>5 DEF ListedIsShown
  <1>2. QED
    BY <1>1, BoardInvariant, PTL
================================================================================
