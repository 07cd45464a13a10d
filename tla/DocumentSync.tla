---------------------------- MODULE DocumentSync ----------------------------
(***************************************************************************)
(* The document sync engine of packages/project-sync (documents.ts), run   *)
(* by several devices over the guarded files of FileGuard.                 *)
(*                                                                         *)
(* A device syncs one document.  It is a client of FileGuard with one call *)
(* pending at a time, so here a device is its own call: Calls = Clients    *)
(* and ClientOf is the identity.  A content is the set of the edits it     *)
(* contains, and the merge an application supplies is their union: the     *)
(* engine is checked with a merge that loses nothing.                      *)
(***************************************************************************)
EXTENDS FileGuard

CONSTANTS
    Edits,        \* the edits users make, each one once
    Author,       \* [Edits -> Calls], the device whose user makes the edit
    NoFile,       \* "no file id known"
    Faulty,       \* bound: the devices whose requests, callbacks and tabs may fail
    Trashable     \* bound: the files the user may delete in Drive

Devices == Calls

ASSUME DevicesAreClients == Calls = Clients /\ ClientOf = [d \in Calls |-> d]
ASSUME ContentsAreEditSets == Contents = SUBSET Edits
ASSUME AuthorIsDevice == Author \in [Edits -> Devices]
ASSUME NoFileIsNone == NoFile \notin Files
ASSUME NoContentIsNone == \A b \in Contents : b # NoContent

VARIABLES
    made,         \* the edits made so far
    local,        \* local[d]: what readLocal() would return
    dname,        \* dname[d]: SyncDocument.name
    cached,       \* cached[d]: syncState.getFileId()
    at,           \* where syncDocument() is suspended
    fileId,       \* its local variable fileId
    held,         \* its local variable content
    attempt,      \* its loop variable
    \* history
    late,         \* late[d]: edits made between the merge's readLocal and writeLocal
    dropped       \* dropped[d]: edits downloaded by a sync that died before writeLocal

docVars == <<made, local, dname, cached, at, fileId, held, attempt, late, dropped>>
vars == <<fgVars, docVars>>

MaxAttempts == 3

DocTypeOK ==
    /\ TypeOK
    /\ made \subseteq Edits
    /\ local \in [Devices -> SUBSET Edits]
    /\ dname \in [Devices -> Names]
    /\ cached \in [Devices -> Files \cup {NoFile}]
    /\ at \in [Devices -> {"idle", "resolve", "local", "writing", "reading",
                           "merge", "store"}]
    /\ fileId \in [Devices -> Files \cup {NoFile}]
    /\ held \in [Devices -> SUBSET Edits]
    /\ attempt \in [Devices -> 0..MaxAttempts]
    /\ late \in [Devices -> SUBSET Edits]
    /\ dropped \in [Devices -> SUBSET Edits]

DocInit ==
    /\ Init
    /\ made = {}
    /\ local = [d \in Devices |-> {}]
    /\ dname = [d \in Devices |-> AnyName]
    /\ cached = [d \in Devices |-> NoFile]
    /\ at = [d \in Devices |-> "idle"]
    /\ fileId = [d \in Devices |-> NoFile]
    /\ held = [d \in Devices |-> {}]
    /\ attempt = [d \in Devices |-> 0]
    /\ late = [d \in Devices |-> {}]
    /\ dropped = [d \in Devices |-> {}]

-----------------------------------------------------------------------------
(* Helpers *)

Move(d, place) == at' = [at EXCEPT ![d] = place]

\* syncDocument() returns: its locals and the last call's answer are gone.
Return(d) ==
    /\ pc[d] = "idle"
    /\ Move(d, "idle")
    /\ fileId' = [fileId EXCEPT ![d] = NoFile]
    /\ held' = [held EXCEPT ![d] = {}]
    /\ attempt' = [attempt EXCEPT ![d] = 0]
    /\ late' = [late EXCEPT ![d] = {}]
    /\ file' = [file EXCEPT ![d] = AnyFile]
    /\ name' = [name EXCEPT ![d] = AnyName]
    /\ body' = [body EXCEPT ![d] = NoContent]
    /\ outcome' = [outcome EXCEPT ![d] = "none"]
    /\ UNCHANGED <<driveVars, baseline, pc, known, got, tries, histVars>>

\* The write at the head of the loop: by name while no id is known.
Write(d, f, b) ==
    /\ IF f = NoFile THEN StartWriteName(d, dname[d], b) ELSE StartWriteId(d, f, b)
    /\ held' = [held EXCEPT ![d] = b]
    /\ attempt' = [attempt EXCEPT ![d] = @ + 1]
    /\ Move(d, "writing")

\* The awaited files call has settled.
Answered(d, place) == at[d] = place /\ pc[d] = "idle"

Downloaded(d) == IF body[d] = NoContent THEN {} ELSE body[d]

-----------------------------------------------------------------------------
(* syncDocument() *)

\* Cached id: use it directly, whatever the document is called now.
StartSync(d) ==
    /\ at[d] = "idle"
    /\ IF cached[d] # NoFile
       THEN fileId' = [fileId EXCEPT ![d] = cached[d]] /\ Move(d, "local")
       ELSE Move(d, "resolve") /\ UNCHANGED fileId
    /\ UNCHANGED <<fgVars, made, local, dname, cached, held, attempt, late, dropped>>

\* resolveFileId(): a file found by name; no id when none is, or list() throws.
Resolve(d) ==
    /\ at[d] = "resolve"
    /\ \/ \E f \in LiveNamed(dname[d]) : fileId' = [fileId EXCEPT ![d] = f]
       \/ (LiveNamed(dname[d]) = {} \/ d \in Faulty) /\ UNCHANGED fileId
    /\ Move(d, "local")
    /\ UNCHANGED <<fgVars, made, local, dname, cached, held, attempt,
                   late, dropped>>

ReadLocal(d) ==
    /\ at[d] = "local"
    /\ Write(d, fileId[d], local[d])
    /\ UNCHANGED <<made, local, dname, cached, fileId, late, dropped>>

\* syncState.update() caches the id; the document counts as synced.
WriteSucceeds(d) ==
    /\ Answered(d, "writing")
    /\ outcome[d] = "done"
    /\ cached' = [cached EXCEPT ![d] = file[d]]
    /\ Return(d)
    /\ UNCHANGED <<made, local, dname, dropped>>

Refused(d) == outcome[d] \in {"never-restored", "remote-changed"}

\* RemoteChangedError with attempts left: read the remote file.
Recover(d) ==
    /\ Answered(d, "writing")
    /\ Refused(d)
    /\ attempt[d] < MaxAttempts
    /\ fileId[d] # NoFile
    /\ StartRead(d, fileId[d])
    /\ Move(d, "reading")
    /\ UNCHANGED <<made, local, dname, cached, fileId, held, attempt,
                   late, dropped>>

\* Everything else ends the sync with an error: any other failure, the third
\* refusal, and a refusal of the create, for which there is no id to read.
WriteFails(d) ==
    /\ Answered(d, "writing")
    /\ outcome[d] # "done"
    /\ ~(Refused(d) /\ attempt[d] < MaxAttempts /\ fileId[d] # NoFile)
    /\ Return(d)
    /\ UNCHANGED <<made, local, dname, cached, dropped>>

ReadSucceeds(d) ==
    /\ Answered(d, "reading")
    /\ outcome[d] \in {"done", "null"}
    /\ Move(d, "merge")
    /\ UNCHANGED <<fgVars, made, local, dname, cached, fileId, held,
                   attempt, late, dropped>>

ReadFails(d) ==
    /\ Answered(d, "reading")
    /\ outcome[d] = "failed"
    /\ Return(d)
    /\ UNCHANGED <<made, local, dname, cached, dropped>>

\* The local content is read afresh and merged with the downloaded one.
MergedLocalOnly(d) == local[d]
MergedStale(d) == held[d] \cup Downloaded(d)
Merged(d) == local[d] \cup Downloaded(d)

Merge(d) ==
    /\ at[d] = "merge"
    /\ held' = [held EXCEPT ![d] = Merged(d)]
    /\ Move(d, "store")
    /\ UNCHANGED <<fgVars, made, local, dname, cached, fileId, attempt,
                   late, dropped>>

\* writeLocal(merged), then the next attempt with the merged content.
Store(d) ==
    /\ at[d] = "store"
    /\ local' = [local EXCEPT ![d] = held[d]]
    /\ dropped' = [dropped EXCEPT ![d] = @ \ held[d]]
    /\ late' = [late EXCEPT ![d] = {}]
    /\ Write(d, fileId[d], held[d])
    /\ UNCHANGED <<made, dname, cached, fileId>>

\* A callback of the application throws, syncState.update() rejects, or the tab
\* is closed at an await of syncDocument() itself.  Between the read and
\* writeLocal() the baseline has advanced and the content has not arrived.
Die(d) ==
    /\ d \in Faulty
    /\ \/ at[d] \in {"resolve", "local", "merge", "store"}
       \/ Answered(d, "reading")
       \/ Answered(d, "writing")
    /\ dropped' = [dropped EXCEPT ![d] = @ \cup (Downloaded(d) \ local[d])]
    /\ Return(d)
    /\ UNCHANGED <<made, local, dname, cached>>

-----------------------------------------------------------------------------
(* Users and reloads *)

LocalEdit(d, e) ==
    /\ e \in Edits \ made
    /\ Author[e] = d
    /\ made' = made \cup {e}
    /\ local' = [local EXCEPT ![d] = @ \cup {e}]
    /\ late' = IF at[d] = "store" THEN [late EXCEPT ![d] = @ \cup {e}] ELSE late
    /\ UNCHANGED <<fgVars, dname, cached, at, fileId, held, attempt, dropped>>

Rename(d, n) ==
    /\ at[d] = "idle"
    /\ n # dname[d]
    /\ dname' = [dname EXCEPT ![d] = n]
    /\ UNCHANGED <<fgVars, made, local, cached, at, fileId, held,
                   attempt, late, dropped>>

\* A reload that finds no persisted sync state for the document: only
\* documents in status `synced' are persisted, and a failed put is swallowed.
Forget(d) ==
    /\ d \in Faulty
    /\ at[d] = "idle"
    /\ cached[d] # NoFile
    /\ cached' = [cached EXCEPT ![d] = NoFile]
    /\ UNCHANGED <<fgVars, made, local, dname, at, fileId, held,
                   attempt, late, dropped>>

\* The user deletes the file in Drive.
Trash(f) ==
    /\ f \in Trashable
    /\ Live(f)
    /\ status' = [status EXCEPT ![f] = "removed"]
    /\ UNCHANGED <<version, content, named, baseline, callVars, histVars, docVars>>

\* A step of the pending files call; the bound keeps it from failing.
FilesStep(d) ==
    /\ CallStep(d)
    /\ outcome'[d] = "failed" => d \in Faulty
    /\ UNCHANGED docVars

DocStep(d) ==
    \/ StartSync(d) \/ Resolve(d) \/ ReadLocal(d)
    \/ WriteSucceeds(d) \/ Recover(d) \/ WriteFails(d)
    \/ ReadSucceeds(d) \/ ReadFails(d) \/ Merge(d) \/ Store(d) \/ Die(d)
    \/ Forget(d)
    \/ \E e \in Edits : LocalEdit(d, e)
    \/ \E n \in Names : Rename(d, n)
    \/ FilesStep(d)

DocNext == (\E d \in Devices : DocStep(d)) \/ (\E f \in Files : Trash(f))

DocSpec == DocInit /\ [][DocNext]_vars

-----------------------------------------------------------------------------
(* Properties *)

Lost(d) == content[file[d]] \ body[d]

\* An upload removes an edit from the file only if the edit reached Drive after
\* the upload's staleness check, or if this device has downloaded it in a sync
\* that died before writeLocal(): merging, retrying, forgetting file ids,
\* failing and racing other devices lose nothing in any other way.
NoSilentLoss ==
    [][\A d \in Devices : Overwrites(d) =>
          \/ version[file[d]] > known[d]
          \/ Lost(d) \subseteq dropped[d]]_vars

\* An edit disappears from a device only if it was made while the merge of a
\* sync of that device was between readLocal() and writeLocal().
LocalLossOnlyInMerge ==
    [][\A d \in Devices : local[d] \ local'[d] \subseteq late[d]]_vars

Succeeded(d) == Answered(d, "writing") /\ outcome[d] = "done"

\* A sync that succeeds has uploaded the document: the device's baseline is a
\* version its own upload produced, and as long as nobody changes the file
\* again it holds everything that was sent.
SyncedMeansUploaded ==
    \A d \in Devices : Succeeded(d) =>
        /\ baseline[d][file[d]] \in wrote[d][file[d]]
        /\ version[file[d]] = baseline[d][file[d]] => held[d] \subseteq content[file[d]]

\* SPEC.md, decision 20: a matching baseline means this client was current;
\* nothing needs merging.
MatchingBaselineIsCurrent ==
    [][\A d \in Devices :
          Overwrites(d) /\ version[file[d]] = known[d] => Lost(d) = {}]_vars
=============================================================================
