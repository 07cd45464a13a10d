--------------------------- MODULE ProjectFolders ---------------------------
(***************************************************************************)
(* resolveProjectFolder() of packages/project-sync (folders.ts): devices    *)
(* find or create OpenWebApp / app / project in one Drive, keep the         *)
(* folder's id with the project and verify it once per session.             *)
(*                                                                          *)
(* Each awaited Drive operation is one step and may fail; Drive itself       *)
(* (lists without trashed files, several folders of one name) is external.   *)
(* The caller, who is to store the id, is taken to store it at once.         *)
(* Folders are numbered by createdTime.                                      *)
(***************************************************************************)
EXTENDS Naturals, FiniteSets

CONSTANTS
  Device,        \* devices with the app and the project
  ProjectTitle,  \* the names the project has had; one of them is OldTitle
  OldTitle,
  MaxFolders,    \* bounds the folders
  MaxResolves,   \* bounds the calls
  MaxUpsets      \* bounds the renames, the trashed folders, the resets of a session

Folder == 1..MaxFolders
Resolve == 1..MaxResolves
Root == 0

ASSUME FolderAssumption ==
  /\ Device # {} /\ OldTitle \in ProjectTitle
  /\ MaxFolders \in Nat /\ MaxResolves \in Nat /\ MaxUpsets \in Nat

VARIABLES
  folders,     \* the folders of the Drive: where, their name, whether trashed
  title,       \* per device: the project's name
  driveFolderId, \* per device: the id stored with the project, or Root
  verificationMemo, \* the devices whose session has verified the id
  resolve,     \* per call: where it is, its device, the name and id it has read, its parent
  upsets,
  \* history
  raced,       \* two calls have been looking folders up at the same time
  renamed      \* the project or its folder has had another name

folderVars ==
  <<folders, title, driveFolderId, verificationMemo, resolve, upsets, raced, renamed>>

FolderInit ==
  /\ folders = [f \in {} |-> 0]
  /\ title = [d \in Device |-> OldTitle]
  /\ driveFolderId = [d \in Device |-> Root]
  /\ verificationMemo = {}
  /\ resolve = [r \in Resolve |->
       [pc |-> "idle", device |-> CHOOSE d \in Device : TRUE, name |-> OldTitle, id |-> Root, parent |-> Root]]
  /\ upsets = 0
  /\ raced = FALSE
  /\ renamed = FALSE

-----------------------------------------------------------------------------
(* Drive                                                                    *)

\* The folders on the way from f to the root.
Ancestors(f) ==
  LET lower == {f, folders[f].parent} \ {Root}
  IN lower \cup ({folders[g].parent : g \in lower} \ {Root})

Live(f) == f \in DOMAIN folders /\ \A g \in Ancestors(f) : ~folders[g].trashed

\* list() with a name and a parent.
Matches(parent, name) ==
  {f \in DOMAIN folders : Live(f) /\ folders[f].parent = parent /\ folders[f].name = name}

Oldest(found) == CHOOSE f \in found : \A g \in found : f <= g

-----------------------------------------------------------------------------
(* resolveProjectFolder()                                                   *)

Levels == {"openWebApp", "app", "project"}
NameAt(r) == IF resolve[r].pc = "project" THEN resolve[r].name ELSE resolve[r].pc
CreateStep == [openWebApp |-> "createOpenWebApp", app |-> "createApp", project |-> "createProject"]
Wanted == [createOpenWebApp |-> "openWebApp", createApp |-> "app", createProject |-> "project"]
Looking == {r \in Resolve : resolve[r].pc \in Levels \cup DOMAIN Wanted}

Rename(r, pc) == resolve' = [resolve EXCEPT ![r].pc = pc]

\* Any failing lookup or creation throws.
Throws(r) ==
  /\ r \in Looking
  /\ Rename(r, "failed")
  /\ UNCHANGED <<folders, title, driveFolderId, verificationMemo, upsets, raced, renamed>>

\* The call settles with id: the memo is set, the caller stores the id.
Settles(r, id) ==
  /\ Rename(r, "ok")
  /\ driveFolderId' = [driveFolderId EXCEPT ![resolve[r].device] = id]
  /\ verificationMemo' = verificationMemo \cup {resolve[r].device}

\* On to the level below, or done at the last one.
Descend(r, f) ==
  IF resolve[r].pc \in {"project", "createProject"} THEN Settles(r, f)
  ELSE /\ resolve' = [resolve EXCEPT
            ![r].pc = IF @ \in {"openWebApp", "createOpenWebApp"} THEN "app" ELSE "project",
            ![r].parent = f]
       /\ UNCHANGED <<driveFolderId, verificationMemo>>

StartLookup(r) ==
  /\ Rename(r, "openWebApp")
  /\ raced' = (raced \/ Looking # {})

\* The memo and the stored id answer without a request.
resolveProjectFolder(r, d) ==
  /\ resolve[r].pc = "idle" /\ \A q \in 1..r - 1 : resolve[q].pc # "idle"
  /\ resolve' = [resolve EXCEPT ![r] =
       [pc |-> IF driveFolderId[d] = Root THEN "openWebApp"
               ELSE IF d \in verificationMemo THEN "ok" ELSE "verify",
        device |-> d, name |-> title[d], id |-> driveFolderId[d], parent |-> Root]]
  /\ raced' = (raced \/ (driveFolderId[d] = Root /\ Looking # {}))
  /\ UNCHANGED <<folders, title, driveFolderId, verificationMemo, upsets, renamed>>

\* verifyFolderById(); a failing request counts as a missing folder.
verifyFolderById(r, answered) ==
  LET f == resolve[r].id IN
  /\ resolve[r].pc = "verify"
  /\ CASE ~answered \/ ~Live(f) ->
            StartLookup(r) /\ UNCHANGED <<driveFolderId, verificationMemo>>
       [] answered /\ Live(f) /\ folders[f].name = resolve[r].name ->
            Settles(r, f) /\ UNCHANGED raced
       [] OTHER -> Rename(r, "rename") /\ UNCHANGED <<driveFolderId, verificationMemo, raced>>
  /\ UNCHANGED <<folders, title, upsets, renamed>>

\* A failing rename leaves the folder its name; the call settles all the same.
renameFolderIfNeeded(r, done) ==
  /\ resolve[r].pc = "rename"
  /\ folders' = IF done THEN [folders EXCEPT ![resolve[r].id].name = resolve[r].name] ELSE folders
  /\ Settles(r, resolve[r].id)
  /\ UNCHANGED <<title, upsets, raced, renamed>>

\* The level's parent is never advanced.
LookupAtRoot(r) ==
  LET found == Matches(Root, NameAt(r)) IN
  /\ resolve[r].pc \in Levels
  /\ IF found = {} THEN Rename(r, CreateStep[resolve[r].pc]) /\ UNCHANGED <<driveFolderId, verificationMemo>>
     ELSE Descend(r, Oldest(found))
  /\ UNCHANGED <<folders, title, upsets, raced, renamed>>

\* The first lookup names no parent: it searches the whole Drive.
Found(r) ==
  IF resolve[r].pc = "openWebApp" THEN {f \in DOMAIN folders : Live(f) /\ folders[f].name = NameAt(r)}
  ELSE Matches(resolve[r].parent, NameAt(r))

lookupFolderByName(r) ==
  LET found == Found(r) IN
  /\ resolve[r].pc \in Levels
  /\ IF found = {} THEN Rename(r, CreateStep[resolve[r].pc]) /\ UNCHANGED <<driveFolderId, verificationMemo>>
     ELSE Descend(r, Oldest(found))
  /\ UNCHANGED <<folders, title, upsets, raced, renamed>>

\* The folder is made; the answer may be lost.
createFolder(r, answered) ==
  LET new == Cardinality(DOMAIN folders) + 1
      level == Wanted[resolve[r].pc]
  IN
  /\ r \in Looking /\ resolve[r].pc \in DOMAIN Wanted /\ new \in Folder
  /\ folders' = [f \in DOMAIN folders \cup {new} |->
       IF f \in DOMAIN folders THEN folders[f]
       ELSE [parent |-> resolve[r].parent, trashed |-> FALSE,
             name |-> IF level = "project" THEN resolve[r].name ELSE level]]
  /\ IF answered THEN Descend(r, new) ELSE Rename(r, "failed") /\ UNCHANGED <<driveFolderId, verificationMemo>>
  /\ UNCHANGED <<title, upsets, raced, renamed>>

-----------------------------------------------------------------------------
(* What happens around it                                                   *)

Upset == upsets < MaxUpsets /\ upsets' = upsets + 1

\* The project is renamed on a device.
RenameProject(d, name) ==
  /\ Upset /\ title[d] # name
  /\ title' = [title EXCEPT ![d] = name]
  /\ renamed' = TRUE
  /\ UNCHANGED <<folders, driveFolderId, verificationMemo, resolve, raced>>

\* The user moves a folder to the trash.
TrashFolder(f) ==
  /\ Upset /\ Live(f)
  /\ folders' = [folders EXCEPT ![f].trashed = TRUE]
  /\ UNCHANGED <<title, driveFolderId, verificationMemo, resolve, raced, renamed>>

\* invalidateFolderVerificationMemo(): an explicit sync or a reconnect; the calls
\* under way go on and set the memo again.
invalidateFolderVerificationMemo(d) ==
  /\ Upset /\ d \in verificationMemo
  /\ verificationMemo' = verificationMemo \ {d}
  /\ UNCHANGED <<folders, title, driveFolderId, resolve, raced, renamed>>

\* The page is reloaded, its calls are gone.
ReloadPage(d) ==
  /\ Upset
  /\ verificationMemo' = verificationMemo \ {d}
  /\ resolve' = [r \in Resolve |->
       IF resolve[r].device = d /\ resolve[r].pc \notin {"idle", "ok"}
       THEN [resolve[r] EXCEPT !.pc = "failed"] ELSE resolve[r]]
  /\ UNCHANGED <<folders, title, driveFolderId, raced, renamed>>

FolderNext ==
  \/ \E r \in Resolve :
       \/ \E d \in Device : resolveProjectFolder(r, d)
       \/ \E ok \in BOOLEAN :
            verifyFolderById(r, ok) \/ renameFolderIfNeeded(r, ok) \/ createFolder(r, ok)
       \/ lookupFolderByName(r) \/ Throws(r)
  \/ \E d \in Device :
       \/ \E name \in ProjectTitle : RenameProject(d, name)
       \/ invalidateFolderVerificationMemo(d) \/ ReloadPage(d)
  \/ \E f \in Folder : TrashFolder(f)

FolderSpec == FolderInit /\ [][FolderNext]_folderVars

-----------------------------------------------------------------------------

FolderTypeOK ==
  /\ DOMAIN folders = 1..Cardinality(DOMAIN folders)
  /\ \A f \in DOMAIN folders : folders[f].parent \in 0..f - 1 /\ folders[f].trashed \in BOOLEAN
  /\ title \in [Device -> ProjectTitle]
  /\ \A d \in Device : driveFolderId[d] \in DOMAIN folders \cup {Root}
  /\ verificationMemo \subseteq {d \in Device : driveFolderId[d] # Root}
  /\ upsets \in 0..MaxUpsets

\* As long as no two lookups overlap and nothing is renamed, no folder ever has two
\* subfolders of one name: not after failed or unanswered creations, reloads, or folders
\* trashed in between.
NoTwinFolders ==
  ~raced /\ ~renamed => \A f, g \in DOMAIN folders :
    /\ Live(f) /\ Live(g)
    /\ folders[f].parent = folders[g].parent /\ folders[f].name = folders[g].name
    => f = g
=============================================================================
