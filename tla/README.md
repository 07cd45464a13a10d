# A verification project for open-webapp/owa

The repository is a set of TypeScript packages with which a browser application keeps its
documents in the user's Google Drive and IndexedDB, without a server of its own. What is hard
about it is not any single function. Several tabs of one browser share one IndexedDB; several
devices share one Drive folder; every request may fail, be retried, or be applied without an
answer; and every `await` lets the user, another call or another tab in between. This project
models the parts that have to get this right, checks them with TLC on small instances, and proves
the central invariants with TLAPS for every value of the constants.

- [The system](#the-system)
- [Modules](#modules)
- [Runs](#runs)
- [Fairness](#fairness)
- [Proofs](#proofs)
- [Where the code and its documents disagree](#where-the-code-and-its-documents-disagree)
- [What is not modelled](#what-is-not-modelled)
- [Plan](#plan)

## The system

The packages are under `src/packages/`. `drive-sync` talks to Google; `project-sync` and
`calendar` are built on it; `drive-connect` is the widget that connects an account; `notes-core`
holds algorithms over note entries. An application wires them together.

| Component | State it keeps | Operations | What is hard, and what makes it correct |
|---|---|---|---|
| Guarded files (`drive-sync/src/files.ts`, `storage.ts`) | one baseline (the last version seen) per file, in the profile's IndexedDB | `read`, `write` by id or by name, `remove`, `status`, `list` | Every operation is several requests. A write must not replace content its client has not seen, except inside the window between its own check and its upload; a client must not be refused its own writes; `status()` must be right. |
| HTTP layer (`http.ts`, `errors.ts`) | none | one request with retries on 429 and 5xx, one token refresh on 401 | A retry repeats what may already have been applied. |
| Credentials (`token.ts`, `connection.ts`, `envelope.ts`, `refresh.ts`, `reconcile.ts`, `broadcast.ts`, `active.ts`) | connection record, access token, encrypted envelope, in-flight refreshes | connect, disconnect, refresh, reconcile across tabs | A refresh in flight while the user disconnects or connects another account must not bring old credentials back. |
| Connection snapshot (`connectionSnapshot.ts`) | the last published snapshot, a generation counter | read, publish, subscribe | A slow read must not overwrite a newer snapshot. |
| Google scripts, picker (`gis.ts`, `picker.ts`, `permissions.ts`) | script promises | load, ask for a token, pick | Popup callback, error and timeout race; each promise settles once. |
| Document sync engine (`project-sync/src/documents.ts`) | nothing between runs but the cached file id in the sync state | `syncDocument`, `syncDocuments` | Write, and on a refusal read, merge, store and write again, at most three times: no edit may get lost while local edits, other devices, failures and crashes interleave. |
| Sync scheduler (`scheduler.ts`) | leadership, interval and debounce timers, runs in flight | `start`, `stop`, `disconnect`, `syncNow`, `markDirty`, visibility, messages of other tabs | One tab should run the interval; some tab must; no edit may wait for ever. |
| Sync state (`syncState.ts`) | a map per tab, a persist queue, one record per project shared by the tabs | `update` and its wrappers, `forgetDocument`, `clearProject`, `init` | The record must follow the map; what was acknowledged must stay stored; failures must not wedge the queue. |
| Status observable (`status.ts`) | snapshot, number of syncs in flight, conflicts | `markSyncStart`, `markSyncEnd`, subscriptions | Overlapping syncs share one error and one counter. |
| Project registry (`registry.ts`) | projects in IndexedDB | create, rename, delete, list | Names are checked and written in two transactions. |
| Project folders (`folders.ts`) | memoised folder ids | resolve or create a three-level path | Two devices create the same path. |
| Active database (`dataStore.ts`) | the open database | `setActive`, delete | Overlapping activations; a deletion blocked by another tab. |
| Migrations (`migrations.ts`) | run-once markers | run | Two tabs run one migration; a crash between the work and its marker. |
| Calendar controller (`calendar/src/core/`) | events, sync tokens, selection, in memory and encrypted on disk | load, refresh, select, persist | Overlapping passes and loads; a token must never be newer than the events stored with it. |
| Drive-connect widget (`drive-connect/src/`) | status store, a connect under way | connect with a timeout | The timeout races a late answer. |
| Notes merge (`notes-core/src/mergeRemoteEntries.ts`) | none | last-write-wins merge with tombstones | Two devices must converge. |

How they interact:

- `Scheduler.syncNow()` calls the sync function an application has set; that function is expected to
  call `syncDocuments()`, which runs `syncDocument()` for each document.
- `syncDocument()` calls `files.list`, `files.write` and `files.read` of `drive-sync`, the
  application's `readLocal`, `merge` and `writeLocal`, and `syncState.update()`.
- `files.*` goes through `http.ts` to Drive and through `storage.ts` to IndexedDB, which the tabs of
  one profile share.
- `connect()` of `drive-connect` races `connect()` of `drive-sync` against ten seconds; `drive-sync`
  stores what Google answers in IndexedDB, publishes the snapshot and broadcasts to the other tabs.
- The schedulers of the tabs exchange `BroadcastChannel` messages. The sync states of the tabs
  exchange nothing; they put to the same record.

## Modules

| Module | Models | State and actions |
|---|---|---|
| `FileGuard` | `files.ts`, the baselines of `storage.ts`, the retry loop of `http.ts` | A *client* is a browser profile, a *call* one pending operation. `pc` is the await a call is suspended at; each action is the code between two awaits. `baseline` is the IndexedDB store. Drive (`status`, `version`, `content`, `named`) is external and stamps each change with the next version. |
| `GuardedFile` | what `files.ts` promises those who share a file | abstract specification: a file that is replaced after an admission, which needs a version the client was given. It knows no baseline, probe or lookup: only the versions each client was `given`, and of each call its `stage` (idle, working, admitted, stored). `FileGuard` ends with `Guarded == INSTANCE GuardedFile`, which maps the await of a call to its stage and what it downloaded or had acknowledged to `given`. |
| `DocumentSync` | `documents.ts` | EXTENDS `FileGuard`: every write and read of a sync is a `FileGuard` call, taken step by step. Each device is a client with one call at a time. A content is the set of edits it contains and the application's merge is their union, so that a lost edit is the engine's doing and not the merge's. `at` is the await `syncDocument()` itself is suspended at. |
| `DocumentNames` | how one name comes to have two files | EXTENDS `DocumentSync` and changes no step of it: a history of which device created which file, what the earlier attempts of the same create had made, and who else was about to create the name. |
| `LeaderElection` | the election of `scheduler.ts` | A tab is its `instanceId`. `inbox[s][t]` is the channel from `s` to `t`, in order per sender. `Start`, `Stop`, `Disconnect`, `Close`, and `HandleMessage` for `handleBroadcastMessage()` with `becomeLeader()` and `cedeLeadership()`. |
| `Scheduler` | the rest of `scheduler.ts` | EXTENDS `LeaderElection`. Debounce timers, interval, visibility and the single-flight map. A run reads its projects one at a time and settles or fails. `unsynced` holds the projects with an edit no run has read, or whose run failed after reading it. |
| `SyncState` | `syncState.ts` | Per tab the map, the queue and the put under way; one record on disk. What one `setSynced()` stores (file id and time) is one stamp. |
| `CalendarController` | `controller.ts`, `sync.ts`, `reconcile.ts`, `storage.ts` of the calendar | One source. Google numbers the changes of a calendar: a sync token is the number of the last change it covers, the cached events are the set of the changes they reflect. `load` is the await `load()` is suspended at, and the two halves of the row it reads are decrypted apart, each with its own fallback; `call[k]` is one pending `refresh()` or `setSelectedIds()` with its local variables, up to the two awaits of `persist()`. |
| `Credentials` | `index.ts`, `token.ts`, `envelope.ts`, `refresh.ts`, `connection.ts`, `connectionSnapshot.ts`, `broadcast.ts`, the 401 and 403 paths of `http.ts`, the records of `storage.ts` | One project in several tabs. Three records in IndexedDB, each with transactions of its own; per tab the snapshot with its generation, the reads under way, the unread broadcasts and the coalesced requests. `call[c]` is a `connect()`, `disconnect()`, Drive request, raw token, warm-up or `dropProject()`, up to its next await. |
| `SettleOnce` | what a caller may rely on of a promise | abstract specification: begun, then settled once, and in the end |
| `DriveAuth` | `drive-connect/src/auth.ts`, `statusStore.ts`, the requests to Google of `token.ts`, `envelope.ts` and `gis.ts` | The same `connect()` in one page, down to the callback, the error callback, the grace period of a closed popup and the timer of each request. `Promise == INSTANCE SettleOnce` maps each request to the abstract specification. |
| `MergedStatus` | the merged status of `auth.ts`, `useDriveConnection.ts` | Connection and overlay change as they like; hooks mount and unmount; `merged` is the cached object. |
| `ProjectRegistry` | `registry.ts` | One step per transaction of `create()`, `rename()`, `remove()`; tabs may be closed between two. |
| `ProjectFolders` | `folders.ts` | Two devices, one Drive; every listing, check and creation is a step and may fail or go unanswered. Folders are trashed and renamed, sessions end. |
| `DataStore` | `dataStore.ts` | One page and the connections of other tabs. IndexedDB serves the opens and deletions of one database in order; a connection is known by the call that opened it. |
| `Migrations` | `migrations.ts` | One migration: the marker on disk, the in-flight map per tab, the function of the application, the mark and its failure. |
| `StatusObservable` | `status.ts` | All fields, and snapshots with the identity that `getStatus()` and the subscribers compare. |
| `NotesMerge` | `mergeRemoteEntries.ts`, `foldRuleEnvelopes.ts` | The merge of one entry as an operator, and replicas that edit, archive, restore, delete, publish and pull in any order. |
| `NotesBoard` | `tags.ts`, `mode.ts`, `entryFiltering.ts`, `stickyGroups.ts` | The filters, tabs and board as operators over the sections of one entry; the user changes one filter at a time. |
| `FileGuardProofs`, `DocumentSyncProofs`, `SchedulerProofs`, `StateProofs`, `ProjectStoreProofs`, `CalendarProofs`, `CredentialsProofs`, `NotesProofs` | | theorems, see [Proofs](#proofs) |
| `MCFileGuard`, `MCDocumentSync`, `MCDocumentNames`, `MCLeaderElection`, `MCScheduler`, `MCCalendarController`, `MCCredentials` | | instances for TLC: call and tab assignments, symmetries |
| `MCComponents`, `MCSettling` | | several components in one run. They share no state; `part` names the one a behaviour is about, the variables of the others keep their initial values. |

Some choices in them, each made from the code:

- `FileGuard.Abort` is every way a call can end without its request having reached Drive: no token,
  a lost connection, a 403, an IndexedDB error, a closed tab. `PatchUnanswered` and
  `CreateUnanswered` are the other half: Drive applied the request and the client does not learn it.
  Only a 429 or 5xx is retried (`MayRetry`), as `http.ts` does: `MaxTries` is its `MAX_ATTEMPTS` of
  three. (A request that is repeated after a 401 may be sent as often again; the theorems hold for
  any `MaxTries`.)
- A read samples the version *before* it downloads (`Sample`, `Download`, `Keep`). The order matters:
  see the mutant `KeepVersionLate`.
- `status()` issues its two lookups in parallel; `ProbeMeta` and `ProbeBase` may answer in either
  order, and the baseline may move between them.
- `Scheduler` gives `syncNow()` without a project the key `All`, distinct from every project's, as
  `scheduler.test.ts:413` requires; two runs of one project may overlap.
- `SyncState.Put` takes the map when the persist gets its turn, not when it was queued, because
  `persistSync()` reads the map after `await getDb()`.
- A tab that is closed (`Close`, `Reload`, `Die`, `CloseTab`, `CutOff`) runs no handler and loses its
  memory; IndexedDB and Drive keep what they have.
- Of a token `Credentials` keeps the account and whether it is outside the refresh buffer. Retries
  repeat a request unchanged and are folded into its outcome; the storage does not fail. A background
  read of the connection samples the record in a step of its own and commits, in a later one, only if
  the generation is still the one it began with. `externallyRefreshed` is tracked where it is read,
  which is without an exchange.
- A post of a broadcast reaches the listener of its own tab as well: `broadcast.ts` opens one channel
  to post and another to listen.
- In `Migrations` a call goes on from `hasRun()` in the step that reads the marker: IndexedDB
  delivers the result of one transaction before it starts the next on the same store. Two tabs that
  have both read the marker as missing are the overlap that remains.
- `StatusObservable`'s mark operations have no caller in `src/`; they are called as their comments
  ask, one end or error for each start. So with `resolveProjectFolder()`, whose caller is taken to
  store the id at once.
- `StatusObservable` has several errors of either kind, since snapshots compare errors by identity.
- `ProjectFolders.Found`: the lookup of the first level has no parent filter and finds the name
  anywhere in Drive; the other levels look under the folder above.
- `CalendarController.FetchDeferred`: a deferred token refresh in the middle of a pass gives up the
  pass with what it has fetched; any other failure costs the one calendar, after a second try.
- In `NotesBoard` a section is what the parsers find in it: tags, a date, whether there is prose. A date
  filter is the set of the days it lets pass, one day or a month. A search is matched against the
  whole text by the list and against each section by the sections shown, as the code does; "phrase" is
  a search that only the whole text contains.

## Runs

All runs finish their state space. CHECK_DEADLOCK is off where the system can legitimately stop:
the bounds on versions, edits, starts, calls and faults run out, or every tab is closed.

| Run | Instance and bounds | Shows |
|---|---|---|
| `guard_clients` | two clients with one call each, one file, an outside editor; one retry, at most 3 versions | `BaselineCovered`, `NoBlindOverwrite`, `RefusalNotSelf`, `ProbeHonest`, `KeepsPromise` |
| `docs` | two devices that each make one edit, one file (a run of `NamesSpec`, whose history changes no step; the `VIEW` leaves out that history and `restored`, which no step and no property of this run but the type invariant reads); one device may fail, crash and forget file ids; each request sent once, 3 versions | `NoSilentLoss`, `LocalLossOnlyInMerge`, `SyncedMeansUploaded` |
| `docs_names` | two devices, two files, two names, deletions in Drive, renames, three attempts of every request; one device may fail, crash and forget file ids; one version per file | `TwinsOnlyByRaceOrRepeat` |
| `sched` | two tabs, one project, one edit, one fault (a failed sync or a closed tab), under fairness | `IntervalCatchesUp`, `TimerFollowsLeadership`; no timer or run outlives its tab |
| `calendar` | one source, two calendars that change once each and may be deleted, two calls in all, which may overlap, either half of a row unreadable, the tab closed at any time | `TokensCovered`, `SelectionStands` |
| `credentials` | two tabs at work with one account, or one with two accounts while the other listens; with and without a token exchange, two calls of any kind (a Drive request beside one of its own tab and account) | `LogoutSticks`, `ConnBackedByEnvelope`, `ConnectShowsFlow` |
| `components` | two hooks; two projects and three registry calls; two tabs and four calls of one migration; two devices, three folder calls, six folders, one rename, trashed folder or reset; two syncs and five calls of the status; three tabs that start once, each closable; two replicas, three times and three edits; all texts of up to three sections | `ShownStatusCurrent`, `NamesSharedByRace`, `RemovedStaysRemoved`, `OnceUnlessExcused`, `NoTwinFolders`, `StatusTruthful`, `CededToSmaller`, `QuietReplicasAgree`, `NeverGoesBack`, `FiltersNarrow`, `ListedIsShown` |
| `settling` | three connects and one disconnect; four calls on two databases; one tab with two documents, three syncs and a queue of three, failing puts and reloads; all under fairness | `RequestsSettle`, `OneWindow`, `SpinnerStops`, `ActiveIsOpen`, `DeletionSettles`, `SettledRecordIsMap`, `AckedIsStored`, `QueueMoves` |
| `docs_current` | two devices, one edit, one device may crash | `MatchingBaselineIsCurrent` fails |
| `elect_leaders` | two tabs, one start each | `OneLeader` fails, with every message delivered |
| `sched_debounce` | two tabs, one edit, no fault | `DebounceReachesEdit` fails |
| `state_tabs` | two tabs, two documents | `AckedIsStored` fails when tabs share the record |

The properties in words:

- `BaselineCovered`: a recorded baseline never claims a version its client has not been given.
  `NoBlindOverwrite`: an upload replaces only content its client has seen or content that arrived
  after that upload's own staleness check. `RefusalNotSelf`: a client with one call at a time is never
  refused because of its own acknowledged write. `ProbeHonest`, of such a client: `status()` says "changed" only if a
  write would be refused now, and "unchanged" only if the client has seen that version or a later one.
  `KeepsPromise`: every step is one of `GuardedFile`. An upload follows an admission at a version no
  newer than one its client was given, one admission is good for as many uploads as there are
  attempts, and nothing else a call does, early or late, changes a file.
- `NoSilentLoss`: an upload removes an edit from the file only if that edit reached Drive after the
  upload's check, or if this device downloaded it in a sync that died before `writeLocal()`.
  `LocalLossOnlyInMerge`: an edit leaves a device only if it was made between the merge's `readLocal()`
  and its `writeLocal()`. `SyncedMeansUploaded`: a sync that reports success has uploaded.
  `TwinsOnlyByRaceOrRepeat`: two live files of one name were made by two attempts of one create, the
  first of which Drive had applied, or by two devices that had both looked before either created.
  Nothing else makes a twin: no forgotten id, rename, deletion in Drive, crash or repeated sync, and no
  device that looks after the create.
- `TimerFollowsLeadership`: the interval timer runs exactly while the tab is started and leads.
  `CededToSmaller`: once all messages are delivered, a started tab that does not lead has ceded to a
  smaller one, which is up or was closed without `stop()`. So the smallest started tab leads, and the
  tabs below a crashed one are not affected.
  `IntervalCatchesUp`: every edit is synced in the end, also if the debounce missed it, as long as a
  tab is started that has no smaller tab closed without `stop()`.
- `SettledRecordIsMap`: with the queue empty and the last put successful, the record is the map.
  `AckedIsStored`: an acknowledged file id stays stored until its own document changes.
  `QueueMoves`: a failed put does not wedge the queue.
- `TokensCovered`: a sync token is never ahead of the events it is kept with, in memory and on disk, so
  the next incremental sync skips no change. It excuses two things, which the code does not prevent:
  the changes a load has lost, because it could decrypt the tokens and not the events (`lost`), and
  everything after a token map was replaced at a bad moment (`crossed`): while the row is being
  loaded, by a copy that another pass has overtaken, or between the two halves of another call's
  `persist()`. Calls that overlap in any other way are covered. `SelectionStands`: what
  the user selected since the row was loaded is not undone by a refresh in flight.
- `LogoutSticks`: a tab whose `disconnect()` has settled shows no account until somebody connects
  again, however late the reads that were under way finish. `ConnBackedByEnvelope`: with an exchange,
  a stored connection has the envelope that renews it, also between two steps of a connect or a wipe,
  unless a `connect()` overlapped a wipe. `ConnectShowsFlow`: a `connect()` that joins a request in
  flight never takes over a silent one, so the user who asked was shown Google's window.
- `RequestsSettle`: each request to Google refines `SettleOnce`: it settles once, whatever GIS does
  and whichever of callbacks and timers come late. `OneWindow`: without an exchange at most one
  request is pending, although the handle forgets a `connect()` after ten seconds. `SpinnerStops`:
  "connecting" is not shown for ever. `ShownStatusCurrent`: mounted hooks agree, and show what both
  sources hold but for changes that came while none was mounted.
- `NamesSharedByRace`: two projects come to share a name for the first time only if the calls that
  named them overlapped between check and write; twins so made may part and meet again.
  `RemovedStaysRemoved`: only a rename that had read a project before its removal brings it back.
  `NoTwinFolders`: without overlapping lookups and without renames no folder has two live subfolders
  of one name, whatever fails, goes unanswered or is trashed. `OnceUnlessExcused`: a migration
  succeeds twice only if two tabs overlapped, a mark failed or a tab was closed before its mark.
- `ActiveIsOpen`: the active project has an open connection through all overlaps of activation,
  deletion and `closeAll()`. `DeletionSettles`: a deletion settles unless the project was being opened
  at the time or another tab keeps its database open.
- `StatusTruthful`: whichever snapshot is reused, every subscriber has been handed the values the
  fields have, and the phase says whether a sync is under way.
- `QuietReplicasAgree`: replicas that have exchanged everything hold the same text and deletion, but
  for archived copies and edits of one millisecond; folding their backups gives that text in either
  order. `NeverGoesBack`: no backup, however old, takes a replica behind the newest it knew of an
  entry. `FiltersNarrow`: a further date or search never reveals a section. `ListedIsShown`: list and
  board, computed apart, hold the same entries, no dated row is twice on the board or missing, and an
  entry with a shown section is listed.

`guard_clients` explores states up to `WithoutGarbage`: what an idle call still has in its locals, and
how it ended, is read by no action and by no property but in the step that ends it, and the next call
overwrites it.

Why the bounds are enough. A conflict needs two writers and one foreign version between a check and
an upload: three versions give a create, a foreign change and an answer to it, and every further
change meets the guard in a state that differs only in the numbers. Two edits are the fewest that
can be concurrent, and each device makes one of them; a third would meet the same union. Three tabs
are the fewest in which one tab can hear two others in an order that is not the order of their
starts. One edit and one fault are enough for liveness: a fault after which the edit is synced
leaves the state of an edit without a fault. Two documents and a queue of three give a persist under
way, one behind it and one change of the map after both.
In `docs_names` a file keeps its first version: an update makes no file, so only the creates, their
repetitions and the lookups matter, and two devices with two names have every order of them.
For the calendar, two calls are the fewest of which one can outdate the other or find the row the
other has left, and one change per calendar tells a token taken before it from one taken after.
Two credential calls overlap in every pair of kinds, in one tab and across two, and each begins from
every combination of stored records; the calls are numbered by kind (`MCCredentials`), which loses
nothing, since they are interchangeable. Two restrictions of `MCCredentials` do lose behaviours: a
Drive request overlaps calls of its own tab only (`FetchesInOneTab`), since its first steps are those
of the raw token, which overlaps calls of both, and only its answer to a 401 or 403 is left; and a second account appears only while one tab
makes all the calls and no Drive request is one of two (`SecondAccountKept`). The theorems of
`CredentialsProofs` have neither. Three
connects are two that time out in the widget and one that joins or follows them; four data store calls are two opens, a deletion and an activation to race them. Three registry
calls are two that race and one that removes what they wrote. Six folders are the path of three and
three more that a failed, an unanswered or a repeated creation can add; nothing is claimed of
folders after two lookups overlapped, so the exploration stops there. Two replicas and three times
give edits before, between and after a deletion and its return by an old backup. The texts
are all sequences of up to three sections of two tags, with or without today's date and prose, and
the dates at either side of each boundary of the board.

For the properties in the theorem list the argument is not needed: TLAPS proves them for all values
of the constants. In particular several calls of one client
(two tabs, or two calls of one tab) have no run: `BaselineCovered` and `NoBlindOverwrite` are proved
for every assignment of calls to clients, and the other two properties of `guard_clients` do not
hold for them.

## Fairness

- `Scheduler`: weak fairness of message delivery (the browser delivers what was posted), of the
  interval timer, and of the runs (the sync function reads its projects and settles; a
  sync that never settles keeps its key in `inFlightSyncs` for ever, and the code has no timeout).
  The fairness is of each tab, not of each channel or run: a tab that always receives something, or
  always goes on with some run, is as fair as the property needs.
  Nothing makes a user, a debounce or a visibility change act. `IntervalCatchesUp` is conditional on a
  started tab which has no smaller tab closed without `stop()`.
- `SyncState`: weak fairness of issuing a put and of its settling, with or without an error.
- `DriveAuth`: weak fairness of the timers and of everything awaited besides Google Identity
  Services (loading the script, the exchange, the records, the end of a disconnect). GIS itself may
  stay silent: `RequestsSettle` and `SpinnerStops` hold because of the timers.
- `DataStore`: IndexedDB answers an open and a deletion that no connection blocks, with success or an
  error. An open that a connection of another version blocks (`dataStore.ts:109`) may wait for ever, and
  another tab may keep a database open for ever.
- The other modules are checked for safety only.

## Proofs

Every safety invariant and safety action property of the passing runs is also a theorem, for every
value of the constants. The type invariants of the parts of `components` and `settling` are checked
by no run: each is a theorem of its part's specification instead. Each property is proved from an
inductive invariant: the property itself says too little about what the pending calls carry from one
await to the next. The assumptions are the named `ASSUME`s of the modules; they say that bounds are
numbers, that values which stand for "nothing" are not among the real ones, and which client a call
belongs to. Three groups of theorems
assume more, which their statements say: `OneCallPerClient`, one tab, no faulty device.

### Guarded files: `FileGuardProofs`

For any number of clients, calls, files, names and versions and every assignment of calls to clients:

- `TypeCorrect`: `Spec => []TypeOK`.
- `BaselineIsCovered`: `Spec => []BaselineCovered`. A read records the version it sampled two awaits
  earlier, and a write the version Drive answered with, so what a call carries has to be related to
  what its client has seen. The inductive invariant `IInv` is `TypeOK` with `FilesSane` (a live file
  has a version), `SeenBounded` (no client has seen a version Drive has not reached), `BaselineSeen`
  (a baseline is covered by a version seen) and, for each call, `CallSane`: what a read has sampled is
  not above what it has downloaded, nothing a call holds is above Drive's version, and a call about to
  upload holds a covered version or its file is gone for good. The lemma `StepMonotone` carries the
  other calls: versions grow, ids are not taken back, no client forgets what it has seen.
- `NoBlindOverwriteHolds`: `Spec => NoBlindOverwrite`. A call reaches its upload only past the
  comparison with a covered baseline, and from then on only Drive's version can move.
- `RefusalNotSelfHolds` and `ProbeHonestHolds`, for one call per client (`OneCallPerClient`, the
  case both are stated for: two calls of one client may refuse each other). `OwnIInv` adds to `IInv` that a
  version a client wrote is not above its baseline (`WritesBased`) and, per call, `OwnSane`: the
  version it is about to record or to compare is not below the client's own writes.

- `KeepsPromiseHolds`: `Spec => KeepsPromise`, step by step: one lemma per kind of step says which
  action of `GuardedFile` it is (`QuietPromise`, `GivePromise`, `UploadPromise`, `CreatePromise`,
  `DeletePromise`, `ElsewherePromise`), and `OwnMoves` that it moves the stage of no other call. What
  makes an admission legal is `CallSane` of `IInv`; `FirstAttempt` adds that a call has sent nothing
  before it is admitted. The run checks the same formula.
- `PromiseIsEnough`: `KeepsPromise => Guarded!NoBlindUpload`, from the abstract specification alone
  (`GuardedIInv`): what an upload replaces was given to its client or is newer than the version of its
  admission. A caller that knows only `GuardedFile` may rely on it.

### Document sync: `DocumentSyncProofs`

The engine's specification starts, continues and ends calls of `FileGuard`, so the invariant `IInv`
holds of it as well (`DocStepIInv`); the rest is for any number of devices, files and edits:

- `DocTypeCorrect`: `DocSpec => []DocTypeOK`, `FileGuard`'s variables included.
- `SyncedMeansUploadedHolds`, `LocalLossOnlyInMergeHolds` and `NoSilentLossHolds`. `DocIInv` joins to
  each device the place its call is suspended at (`PlaceSane`), what it sends and holds (`HeldSane`)
  and what makes a push safe, `CurrentIsHeld`: a device whose baseline is Drive's version holds
  everything the file contains, or lost it in a sync that died. The comparison of `updateContent()`
  turns that into a promise about the content it replaces.
- `TwinsOnlyByRaceOrRepeatHolds`: `NamesSpec => []TwinsOnlyByRaceOrRepeat`, for any number of devices,
  names, files and attempts. `NamesIInv` adds `Looked`: each live file of the name a device is about
  to create was made by this very create (`created`), or by another device after this one had looked
  (`racing`). `StepMakes` says that every step of a call looks, goes on or makes a file, and that no
  call waits to create a name under which it has seen one.

- `HealthyAreCurrentHolds`: a device outside `Faulty`, whose syncs neither fail nor die, overwrites no
  edit it does not hold when its baseline matches, however often the others crash. Hence
  `MatchingBaselineIsCurrentHolds`: with nobody faulty the property that `docs_current` refutes holds,
  so a sync that ends between `read()` and `writeLocal()` is all that is wrong with it.
- `EngineKeepsPromise`: `DocSpec => KeepsPromise`. Retries of the engine, forgotten file ids, crashes
  and files deleted in Drive leave the promise of `GuardedFile` intact.

### Scheduler: `SchedulerProofs`

For any set of numbered tabs, with or without an interval and with any tabs closable:

- `ElectionTypeCorrect`: nothing is in transit from a tab to itself or to a closed channel.
- `TimerFollowsLeadershipHolds`, by `TimerInv`, the equivalence timer = interval configured, started
  and leading, which every step preserves; it needs that a tab which is not alive is not started.
- `CededToSmallerHolds`. What keeps a leader is a relation between the tabs and the messages in
  transit: `LastWord`, that the last announcement on each channel tells the present state of its
  sender, and `Outranked`, that a started tab which does not lead has ceded to a smaller one that is
  still up, was closed, or whose stop is on its way to it. With nothing in transit only the first two
  are left.
- `SmallestStartedTabLeads`: so a started tab leads that has no smaller tab started or closed without
  `stop()`; in particular some tab leads whenever one is started and none was closed.
- `SchedulerElects`: `SchedSpec => ElectionSpec`. Debounce, interval, visibility and runs put no
  condition on the election, so the theorems about it hold of the scheduler.
- `SchedTypeCorrect`: `SchedSpec => []SchedTypeOK`; no debounce timer or run outlives its tab.

### Status, sync state, widget: `StateProofs`

- `StatusTypeCorrect` and `StatusTruthfulHolds`, for any subscribers; inductive together.
- `MergedTypeCorrect` and `ShownStatusCurrentHolds`, for any hooks, connections and overlays;
  `MergedIInv` relates the cached object to what the hooks were last told (`CacheCurrent`).
- `StateTypeCorrect` for any set of tabs. `SettledRecordIsMapHolds` and `AckedIsStoredHolds` for one
  tab, since with two the second fails (run `state_tabs`): the record is the map as it was last put
  and the queue carries what is newer (`LastPutIsMap`, `PutCarriesStamp`), and an acknowledged stamp
  is in the record and in the put under way (`AckedIsCarried`).
- `OneWindowHolds`, for any number of attempts and disconnects. Inductive is `Coalesced`, that the
  coalescing map names the one pending request, together with `Begun` (nothing is begun before its
  `connect()`, and only a pending request has a timer or a script to wait for). It is stated of
  each pair of requests; that their number is at most one follows.
- `AuthTypeCorrect`: a pending request that has asked Google has its timer. With it goes `Awaited`: what
  an attempt or the race of the handle waits for was begun, so a request that nobody began is never
  awaited.
- `PromiseRefined`: every step of `DriveAuth` maps to a step of `SettleOnce` or leaves it unchanged,
  for every request. The run checks `RequestsSettle` of the first request with liveness included.

### Projects: `ProjectStoreProofs`

- `MigTypeCorrect`, `RanBeforeResolved` and `OnceUnlessExcusedHolds`, for any tabs and calls. That the
  function has succeeded twice says nothing about who is at work now, so `MigIInv` relates the places
  that know: `Placed` (each call at work belongs to a tab), `FlightHeld` (it is the flight its tab has
  registered), `RunBacked` (what is stored or resolved was run and marked) and, while nothing excuses
  it, `OneAtATime`: at most one call of all tabs is at work, and a run not yet marked is its own.
- `RegTypeCorrect`, `NamesSharedByRaceHolds` and `RemovedStaysRemovedHolds`, for any projects, names,
  tabs and calls. `RegIInv` says of a call past its check that it has met every other such call
  (`ClaimersMet`) and whoever has since given its name to another project (`HoldersMet`), and of a
  rename whose project is gone that it had read it (`RevivalsKnown`).
- `DataTypeCorrect` and `ActiveIsOpenHolds`, for any number of databases and calls. `DataIInv` adds
  that a waiting call is in the queue of its database and no call is in it twice (`DataQueued`).
- `FolderTypeCorrect` and `NoTwinFoldersHolds`, for any devices, titles and calls. As long as neither
  excuse applies, every title is the old one (`OneTitle`), one call at a time looks folders up, and
  what it is about to create is still missing (`OneLookup`).

### Calendar: `CalendarProofs`

For any calendars, changes and calls:

- `CalendarTypeCorrect` and `SelectionStandsHolds`. `SelIInv` follows the last selection of the user
  into the calls that carry it, at whichever await they are suspended.
- `TokensCoveredHolds`, with any number of overlapping calls. `CovIInv` says, until a token map is
  replaced at a bad moment (`crossed`), what every call at work carries: the token of a fetch is
  covered by the events it is applied to, each token of the copy by the events fetched with it, or it is
  the token the controller holds or none, unless another pass has overtaken the copy (`behind`), and
  the tokens of a row being stored by its events (`CallCovered`); likewise the row being loaded (`LoadCovered`). All
  are up to what a load has `lost`, which only grows.

### Credentials: `CredentialsProofs`

For any tabs, accounts and calls, with and without an exchange: `CredTypeCorrect`,
`LogoutSticksHolds`, `ConnBackedByEnvelopeHolds`, `ConnectShowsFlowHolds`, all from
`CredIInv == TypeIInv /\ Backed /\ LogoutKept`:

- `TypeIInv` is the way of every call, coalesced request and background read, and who waits for whom.
  That the generation stays in its type is a counting argument: it is at most the number of
  `disconnect()` calls that have announced themselves.
- `Backed`: while no connect has overlapped a wipe, a connect about to store its connection has its
  envelope stored, and a wipe about to remove the envelope has removed the connection.
- `LogoutKept`: in a tab that is signed out no read of the current generation carries an account.
  Older reads may; they cannot commit.

### Notes: `NotesProofs`

- `NotesTypeCorrect` and `QuietReplicasAgreeHolds`, for any replicas, times and edits. `NotesIInv`
  says of every copy and backup that its entry is newer than its deletion and of the past;
  `MergeKept` that a merge keeps it so, whatever backup it reads; `NothingToLearn` what it means that
  a pull changes nothing. `foldRuleEnvelopes()` is a recursive function, of which the theorem needs
  only the two-element case (`FoldOfTwo`).
- `NeverGoesBackHolds`, from the same invariant: a merge ends with the newest of what both sides know
  (`MergeIsNewest`), whatever the age of the backup.
- `PullOrderIrrelevant`: two backups merged in either order give the same text and the same deletion,
  but for archived entries and edits of one millisecond.
- `BoardTypeCorrect`, `FiltersNarrowHolds` and `ListedIsShownHolds`, for every text, whatever its
  length, tags and dates. That no row is on the board twice is a count: the five parts are disjoint
  and together the dated rows (`PartsSplit`), stacking by week is injective (`WeeksCount`), and a
  section has one row (`SectionsCount`).

### Only model-checked

- Liveness, which with ENABLED is beyond the prover: `IntervalCatchesUp`, `SpinnerStops`,
  `DeletionSettles`, `QueueMoves` and the liveness half of `RequestsSettle`.
- The counterexamples: a run that finds a violation is its own proof.

## Where the code and its documents disagree

Four disagreements are shown by runs and listed as findings:

1. `docs_current`: `files.read()` advances the baseline before `merge()` and `writeLocal()` have run. A
   tab closed in between leaves a matching baseline for content that the device does not hold, and its
   next sync overwrites that content as a pure push. `SPEC.md:116` says a matching baseline means the
   client was current.
2. `elect_leaders`: `start()` makes a tab leader unconditionally. In the run tab 1 leads, tab 2 starts,
   and its announcement is delivered to tab 1, which has the smaller id, leads already, and answers
   nothing: all messages are delivered and both lead. `scheduler.ts:9` says only one tab runs interval
   syncs.
3. `sched_debounce`: the debounce clears the dirty mark and joins a run that has already read the
   project, so no sync for the edit follows. `types.ts:329` says `markDirty()` triggers one.
4. `state_tabs`: each tab puts its own whole map to the shared record and removes file ids another tab
   has stored. `syncState.ts:13` describes this very fault as the one the manager fixes.

Others were met while modelling and have no run of their own. Files and documents:

- The guard has the window `NoBlindOverwrite` names: `updateContent()` checks and then sends an
  unconditional PATCH. The doc comment at `files.ts:262` promises no clobbering without exception.
- `documents.ts:163` takes the first file of a name, which "should be unique by name in the project
  folder". Two devices that look a new name up at the same time both create the file and never merge;
  and `http.ts:179` sends a create again that was answered with 5xx, so that one device alone makes two
  files if Drive had applied it. `TwinsOnlyByRaceOrRepeat` states that these are the only two ways.
- A write refused while no file id is known ends the sync with an internal error;
  `documents.ts:348` expects an id there.
- A cached id whose file was deleted in Drive fails every later sync, and a renamed document goes on
  being written to its old file; `SPEC.md:124` and `types.ts:28` say otherwise.

Scheduler, state and status:

- A leader that is closed or crashes is not replaced: `leaderCheckTimer` is never set and
  `election-announce` is posted without any receiver. `plans/project-sync-extraction.md:412` asks for
  promotion. `CededToSmaller` and `IntervalCatchesUp` bound the damage: only the tabs larger than the
  closed one go without a leader.
- `syncNow()` of all projects and of one are different keys of the single-flight map
  (`scheduler.ts:184`): two syncs of one project overlap in one tab.
- `syncState.update()` resolves although its put failed (`syncState.ts:120`), and `clearProject()`
  keeps the project's `lastSyncedAt` (`syncState.ts:147`, `368`).
- `status.ts:5` promises referentially stable snapshots. With no conflicts each poll builds a new one
  and emits it, and the swap at line 207 is not remembered. `markSyncEnd()` of one sync clears the
  error of another. Hence `StatusTruthful` claims no more than that an error phase has an error.
- `createProjectSync()` never sets the scheduler's sync function nor calls `syncDocuments()`:
  `start()` only warns and `syncNow()` throws until the application wires it. Nothing in `src/` calls
  `resolveProjectFolder()` or the marks of the status observable either.

Calendar:

- `load()` decodes events and sync state apart (`controller.ts:116`). If the events cannot be decrypted
  and the sync state can, the tokens are kept beside no events, and the next incremental sync skips
  every change they cover, until the next full one, which is due a day after the last. `SPEC.md:21` of
  `calendar` says such data yields empty state. `TokensCovered` excuses exactly these changes (`lost`).
- A pass copies the token map when it begins and replaces it when it ends (`controller.ts:161`, `198`).
  A calendar that it fails to sync, and another pass has synced in between, loses the new token and
  keeps the new events; `SPEC.md:61` says a failure keeps both. The token may only be too old: the next
  sync reads again what it has.
- Overlapping calls of one calendar source are not serialised, and `CalendarPane.tsx:178` starts
  `hydrate()` without awaiting it beside a refresh. `persist()` serialises the tokens one await after
  the events; a pass that ends in between stores its tokens with the other's events, and a row that is
  loaded late replaces the tokens of a pass. `TokensCovered` excuses these moments (`crossed`). A
  selection made while the row is being read is overwritten by it: `gen`
  (`controller.ts:50`) guards selections against refreshes in flight, not against the load;
  `SelectionStands` therefore starts once the row is loaded.

Credentials and the widget:

- `connection.ts:190` names one place through which non-interactive refreshes go. The expiry path of
  `driveFetch()` (`http.ts:140`) and `getAccessToken()` do not pass it, so the token they obtain is not
  compared with the connected account.
- A refresh in flight while the user disconnects stores its token, or its envelope, after the wipe.
  `LogoutSticks` is about the interface and `ConnBackedByEnvelope` about the record read first; neither
  says that the secrets stay gone.
- A `connect()` that fails after the token, at `fetchEmail()`, leaves the token or envelope of the
  account just chosen beside the connection of the former one.
- The wipe after a 410 of the exchange neither broadcasts nor rereads the snapshot, and `dropProject()`
  does not reread it; `handleBroadcast()` rereads without outdating the reads under way; `connect()`
  broadcasts the token before it stores the connection, and with an exchange nothing. Other tabs go on
  showing what was true before.
- Of two overlapping `disconnect()` calls the first to end can leave the tab showing the account until
  the second has reread it; the comment at `index.ts:408` says the snapshot is current.
- `auth.ts:61` promises one Google window. With an exchange, a click after the ten seconds opens a
  second code request beside the first; `OneWindow` is stated without one.
- A `connect()` that succeeds after the ten seconds leaves the timeout's error shown beside the
  connection. Overlapping `connect()` and `disconnect()` share one overlay, and either end clears
  "connecting".
- The merged status is cached and not recomputed on a mount (`auth.ts:99`): what changed while no hook
  was mounted is shown stale until the next change.

Projects:

- `factory.ts:18` opens one database at version 1 for the registry and then for the migrations. The
  second open upgrades nothing, so the `migrations` store is never created.
  `Migrations` models `runOnce()` on a database that has it.
- `migrations.ts:92` promises that overlapping calls run the function once. The in-flight map is per
  tab; two tabs run it twice.
- Two tabs can create one name (`registry.ts:121`), and a rename that had read a project writes it
  back after its removal.
- Overlapping `setActive()` calls of one project leave the slower connection open and unknown. From
  then on the page blocks its own deletion of that database, and a deletion queued behind a pending
  open blocks itself. An open that ends after `closeAll()` or `deleteDatabase()` makes its project
  active again.
- Devices that raced for a folder keep different duplicates for ever; the memo outlives a trashed
  folder, and an invalidation during a resolve is undone when it ends. Two devices that know different
  names rename the folder to and fro.

Notes:

- An entry with a section tagged inline and a last section of tags only: with the inline tag selected,
  `filterEntries()` lists the entry and `filterParagraphsInEntry()` shows nothing of it; so does the
  filter `__untagged__`. `ListedIsShown` states the other direction.
- Selecting a further tag may reveal a section (the trailing tags count for the whole entry), so
  `FiltersNarrow` is about dates and searches.
- Archived copies are never replaced, and of two edits of one millisecond each replica keeps its own:
  `QuietReplicasAgree` excepts both.

## What is not modelled

- Payloads, mime types, wording, logging, rendering: nothing checked depends on them.
- The single-tab mode of the scheduler without `BroadcastChannel`, which sends no messages.
- `syncDocuments()` over several documents: it runs `syncDocument()` one after the other and keeps
  going when one fails; documents share no state but the sync state.
- The error and conflict payloads of the sync state and its derived phase.
- `ensureFolderPath()` of `files.ts`, and `files.list` beyond what `write` by name and
  `resolveFileId()` use of it; pagination; the delays of `http.ts`.
- Of the calendar: the status, loading and deferred flags, the window of dates with its
  age limit (a sync that has a token may always be a full one), and several sources; the views, and
  the parsing of single events.
- Of the guarded files: an answer of Drive without a version (`files.ts:193` then lets the write pass).
  Drive always has one for a file that exists, and `fetchRemoteVersion()` asks for it.
- Of the credentials: several projects, scopes, a failing IndexedDB and the timers that start a
  warm-up. The picker and the permission calls pass one request on and keep nothing.
- Of the merge: a malformed envelope, at which `foldRuleEnvelopes()` throws before it folds anything.
  A deletion with an invalid date is modelled: it is skipped.
- Of the notes: parsing of text and dates, images, the renaming of tags. They are functions of one
  text, which unit tests cover.
- Components that only render or wrap third-party scripts: the widget's element, the React hooks
  beyond the subscriptions of `MergedStatus`, the OAuth tester. `factory.ts` wires and keeps nothing.

## Plan

The modules of the inventory are written, and the safety properties of the runs are proved. What is
left, in this order:

| What | Why |
|---|---|
| abstract specification `SingleWriter`: a record that takes images of one map in order | what the persist queue promises; implemented by `SyncState` with one tab |
| `NoTwinFolders` and `NamesSharedByRace` without their excuses, as bounds on how many twins there can be | what an application has to expect of two devices |
| composition of `Scheduler`, `DocumentSync` and `SyncState` | as an application wires them; the repository holds no such wiring, so it stays an assumption |
