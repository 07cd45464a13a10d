-------------------------- MODULE CalendarController --------------------------
(***************************************************************************)
(* The calendar controller of packages/calendar (core/controller.ts,       *)
(* sync.ts, reconcile.ts, storage.ts) for one source: the cached events,   *)
(* the sync tokens and the selection in memory, and the row it persists.   *)
(*                                                                         *)
(* Google numbers the changes of a calendar; a sync token is the number of *)
(* the last change it covers, and the events cached for a calendar are the *)
(* set of the changes they reflect.  A call is one pending refresh() or    *)
(* setSelectedIds(); `pc' is the await it is suspended at.  Status flags   *)
(* and the window of dates are left out.  The age of the last full sync is *)
(* not tracked: a sync that has a token may be a full one nevertheless.    *)
(***************************************************************************)
EXTENDS Naturals, FiniteSets

CONSTANTS
    Calendars,
    Primary,      \* the primary calendar, which cannot be deleted
    Calls,        \* the calls that may be pending at one time
    Nobody,       \* "no call waits for the load"
    NoToken,
    MaxChanges,   \* bound: how often a calendar changes
    MaxCalls      \* bound: how many calls are started

ASSUME PrimaryIsCalendar == Primary \in Calendars
ASSUME NobodyIsNoCall == Nobody \notin Calls
ASSUME NoTokenIsNone == NoToken \notin Nat
ASSUME CalendarBounds == MaxChanges \in Nat /\ MaxCalls \in Nat

VARIABLES
    exists,       \* Google: the calendars of the account
    changes,      \* Google: how often each calendar has changed
    disk,         \* the StorageRow
    load,         \* where load() is suspended
    loader,       \* the call that awaits it
    row,          \* the row it has read
    events,       \* SourceState.events, by calendar
    tokens,       \* SourceState.syncState.tokens
    selected,     \* SourceState.selectedIds
    call,         \* the pending calls, with their local variables
    started,      \* the counter of MaxCalls
    \* history
    picked,       \* what the user selected last in this tab, {} when nothing
    lost,         \* changes whose cached events a load could not decrypt, by
                  \* calendar, where it could decrypt the calendar's token
    crossed       \* a token map was replaced at a bad moment, see Crosses

googleVars == <<exists, changes>>
loadVars == <<load, loader, row>>
stVars == <<events, tokens, selected>>
vars == <<googleVars, disk, loadVars, stVars, call, started, picked, lost, crossed>>

Changes == 1..MaxChanges
Tokens == 0..MaxChanges \cup {NoToken}
EventMaps == [Calendars -> SUBSET Changes]
TokenMaps == [Calendars -> Tokens]
Rows == [events : EventMaps, tokens : TokenMaps, selected : SUBSET Calendars]

NoEvents == [c \in Calendars |-> {}]
NoTokens == [c \in Calendars |-> NoToken]
NoRow == [events |-> NoEvents, tokens |-> NoTokens, selected |-> {}]

CallRecords ==
    [pc : {"idle", "load", "list", "sync", "fetch", "encrypt", "put"},
     pick : SUBSET Calendars,       \* the argument of setSelectedIds(), {} in a refresh
     added : SUBSET Calendars,      \* the calendars to sync once the selection is stored
     only : SUBSET Calendars,       \* runPass(only)
     outdated : BOOLEAN,            \* st.gen # gen
     behind : BOOLEAN,              \* history: a pass has committed since it copied the tokens
     chosen : SUBSET Calendars,     \* selected, as refreshSource() reconciled it
     todo : SUBSET Calendars,       \* targets not fetched yet
     at : Calendars,                \* calendarId
     again : BOOLEAN,               \* the fetch is syncWithRetry's second
     token : Tokens,                \* syncToken of the fetch
     existing : SUBSET Changes,     \* existing of the fetch
     fresh : EventMaps,
     synced : SUBSET Calendars,
     tokens : TokenMaps,            \* its copy of the token map
     stored : EventMaps,            \* the row persist() is building
     storedTokens : TokenMaps]

Idle ==
    [pc |-> "idle", pick |-> {}, added |-> {}, only |-> {}, outdated |-> FALSE,
     behind |-> FALSE, chosen |-> {}, todo |-> {}, at |-> Primary, again |-> FALSE, token |-> NoToken,
     existing |-> {}, fresh |-> NoEvents, synced |-> {}, tokens |-> NoTokens,
     stored |-> NoEvents, storedTokens |-> NoTokens]

TypeOK ==
    /\ exists \subseteq Calendars
    /\ changes \in [Calendars -> 0..MaxChanges]
    /\ disk \in Rows
    /\ load \in {"no", "get", "events", "tokens", "done"}
    /\ loader \in Calls \cup {Nobody}
    /\ row \in Rows
    /\ events \in EventMaps
    /\ tokens \in TokenMaps
    /\ selected \in (SUBSET Calendars) \ {{}}
    /\ call \in [Calls -> CallRecords]
    /\ started \in 0..MaxCalls
    /\ picked \subseteq Calendars
    /\ lost \in EventMaps
    /\ crossed \in BOOLEAN

Init ==
    /\ exists = Calendars
    /\ changes = [c \in Calendars |-> 0]
    /\ disk = NoRow
    /\ load = "no"
    /\ loader = Nobody
    /\ row = NoRow
    /\ events = NoEvents
    /\ tokens = NoTokens
    /\ selected = {Primary}
    /\ call = [k \in Calls |-> Idle]
    /\ started = 0
    /\ picked = {}
    /\ lost = NoEvents
    /\ crossed = FALSE

-----------------------------------------------------------------------------
(* load(): whoever comes first marks the source as loaded and reads its    *)
(* row; everyone else goes on at once.                                     *)

BeginLoad(who) ==
    IF load = "no" THEN load' = "get" /\ loader' = who /\ UNCHANGED row
                   ELSE UNCHANGED loadVars

Hydrate ==
    /\ load = "no"
    /\ BeginLoad(Nobody)
    /\ UNCHANGED <<googleVars, disk, stVars, call, started, picked, lost, crossed>>

\* The two halves of the row are decrypted one by one, and each that cannot be
\* is replaced by its own fallback; the selection is stored in the clear.
GetRow ==
    /\ load = "get"
    /\ disk # NoRow
    /\ \E eventsRead, tokensRead \in BOOLEAN :
        /\ row' = [disk EXCEPT !.events = IF eventsRead THEN @ ELSE NoEvents,
                               !.tokens = IF tokensRead THEN @ ELSE NoTokens]
        /\ lost' = [c \in Calendars |->
                       IF tokensRead /\ ~eventsRead /\ disk.tokens[c] # NoToken
                       THEN lost[c] \cup disk.events[c] ELSE lost[c]]
    /\ load' = "events"
    /\ UNCHANGED <<googleVars, disk, loader, stVars, call, started, picked, crossed>>

DecodeEvents ==
    /\ load = "events"
    /\ events' = row.events
    /\ load' = "tokens"
    /\ UNCHANGED <<googleVars, disk, loader, row, tokens, selected, call, started, picked, lost, crossed>>

\* The token map of the moment is replaced under another call's persist(), which
\* has serialised the events and not yet the tokens.
UnderPersist(others) == \E j \in others : call[j].pc = "encrypt"

EndLoad == load' = "done" /\ loader' = Nobody /\ row' = NoRow

DecodeTokens ==
    /\ load = "tokens"
    /\ tokens' = row.tokens
    /\ selected' = row.selected
    /\ EndLoad
    /\ crossed' = (crossed \/ UnderPersist(Calls))
    /\ UNCHANGED <<googleVars, disk, events, call, started, picked, lost>>

\* There is no row yet, or storage.get() rejects.
LoadFails ==
    /\ load = "get"
    /\ EndLoad
    /\ UNCHANGED <<googleVars, disk, stVars, call, started, picked, lost, crossed>>

-----------------------------------------------------------------------------
(* Calls *)

StartCall(k, pick) ==
    /\ call[k] = Idle
    /\ call' = [call EXCEPT ![k].pc = "load", ![k].pick = pick,
                            ![k].only = IF pick = {} THEN Calendars ELSE {}]
    /\ BeginLoad(k)
    /\ started < MaxCalls
    /\ started' = started + 1
    /\ UNCHANGED <<googleVars, disk, stVars, picked, lost, crossed>>

Loaded(k) == call[k].pc = "load" /\ loader # k

\* persist() serialises the events of the moment, then awaits their encryption.
Persist(c, now) == [c EXCEPT !.pc = "encrypt", !.stored = now]

\* setSelectedIds(): the new selection holds at once and outdates every refresh.
Select(k) ==
    /\ Loaded(k)
    /\ call[k].pick # {}
    /\ selected' = call[k].pick
    /\ picked' = IF load = "done" THEN call[k].pick ELSE {}
    /\ call' = [j \in Calls |->
                  IF j = k
                  THEN Persist([call[k] EXCEPT !.added = @ \cup (call[k].pick \ selected)], events)
                  ELSE [call[j] EXCEPT !.outdated = call[j].pc # "idle"]]
    /\ UNCHANGED <<googleVars, disk, loadVars, events, tokens, started, lost, crossed>>

\* refreshSource() after its load.
BeginRefresh(k) ==
    /\ Loaded(k)
    /\ call[k].pick = {}
    /\ call' = [call EXCEPT ![k].pc = "list", ![k].outdated = FALSE]
    /\ UNCHANGED <<googleVars, disk, loadVars, stVars, started, picked, lost, crossed>>

\* reconcileSelection(): what still exists, else the primary calendar.
ReconciledOrNone(ids) == ids \cap exists
Reconciled(ids) == IF ids \cap exists = {} THEN {Primary} ELSE ids \cap exists

\* getToken() and fetchCalendarList() have succeeded.
Listed(k) ==
    /\ call[k].pc = "list"
    /\ LET chosen == Reconciled(selected) IN
       call' = [call EXCEPT ![k].pc = "sync", ![k].chosen = chosen,
                            ![k].todo = chosen \cap call[k].only,
                            ![k].tokens = tokens]
    /\ UNCHANGED <<googleVars, disk, loadVars, stVars, started, picked, lost, crossed>>

\* One of them failed, or the token refresh was deferred: nothing is synced.
ListFails(k) ==
    /\ call[k].pc = "list"
    /\ call' = [call EXCEPT ![k] = Persist(@, events)]
    /\ UNCHANGED <<googleVars, disk, loadVars, stVars, started, picked, lost, crossed>>

Ask(k, c, again) ==
    call' = [call EXCEPT ![k].pc = "fetch", ![k].at = c, ![k].again = again,
                         ![k].todo = @ \ {c},
                         ![k].token = tokens[c], ![k].existing = events[c]]

Fetch(k, c) ==
    /\ call[k].pc = "sync"
    /\ c \in call[k].todo
    /\ Ask(k, c, FALSE)
    /\ UNCHANGED <<googleVars, disk, loadVars, stVars, started, picked, lost, crossed>>

Received(k, result, token) ==
    /\ call[k].pc = "fetch"
    /\ call[k].at \in exists
    /\ call' = [call EXCEPT ![k].pc = "sync",
                            ![k].fresh[call[k].at] = result,
                            ![k].synced = @ \cup {call[k].at},
                            ![k].tokens[call[k].at] = token,
                            ![k].at = Primary, ![k].again = FALSE,
                            ![k].token = NoToken, ![k].existing = {}]
    /\ UNCHANGED <<googleVars, disk, loadVars, stVars, started, picked, lost, crossed>>

\* No token, an old one, or one that Google does not accept any more (410).  An
\* answer without nextSyncToken deletes the token.
FullSync(k) ==
    LET n == changes[call[k].at] IN
    \E token \in {n, NoToken} : Received(k, 1..n, token)

\* applyChanges(): the page's changes on top of the existing events.
AppliedToNone(k) == (call[k].token + 1)..changes[call[k].at]
Applied(k) == call[k].existing \cup (call[k].token + 1)..changes[call[k].at]

\* An answer without nextSyncToken keeps the old token.
IncrementalSync(k) ==
    /\ call[k].token # NoToken
    /\ \E token \in {changes[call[k].at], call[k].token} : Received(k, Applied(k), token)

\* syncWithRetry(): once more, with the events and the token of the moment.
FetchRetried(k) ==
    /\ call[k].pc = "fetch"
    /\ ~call[k].again
    /\ Ask(k, call[k].at, TRUE)
    /\ UNCHANGED <<googleVars, disk, loadVars, stVars, started, picked, lost, crossed>>

FetchFails(k) ==
    /\ call[k].pc = "fetch"
    /\ call[k].again
    /\ call' = [call EXCEPT ![k].pc = "sync", ![k].at = Primary, ![k].again = FALSE,
                            ![k].token = NoToken, ![k].existing = {}]
    /\ UNCHANGED <<googleVars, disk, loadVars, stVars, started, picked, lost, crossed>>

\* A RefreshDeferredError is not retried: the pass is given up as a whole, what
\* it has fetched included.
FetchDeferred(k) ==
    /\ call[k].pc = "fetch"
    /\ call' = [call EXCEPT ![k] = Persist([Idle EXCEPT !.pick = call[k].pick], events)]
    /\ UNCHANGED <<googleVars, disk, loadVars, stVars, started, picked, lost, crossed>>

KeepsAnyChoice(k) == TRUE
KeepsChoice(k) == ~call[k].outdated

\* A commit replaces the token map while the row is being loaded, by a copy that
\* another commit has overtaken, or under another call's persist().
Crosses(k) == load # "done" \/ call[k].behind \/ UnderPersist(Calls \ {k})

Overtaken(c) == IF c.pc \in {"sync", "fetch"} THEN [c EXCEPT !.behind = TRUE] ELSE c

\* The calendars synced get their fresh events, the others keep theirs; the
\* token map is replaced by the copy.
Commit(k) ==
    /\ call[k].pc = "sync"
    /\ call[k].todo = {}
    /\ events' = [c \in Calendars |->
                    IF c \in call[k].synced THEN call[k].fresh[c] ELSE events[c]]
    /\ tokens' = call[k].tokens
    /\ selected' = IF KeepsChoice(k) THEN call[k].chosen ELSE selected
    /\ call' = [j \in Calls |->
                  IF j = k THEN Persist([Idle EXCEPT !.pick = call[k].pick], events')
                           ELSE Overtaken(call[j])]
    /\ crossed' = (crossed \/ Crosses(k))
    /\ UNCHANGED <<googleVars, disk, loadVars, started, picked, lost>>

-----------------------------------------------------------------------------
(* persist() *)

\* The events are encrypted; the sync state is serialised only now.
Encrypted(k) ==
    /\ call[k].pc = "encrypt"
    /\ call' = [call EXCEPT ![k].pc = "put", ![k].storedTokens = tokens]
    /\ UNCHANGED <<googleVars, disk, loadVars, stVars, started, picked, lost, crossed>>

\* A selection that added calendars goes on with a pass over them.
AfterPersist(c) ==
    IF c.added = {} THEN Idle
    ELSE [Idle EXCEPT !.pc = "list", !.pick = c.pick, !.only = c.added]

Put(k) ==
    /\ call[k].pc = "put"
    /\ disk' = [events |-> call[k].stored, tokens |-> call[k].storedTokens,
                selected |-> selected]
    /\ call' = [call EXCEPT ![k] = AfterPersist(@)]
    /\ UNCHANGED <<googleVars, loadVars, stVars, started, picked, lost, crossed>>

\* Encryption or put() rejects: persistence is best-effort.
PersistFails(k) ==
    /\ call[k].pc \in {"encrypt", "put"}
    /\ call' = [call EXCEPT ![k] = AfterPersist(@)]
    /\ UNCHANGED <<googleVars, disk, loadVars, stVars, started, picked, lost, crossed>>

-----------------------------------------------------------------------------
(* The environment *)

Change(c) ==
    /\ changes[c] < MaxChanges
    /\ changes' = [changes EXCEPT ![c] = @ + 1]
    /\ UNCHANGED <<exists, disk, loadVars, stVars, call, started, picked, lost, crossed>>

DeleteCalendar(c) ==
    /\ c \in exists \ {Primary}
    /\ exists' = exists \ {c}
    /\ UNCHANGED <<changes, disk, loadVars, stVars, call, started, picked, lost, crossed>>

\* The tab is closed and opened again: what is not on disk is gone.
Reopen ==
    /\ load # "no"
    /\ load' = "no" /\ loader' = Nobody /\ row' = NoRow
    /\ events' = NoEvents /\ tokens' = NoTokens /\ selected' = {Primary}
    /\ call' = [k \in Calls |-> Idle]
    /\ picked' = {}
    /\ UNCHANGED <<googleVars, disk, started, lost, crossed>>

CallStep(k) ==
    \/ \E pick \in SUBSET Calendars : StartCall(k, pick)
    \/ Select(k) \/ BeginRefresh(k) \/ Listed(k) \/ ListFails(k)
    \/ \E c \in Calendars : Fetch(k, c)
    \/ FullSync(k) \/ IncrementalSync(k) \/ FetchRetried(k) \/ FetchFails(k)
    \/ FetchDeferred(k) \/ Commit(k) \/ Encrypted(k) \/ Put(k) \/ PersistFails(k)

Next ==
    \/ Hydrate \/ GetRow \/ DecodeEvents \/ DecodeTokens \/ LoadFails
    \/ \E k \in Calls : CallStep(k)
    \/ \E c \in Calendars : Change(c) \/ DeleteCalendar(c)
    \/ Reopen

Spec == Init /\ [][Next]_vars

-----------------------------------------------------------------------------
(* Properties *)

\* A token covers only changes that are among the events it is kept with, or
\* that the given map excuses.
Covers(tokenMap, eventMap, excused) ==
    \A c \in Calendars :
        tokenMap[c] # NoToken => 1..tokenMap[c] \subseteq eventMap[c] \cup excused[c]

\* A sync token is never ahead of the events it is kept with, in memory and on
\* disk, but by the changes a load has lost (it could decrypt the tokens and not
\* the events), until a token map is replaced while the row is loaded, under
\* another's persist() or by a copy another pass has overtaken.  So no change
\* is skipped by the next incremental sync, whatever fetches, puts and loads
\* fail, calls overlap, tabs close in the middle and calendars are selected.
TokensCovered ==
    ~crossed => Covers(disk.tokens, disk.events, lost) /\ Covers(tokens, events, lost)

\* What the user has selected since the row was loaded is not undone by a
\* refresh in flight or by another's selection pass: a selected calendar leaves
\* the selection only if it was deleted, and only the primary one enters it.
SelectionStands ==
    picked # {} /\ load = "done" =>
        picked \cap exists \subseteq selected /\ selected \subseteq picked \cup {Primary}
===============================================================================
