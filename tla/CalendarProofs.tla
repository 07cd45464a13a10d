---------------------------- MODULE CalendarProofs ----------------------------
(***************************************************************************)
(* Proofs about CalendarController, for any number of calendars, changes   *)
(* and calls that overlap: the selection and the sync tokens.              *)
(***************************************************************************)
EXTENDS CalendarController, TLAPS

-----------------------------------------------------------------------------
(* Types *)

\* A call that has not started is a record of its type.
LEMMA IdleType == Idle \in CallRecords
  <1>1. NoEvents \in EventMaps /\ NoTokens \in TokenMaps
    BY DEF NoEvents, NoTokens, EventMaps, TokenMaps, Tokens
  <1>2. NoToken \in Tokens
    BY DEF Tokens
  <1>3. QED
    BY <1>1, <1>2, PrimaryIsCalendar DEF Idle, CallRecords

\* The controller starts in its types.
LEMMA InitType == Init => TypeOK
  <1> SUFFICES ASSUME Init PROVE TypeOK
    OBVIOUS
  <1>1. NoEvents \in EventMaps /\ NoTokens \in TokenMaps
    BY DEF NoEvents, NoTokens, EventMaps, TokenMaps, Tokens
  <1>2. NoRow \in Rows
    BY <1>1 DEF NoRow, Rows
  <1>3. changes \in [Calendars -> 0..MaxChanges] /\ started \in 0..MaxCalls
    BY CalendarBounds DEF Init
  <1>4. QED
    BY <1>1, <1>2, <1>3, IdleType, PrimaryIsCalendar DEF Init, TypeOK

\* persist() begins.
LEMMA PersistType ==
  ASSUME NEW c \in CallRecords, NEW now \in EventMaps
  PROVE  Persist(c, now) \in CallRecords
  BY DEF Persist, CallRecords

\* A call that has written the account goes on in its type.
LEMMA AfterPersistType ==
  ASSUME NEW c \in CallRecords
  PROVE  AfterPersist(c) \in CallRecords
  <1>1. c.pick \in SUBSET Calendars /\ c.added \in SUBSET Calendars
    BY DEF CallRecords
  <1>2. [Idle EXCEPT !.pc = "list", !.pick = c.pick, !.only = c.added] \in CallRecords
    BY <1>1, IdleType DEF CallRecords
  <1>3. QED
    BY <1>2, IdleType DEF AfterPersist

\* A fetch ends with an answer.
LEMMA ReceivedType ==
  ASSUME TypeOK, NEW k \in Calls, NEW result \in SUBSET Changes, NEW token \in Tokens,
         Received(k, result, token)
  PROVE  call' \in [Calls -> CallRecords]
  <1>1. NoToken \in Tokens
    BY DEF Tokens
  <1>2. call[k] \in CallRecords
    BY DEF TypeOK
  <1>3. /\ call[k].at \in Calendars /\ call[k].fresh \in [Calendars -> SUBSET Changes]
        /\ call[k].tokens \in [Calendars -> Tokens] /\ call[k].synced \in SUBSET Calendars
    BY <1>2 DEF CallRecords, EventMaps, TokenMaps
  <1> DEFINE f == [call[k].fresh EXCEPT ![call[k].at] = result]
             t == [call[k].tokens EXCEPT ![call[k].at] = token]
             s == call[k].synced \cup {call[k].at}
             r == [call[k] EXCEPT !.pc = "sync", !.fresh = f, !.synced = s, !.tokens = t,
                                  !.at = Primary, !.again = FALSE, !.token = NoToken,
                                  !.existing = {}]
  <1>4. f \in EventMaps /\ t \in TokenMaps /\ s \in SUBSET Calendars
    BY <1>3 DEF EventMaps, TokenMaps
  <1>5. call' = [call EXCEPT ![k] = r]
    BY <1>2 DEF Received, CallRecords, TypeOK
  <1> HIDE DEF f, t, s
  <1>6. r \in CallRecords
    BY <1>1, <1>2, <1>4, PrimaryIsCalendar DEF CallRecords
  <1> HIDE DEF r
  <1>7. QED
    BY <1>5, <1>6 DEF TypeOK

\* A request for the events keeps the types.
LEMMA AskType ==
  ASSUME TypeOK, NEW k \in Calls, NEW c \in Calendars, NEW again \in BOOLEAN, Ask(k, c, again)
  PROVE  call' \in [Calls -> CallRecords]
  <1>1. call[k] \in CallRecords /\ tokens[c] \in Tokens /\ events[c] \in SUBSET Changes
    BY DEF TypeOK, TokenMaps, EventMaps
  <1> DEFINE todo == call[k].todo \ {c}
             r == [call[k] EXCEPT !.pc = "fetch", !.at = c, !.again = again, !.todo = todo,
                                  !.token = tokens[c], !.existing = events[c]]
  <1>2. todo \in SUBSET Calendars
    BY <1>1 DEF CallRecords
  <1>3. call' = [call EXCEPT ![k] = r]
    BY <1>1 DEF Ask, CallRecords, TypeOK
  <1> HIDE DEF todo
  <1>4. r \in CallRecords
    BY <1>1, <1>2 DEF CallRecords
  <1> HIDE DEF r
  <1>5. QED
    BY <1>3, <1>4 DEF TypeOK

\* The answer with the calendars keeps the types.
LEMMA ListedType ==
  ASSUME TypeOK, NEW k \in Calls, Listed(k)
  PROVE  call' \in [Calls -> CallRecords]
  <1> DEFINE chosen == Reconciled(selected)
             todo == chosen \cap call[k].only
             r == [call[k] EXCEPT !.pc = "sync", !.chosen = chosen, !.todo = todo, !.tokens = tokens]
  <1>1. call[k] \in CallRecords /\ tokens \in TokenMaps
    BY DEF TypeOK
  <1>2. chosen \in SUBSET Calendars /\ todo \in SUBSET Calendars
    BY <1>1, PrimaryIsCalendar DEF Reconciled, TypeOK
  <1>3. call' = [call EXCEPT ![k] = r]
    BY <1>1 DEF Listed, CallRecords, TypeOK
  <1> HIDE DEF chosen, todo
  <1>4. r \in CallRecords
    BY <1>1, <1>2 DEF CallRecords
  <1> HIDE DEF r
  <1>5. QED
    BY <1>3, <1>4 DEF TypeOK

\* A change of the selection keeps the types.
LEMMA SelectType ==
  ASSUME TypeOK, NEW k \in Calls, Select(k)
  PROVE  call' \in [Calls -> CallRecords]
  <1>1. call[k] \in CallRecords /\ events \in EventMaps
    BY DEF TypeOK
  <1> DEFINE added == call[k].added \cup (call[k].pick \ selected)
             r == [call[k] EXCEPT !.added = added]
  <1>2. added \in SUBSET Calendars /\ [call[k] EXCEPT !.added = @ \cup (call[k].pick \ selected)] = r
    BY <1>1 DEF CallRecords
  <1> HIDE DEF added
  <1>3. r \in CallRecords
    BY <1>1, <1>2 DEF CallRecords
  <1>4. Persist(r, events) \in CallRecords
    BY <1>1, <1>3, PersistType
  <1> HIDE DEF r
  <1>5. ASSUME NEW j \in Calls
        PROVE  [call[j] EXCEPT !.outdated = call[j].pc # "idle"] \in CallRecords
    <2>1. call[j] \in CallRecords /\ (call[j].pc # "idle") \in BOOLEAN
      BY DEF TypeOK
    <2>2. QED
      BY <2>1 DEF CallRecords
  <1>6. call' = [j \in Calls |-> IF j = k THEN Persist(r, events)
                                 ELSE [call[j] EXCEPT !.outdated = call[j].pc # "idle"]]
    BY <1>2 DEF Select
  <1>7. QED
    BY <1>4, <1>5, <1>6

\* The steps that move the call k and no other.
LEMMA StepTypeCall ==
  ASSUME TypeOK, NEW k \in Calls, CallStep(k)
  PROVE  call' \in [Calls -> CallRecords]
  <1>0. /\ call \in [Calls -> CallRecords] /\ call[k] \in CallRecords
        /\ events \in EventMaps /\ tokens \in TokenMaps
    BY DEF TypeOK
  <1>a. call[k].at \in Calendars /\ changes[call[k].at] \in 0..MaxChanges
    BY <1>0 DEF CallRecords, TypeOK
  <1>1. ASSUME NEW pick \in SUBSET Calendars, StartCall(k, pick)
        PROVE  call' \in [Calls -> CallRecords]
    <2> DEFINE only == IF pick = {} THEN Calendars ELSE {}
               r == [call[k] EXCEPT !.pc = "load", !.pick = pick, !.only = only]
    <2>1. only \in SUBSET Calendars
      OBVIOUS
    <2>2. call' = [call EXCEPT ![k] = r]
      BY <1>0, <1>1 DEF StartCall, CallRecords
    <2> HIDE DEF only
    <2>3. r \in CallRecords
      BY <1>0, <2>1 DEF CallRecords
    <2> HIDE DEF r
    <2>4. QED
      BY <1>0, <2>2, <2>3
  <1>2. CASE Select(k)
    BY <1>2, SelectType
  <1>3. CASE BeginRefresh(k)
    <2> DEFINE r == [call[k] EXCEPT !.pc = "list", !.outdated = FALSE]
    <2>1. call' = [call EXCEPT ![k] = r] /\ r \in CallRecords
      BY <1>0, <1>3 DEF BeginRefresh, CallRecords
    <2> HIDE DEF r
    <2>2. QED
      BY <1>0, <2>1
  <1>4. CASE Listed(k)
    BY <1>4, ListedType
  <1>5. CASE ListFails(k)
    <2>1. call' = [call EXCEPT ![k] = Persist(call[k], events)]
      BY <1>0, <1>5 DEF ListFails
    <2>2. QED
      BY <1>0, <2>1, PersistType
  <1>6. ASSUME NEW c \in Calendars, Fetch(k, c)
        PROVE  call' \in [Calls -> CallRecords]
    BY <1>6, AskType DEF Fetch
  <1>7. CASE FullSync(k)
    <2>1. PICK token \in {changes[call[k].at], NoToken} : Received(k, 1..changes[call[k].at], token)
      BY <1>7 DEF FullSync
    <2>2. token \in Tokens /\ 1..changes[call[k].at] \in SUBSET Changes
      BY <1>a, CalendarBounds DEF Tokens, Changes
    <2>3. QED
      BY <2>1, <2>2, ReceivedType
  <1>8. CASE IncrementalSync(k)
    <2>1. PICK token \in {changes[call[k].at], call[k].token} : Received(k, Applied(k), token)
      BY <1>8 DEF IncrementalSync
    <2>2. call[k].token \in Tokens /\ call[k].existing \in SUBSET Changes /\ call[k].token # NoToken
      BY <1>0, <1>8 DEF CallRecords, IncrementalSync
    <2>3. call[k].token \in 0..MaxChanges /\ token \in Tokens
      BY <1>a, <2>1, <2>2 DEF Tokens
    <2>4. (call[k].token + 1)..changes[call[k].at] \subseteq Changes
      BY <1>a, <2>3, CalendarBounds DEF Changes
    <2>5. Applied(k) \in SUBSET Changes
      BY <2>2, <2>4 DEF Applied
    <2>6. QED
      BY <2>1, <2>3, <2>5, ReceivedType
  <1>9. CASE FetchRetried(k)
    BY <1>9, <1>a, AskType DEF FetchRetried
  <1>10. CASE FetchFails(k)
    <2> DEFINE r == [call[k] EXCEPT !.pc = "sync", !.at = Primary, !.again = FALSE,
                                    !.token = NoToken, !.existing = {}]
    <2>1. NoToken \in Tokens
      BY DEF Tokens
    <2>2. call' = [call EXCEPT ![k] = r]
      BY <1>0, <1>10 DEF FetchFails, CallRecords
    <2>3. r \in CallRecords
      BY <1>0, <2>1, PrimaryIsCalendar DEF CallRecords
    <2> HIDE DEF r
    <2>4. QED
      BY <1>0, <2>2, <2>3
  <1>11. CASE Commit(k)
    <2>1. events' \in EventMaps
      <3>1. call[k].fresh \in EventMaps
        BY <1>0 DEF CallRecords
      <3>2. QED
        BY <1>0, <1>11, <3>1 DEF Commit, EventMaps
    <2> DEFINE r == [Idle EXCEPT !.pick = call[k].pick]
    <2>2. call[k].pick \in SUBSET Calendars
      BY <1>0 DEF CallRecords
    <2>3. r \in CallRecords
      BY <2>2, IdleType DEF CallRecords
    <2>4. call' = [j \in Calls |-> IF j = k THEN Persist(r, events') ELSE Overtaken(call[j])]
      BY <1>11 DEF Commit
    <2> HIDE DEF r
    <2>5. \A j \in Calls : Overtaken(call[j]) \in CallRecords
      BY <1>0 DEF Overtaken, CallRecords
    <2>6. QED
      BY <2>1, <2>3, <2>4, <2>5, PersistType
  <1>12. CASE Encrypted(k)
    <2> DEFINE r == [call[k] EXCEPT !.pc = "put", !.storedTokens = tokens]
    <2>1. call' = [call EXCEPT ![k] = r] /\ r \in CallRecords
      BY <1>0, <1>12 DEF Encrypted, CallRecords
    <2> HIDE DEF r
    <2>2. QED
      BY <1>0, <2>1
  <1>13. CASE Put(k) \/ PersistFails(k)
    <2>1. call' = [call EXCEPT ![k] = AfterPersist(call[k])]
      BY <1>0, <1>13 DEF Put, PersistFails
    <2>2. QED
      BY <1>0, <2>1, AfterPersistType
  <1>14. CASE FetchDeferred(k)
    <2> DEFINE r == [Idle EXCEPT !.pick = call[k].pick]
    <2>1. call[k].pick \in SUBSET Calendars
      BY <1>0 DEF CallRecords
    <2>2. r \in CallRecords
      BY <2>1, IdleType DEF CallRecords
    <2>3. call' = [call EXCEPT ![k] = Persist(r, events)]
      BY <1>14 DEF FetchDeferred
    <2> HIDE DEF r
    <2>4. QED
      BY <1>0, <2>2, <2>3, PersistType
  <1>15. QED
    BY <1>1, <1>2, <1>3, <1>4, <1>5, <1>6, <1>7, <1>8, <1>9, <1>10, <1>11, <1>12, <1>13, <1>14
       DEF CallStep

-----------------------------------------------------------------------------
(* The selection *)

\* A row that was put, and a selection that was reconciled, is not empty.
SelectionsSane ==
    /\ disk = NoRow \/ disk.selected # {}
    /\ load \in {"events", "tokens"} => row.selected # {}
    /\ \A k \in Calls : call[k].pc \in {"sync", "fetch"} => call[k].chosen # {}

\* A step of one call leaves the others.
LEMMA OtherCalls ==
  ASSUME TypeOK, NEW k \in Calls, CallStep(k), NEW j \in Calls \ {k}
  PROVE  \/ call'[j] = call[j]
         \/ Select(k) /\ call'[j] = [call[j] EXCEPT !.outdated = call[j].pc # "idle"]
         \/ Commit(k) /\ call'[j] = Overtaken(call[j])
  <1>1. CASE Select(k) \/ Commit(k)
    BY <1>1 DEF Select, Commit
  <1>2. call \in [Calls -> CallRecords]
    BY DEF TypeOK
  <1>3. CASE ~Select(k) /\ ~Commit(k)
    BY <1>2, <1>3 DEF CallStep, StartCall, BeginRefresh, Listed, ListFails, Fetch, FullSync,
       IncrementalSync, Received, FetchRetried, Ask, FetchFails, FetchDeferred, Commit, Encrypted, Put, PersistFails
  <1>4. QED
    BY <1>1, <1>3

\* The steps that neither start a call nor move one.
Apart == Hydrate \/ GetRow \/ DecodeEvents \/ DecodeTokens \/ LoadFails
         \/ (\E c \in Calendars : Change(c) \/ DeleteCalendar(c))

\* The steps of nobody's call leave the calls.
LEMMA ApartCalls == Apart => UNCHANGED <<call, started, picked>>
  BY DEF Apart, Hydrate, GetRow, DecodeEvents, DecodeTokens, LoadFails, Change, DeleteCalendar

\* The rows of the database keep their types.
LEMMA RowTypes ==
  ASSUME TypeOK
  PROVE  /\ NoRow \in Rows /\ NoEvents \in EventMaps /\ NoTokens \in TokenMaps
  <1>1. NoEvents \in EventMaps /\ NoTokens \in TokenMaps
    BY DEF NoEvents, NoTokens, EventMaps, TokenMaps, Tokens
  <1>2. NoRow \in Rows
    BY <1>1 DEF NoRow, Rows
  <1>3. QED
    BY <1>1, <1>2

\* A row that is read, in full or in part, is a row, and what it loses are events.
LEMMA GetRowType ==
  ASSUME TypeOK, GetRow
  PROVE  /\ row' \in Rows /\ row'.selected = disk.selected
         /\ lost' \in EventMaps
  <1>1. disk \in Rows /\ lost \in EventMaps
    BY DEF TypeOK
  <1>2. disk.events \in EventMaps /\ disk.tokens \in TokenMaps
    BY <1>1 DEF Rows
  <1>3. PICK eventsRead \in BOOLEAN, tokensRead \in BOOLEAN :
          /\ row' = [disk EXCEPT !.events = IF eventsRead THEN @ ELSE NoEvents,
                                 !.tokens = IF tokensRead THEN @ ELSE NoTokens]
          /\ lost' = [c \in Calendars |->
                         IF tokensRead /\ ~eventsRead /\ disk.tokens[c] # NoToken
                         THEN lost[c] \cup disk.events[c] ELSE lost[c]]
    BY DEF GetRow
  <1> DEFINE e == IF eventsRead THEN disk.events ELSE NoEvents
             t == IF tokensRead THEN disk.tokens ELSE NoTokens
  <1>4. e \in EventMaps /\ t \in TokenMaps
    BY <1>2, RowTypes
  <1>5. row' = [disk EXCEPT !.events = e, !.tokens = t]
    BY <1>3
  <1> HIDE DEF e, t
  <1>6. row' \in Rows /\ row'.selected = disk.selected
    BY <1>1, <1>4, <1>5 DEF Rows
  <1>7. lost' \in EventMaps
    BY <1>1, <1>2, <1>3 DEF EventMaps
  <1>8. QED
    BY <1>6, <1>7

\* The steps of nobody's call keep the types.
LEMMA ApartType ==
  ASSUME TypeOK, SelectionsSane, Apart
  PROVE  TypeOK' /\ SelectionsSane'
  <1> USE DEF googleVars, loadVars, stVars, EndLoad
  <1>r. NoRow \in Rows
    BY RowTypes
  <1>c. /\ UNCHANGED <<call, started, picked>>
        /\ call \in [Calls -> CallRecords] /\ started \in 0..MaxCalls
        /\ picked \subseteq Calendars /\ lost \in EventMaps /\ crossed \in BOOLEAN
    BY ApartCalls DEF TypeOK
  <1>t. /\ exists \subseteq Calendars /\ changes \in [Calendars -> 0..MaxChanges]
        /\ disk \in Rows /\ row \in Rows /\ load \in {"no", "get", "events", "tokens", "done"}
        /\ loader \in Calls \cup {Nobody} /\ events \in EventMaps /\ tokens \in TokenMaps
        /\ selected \in (SUBSET Calendars) \ {{}}
    BY DEF TypeOK
  <1>s. /\ disk = NoRow \/ disk.selected # {}
        /\ load \in {"events", "tokens"} => row.selected # {}
        /\ \A k \in Calls : call[k].pc \in {"sync", "fetch"} => call[k].chosen # {}
    BY DEF SelectionsSane
  <1>1. CASE Hydrate
    BY <1>1, <1>c, <1>t, <1>s DEF Hydrate, BeginLoad, TypeOK, SelectionsSane
  <1>2. CASE GetRow
    <2>1. /\ row' \in Rows /\ row'.selected # {} /\ load' = "events" /\ lost' \in EventMaps
          /\ UNCHANGED <<googleVars, disk, loader, stVars, crossed>>
      BY <1>2, <1>s, GetRowType DEF GetRow
    <2>2. QED
      BY <1>c, <1>t, <1>s, <2>1 DEF TypeOK, SelectionsSane
  <1>3. CASE DecodeEvents
    <2>1. row.events \in EventMaps
      BY <1>t DEF Rows
    <2>2. QED
      BY <1>3, <1>c, <1>t, <1>s, <2>1 DEF DecodeEvents, TypeOK, SelectionsSane
  <1>4. CASE DecodeTokens
    <2>1. row.tokens \in TokenMaps /\ row.selected \in (SUBSET Calendars) \ {{}}
      BY <1>4, <1>t, <1>s DEF DecodeTokens, Rows
    <2>2. QED
      BY <1>4, <1>c, <1>t, <1>s, <1>r, <2>1 DEF DecodeTokens, TypeOK, SelectionsSane
  <1>5. CASE LoadFails
    BY <1>5, <1>c, <1>t, <1>s, <1>r DEF LoadFails, TypeOK, SelectionsSane
  <1>6. CASE \E c \in Calendars : Change(c) \/ DeleteCalendar(c)
    BY <1>6, <1>c, <1>t, <1>s, CalendarBounds DEF Change, DeleteCalendar, TypeOK, SelectionsSane
  <1>7. QED
    BY <1>1, <1>2, <1>3, <1>4, <1>5, <1>6 DEF Apart

\* A controller that is opened again starts in its types.
LEMMA ReopenType ==
  ASSUME TypeOK, SelectionsSane, Reopen
  PROVE  TypeOK' /\ SelectionsSane'
  <1>1. \A k \in Calls : call'[k] = Idle
    BY DEF Reopen
  <1>2. call' \in [Calls -> CallRecords]
    BY IdleType DEF Reopen
  <1>3. TypeOK'
    BY <1>2, RowTypes, PrimaryIsCalendar DEF Reopen, TypeOK, googleVars
  <1>4. QED
    BY <1>1, <1>3 DEF Reopen, SelectionsSane, Idle

\* What the call's own step does to the rest of the state.
LEMMA CallStepType ==
  ASSUME TypeOK, SelectionsSane, NEW k \in Calls, CallStep(k)
  PROVE  TypeOK'
  <1> USE DEF googleVars, loadVars, stVars
  <1>t. /\ exists \subseteq Calendars /\ changes \in [Calendars -> 0..MaxChanges]
        /\ disk \in Rows /\ row \in Rows /\ load \in {"no", "get", "events", "tokens", "done"}
        /\ loader \in Calls \cup {Nobody} /\ events \in EventMaps /\ tokens \in TokenMaps
        /\ selected \in (SUBSET Calendars) \ {{}} /\ started \in 0..MaxCalls
        /\ picked \subseteq Calendars /\ lost \in EventMaps /\ crossed \in BOOLEAN
        /\ call[k] \in CallRecords
    BY DEF TypeOK
  <1>c. call' \in [Calls -> CallRecords]
    BY StepTypeCall
  <1>1. CASE \E pick \in SUBSET Calendars : StartCall(k, pick)
    BY <1>1, <1>t, <1>c, CalendarBounds DEF StartCall, BeginLoad, TypeOK
  <1>2. CASE Select(k)
    <2>1. call[k].pick \in (SUBSET Calendars) \ {{}}
      BY <1>2, <1>t DEF Select, CallRecords
    <2>2. QED
      BY <1>2, <1>t, <1>c, <2>1 DEF Select, TypeOK
  <1>3. CASE Commit(k)
    <2>1. call[k].chosen \in (SUBSET Calendars) \ {{}}
      BY <1>3, <1>t DEF Commit, SelectionsSane, CallRecords
    <2>2. call[k].tokens \in TokenMaps /\ call[k].fresh \in EventMaps
      BY <1>t DEF CallRecords
    <2>3. events' \in EventMaps
      BY <1>3, <1>t, <2>2 DEF Commit, EventMaps
    <2>4. QED
      BY <1>3, <1>t, <1>c, <2>1, <2>2, <2>3 DEF Commit, TypeOK
  <1>4. CASE Put(k)
    <2>1. [events |-> call[k].stored, tokens |-> call[k].storedTokens, selected |-> selected] \in Rows
      BY <1>t DEF CallRecords, Rows
    <2>2. QED
      BY <1>4, <1>t, <1>c, <2>1 DEF Put, TypeOK
  <1>5. CASE UNCHANGED <<googleVars, disk, loadVars, stVars, started, picked, lost, crossed>>
    BY <1>5, <1>t, <1>c DEF TypeOK
  <1>6. QED
    BY <1>1, <1>2, <1>3, <1>4, <1>5
       DEF CallStep, BeginRefresh, Listed, ListFails, Fetch, FullSync, IncrementalSync, Received,
           FetchRetried, FetchFails, FetchDeferred, Encrypted, PersistFails

\* Where a step of its own leaves a call that goes on syncing.
LEMMA OwnChoice ==
  ASSUME TypeOK, NEW k \in Calls, CallStep(k), call'[k].pc \in {"sync", "fetch"}
  PROVE  \/ /\ Listed(k)
            /\ call'[k].chosen = Reconciled(selected) /\ call'[k].outdated = call[k].outdated
         \/ /\ call[k].pc \in {"sync", "fetch"} /\ ~Select(k) /\ ~Commit(k)
            /\ call'[k].chosen = call[k].chosen /\ call'[k].outdated = call[k].outdated
  <1>0. call \in [Calls -> CallRecords] /\ call[k] \in CallRecords
    BY DEF TypeOK
  <1>1. CASE Listed(k)
    BY <1>0, <1>1 DEF Listed, CallRecords
  <1>2. CASE \/ (\E c \in Calendars : Fetch(k, c)) \/ FullSync(k) \/ IncrementalSync(k)
             \/ FetchRetried(k) \/ FetchFails(k)
    <2>1. call[k].pc = "fetch" \/ (call[k].pc = "sync" /\ call[k].todo # {})
      BY <1>2 DEF Fetch, FullSync, IncrementalSync, Received, FetchRetried, FetchFails
    <2>2. ~Select(k) /\ ~Commit(k)
      BY <2>1 DEF Select, Loaded, Commit
    <2>3. ASSUME NEW c, NEW again, Ask(k, c, again)
          PROVE  call'[k].chosen = call[k].chosen /\ call'[k].outdated = call[k].outdated
      BY <1>0, <2>3 DEF Ask, CallRecords
    <2>4. ASSUME NEW result, NEW token, Received(k, result, token)
          PROVE  call'[k].chosen = call[k].chosen /\ call'[k].outdated = call[k].outdated
      BY <1>0, <2>4 DEF Received, CallRecords
    <2>5. FetchFails(k) =>
            call'[k].chosen = call[k].chosen /\ call'[k].outdated = call[k].outdated
      BY <1>0 DEF FetchFails, CallRecords
    <2>6. QED
      BY <1>2, <2>1, <2>2, <2>3, <2>4, <2>5 DEF Fetch, FullSync, IncrementalSync, FetchRetried
  <1>3. ASSUME NEW pick \in SUBSET Calendars, StartCall(k, pick)
        PROVE  call'[k].pc = "load"
    BY <1>0, <1>3 DEF StartCall, CallRecords
  <1>4. CASE BeginRefresh(k) \/ Encrypted(k)
    BY <1>0, <1>4 DEF BeginRefresh, Encrypted, CallRecords
  <1>5. ASSUME NEW c \in CallRecords, NEW now, call'[k] = Persist(c, now)
        PROVE  FALSE
    BY <1>5 DEF Persist, CallRecords
  <1>6. CASE ListFails(k)
    BY <1>0, <1>5, <1>6 DEF ListFails
  <1>7. CASE Select(k)
    <2>1. [call[k] EXCEPT !.added = @ \cup (call[k].pick \ selected)] \in CallRecords
      <3>1. call[k].added \cup (call[k].pick \ selected) \in SUBSET Calendars
        BY <1>0 DEF CallRecords
      <3>2. QED
        BY <1>0, <3>1 DEF CallRecords
    <2>2. QED
      BY <1>5, <1>7, <2>1 DEF Select
  <1>8. CASE Commit(k) \/ FetchDeferred(k)
    <2>1. [Idle EXCEPT !.pick = call[k].pick] \in CallRecords
      <3>1. call[k].pick \in SUBSET Calendars
        BY <1>0 DEF CallRecords
      <3>2. QED
        BY <3>1, IdleType DEF CallRecords
    <2>2. QED
      BY <1>0, <1>5, <1>8, <2>1 DEF Commit, FetchDeferred
  <1>9. CASE Put(k) \/ PersistFails(k)
    <2>1. call'[k] = AfterPersist(call[k])
      BY <1>0, <1>9 DEF Put, PersistFails
    <2>2. AfterPersist(call[k]).pc \in {"idle", "list"}
      BY DEF AfterPersist, Idle
    <2>3. QED
      BY <2>1, <2>2
  <1>10. QED
    BY <1>1, <1>2, <1>3, <1>4, <1>6, <1>7, <1>8, <1>9 DEF CallStep

\* What a step of a call does to the selection.
LEMMA CallStepSelections ==
  ASSUME TypeOK, SelectionsSane, NEW k \in Calls, CallStep(k)
  PROVE  SelectionsSane'
  <1>1. disk' = NoRow \/ disk'.selected # {}
    <2>1. CASE Put(k)
      BY <2>1 DEF Put, TypeOK
    <2>2. CASE ~Put(k)
      <3>1. disk' = disk
        BY <2>2 DEF CallStep, StartCall, Select, BeginRefresh, Listed, ListFails, Fetch, FullSync,
           IncrementalSync, Received, FetchRetried, FetchFails, FetchDeferred, Commit, Encrypted, PersistFails
      <3>2. QED
        BY <3>1 DEF SelectionsSane
    <2>3. QED
      BY <2>1, <2>2
  <1>2. load' \in {"events", "tokens"} => row'.selected # {}
    <2>1. UNCHANGED loadVars \/ (load' = "get" /\ row' = row)
      BY DEF CallStep, StartCall, BeginLoad, Select, BeginRefresh, Listed, ListFails, Fetch, FullSync,
         IncrementalSync, Received, FetchRetried, FetchFails, FetchDeferred, Commit, Encrypted, Put, PersistFails
    <2>2. QED
      BY <2>1 DEF SelectionsSane, loadVars
  <1>3. ASSUME NEW j \in Calls, call'[j].pc \in {"sync", "fetch"}
        PROVE  call'[j].chosen # {}
    <2>1. CASE j = k
      <3>1. Reconciled(selected) # {}
        BY DEF Reconciled
      <3>2. QED
        BY <1>3, <2>1, <3>1, OwnChoice DEF SelectionsSane
    <2>2. CASE j # k
      <3>1. call[j] \in CallRecords
        BY DEF TypeOK
      <3>2. \/ call'[j] = call[j] \/ call'[j] = [call[j] EXCEPT !.outdated = call[j].pc # "idle"]
            \/ call'[j] = Overtaken(call[j])
        BY <2>2, OtherCalls
      <3>3. call'[j].pc = call[j].pc /\ call'[j].chosen = call[j].chosen
        BY <3>1, <3>2 DEF CallRecords, Overtaken
      <3>4. QED
        BY <1>3, <3>3 DEF SelectionsSane
    <2>3. QED
      BY <2>1, <2>2
  <1>4. QED
    BY <1>1, <1>2, <1>3 DEF SelectionsSane

ChoiceStands(k) ==
    call[k].pc \in {"sync", "fetch"} /\ ~call[k].outdated /\ picked # {} =>
        /\ picked \cap exists \subseteq call[k].chosen
        /\ call[k].chosen \subseteq picked \cup {Primary}

SelIInv ==
    /\ TypeOK
    /\ SelectionsSane
    /\ picked # {} => load = "done"
    /\ SelectionStands
    /\ \A k \in Calls : ChoiceStands(k)

\* A step of a call keeps the selection the last of those picked.
LEMMA SelCallStep ==
  ASSUME SelIInv, NEW k \in Calls, CallStep(k)
  PROVE  SelIInv'
  <1>0. /\ TypeOK /\ SelectionsSane /\ TypeOK' /\ SelectionsSane'
        /\ picked # {} => load = "done"
        /\ picked # {} => picked \cap exists \subseteq selected /\ selected \subseteq picked \cup {Primary}
        /\ \A j \in Calls : ChoiceStands(j)
        /\ call[k] \in CallRecords
    BY CallStepType, CallStepSelections DEF SelIInv, SelectionStands, TypeOK
  <1>1. exists' = exists
    BY DEF CallStep, StartCall, Select, BeginRefresh, Listed, ListFails, Fetch, FullSync, googleVars,
           IncrementalSync, Received, FetchRetried, FetchFails, FetchDeferred, Commit, Encrypted, Put, PersistFails
  <1>2. CASE Select(k)
    <2>1. /\ selected' = call[k].pick /\ UNCHANGED loadVars
          /\ picked' = IF load = "done" THEN call[k].pick ELSE {}
      BY <1>2 DEF Select
    <2>2. (picked' # {} => load' = "done") /\ SelectionStands'
      BY <2>1 DEF SelectionStands, loadVars
    <2>3. ASSUME NEW j \in Calls PROVE ChoiceStands(j)'
      <3>1. CASE j = k
        <4>1. ~(call'[k].pc \in {"sync", "fetch"})
          <5>1. ~Listed(k) /\ ~(call[k].pc \in {"sync", "fetch"})
            BY <1>2 DEF Select, Loaded, Listed
          <5>2. QED
            BY <1>0, <5>1, OwnChoice
        <4>2. QED
          BY <3>1, <4>1 DEF ChoiceStands
      <3>2. CASE j # k
        <4>1. call[j] \in CallRecords
          BY <1>0 DEF TypeOK
        <4>2. call'[j].pc = call[j].pc /\ call'[j].outdated = (call[j].pc # "idle")
          BY <1>2, <3>2, <4>1 DEF Select, CallRecords
        <4>3. QED
          BY <4>2 DEF ChoiceStands
      <3>3. QED
        BY <3>1, <3>2
    <2>4. QED
      BY <1>0, <2>2, <2>3 DEF SelIInv
  <1>3. CASE ~Select(k)
    <2>1. picked' = picked /\ (load = "done" => load' = load)
      BY <1>3 DEF CallStep, StartCall, BeginLoad, BeginRefresh, Listed, ListFails, Fetch, FullSync,
         IncrementalSync, Received, FetchRetried, FetchFails, FetchDeferred, Commit, Encrypted, Put, PersistFails,
         loadVars
    <2>2. SelectionStands'
      <3>1. CASE Commit(k)
        <4>1. selected' = IF ~call[k].outdated THEN call[k].chosen ELSE selected
          BY <3>1 DEF Commit, KeepsChoice
        <4>2. call[k].pc = "sync"
          BY <3>1 DEF Commit
        <4>3. QED
          BY <1>0, <1>1, <2>1, <4>1, <4>2 DEF SelectionStands, ChoiceStands
      <3>2. CASE ~Commit(k)
        <4>1. selected' = selected
          BY <1>3, <3>2 DEF CallStep, StartCall, BeginRefresh, Listed, ListFails, Fetch, FullSync,
             IncrementalSync, Received, FetchRetried, FetchFails, FetchDeferred, Encrypted, Put, PersistFails, stVars
        <4>2. QED
          BY <1>0, <1>1, <2>1, <4>1 DEF SelectionStands
      <3>3. QED
        BY <3>1, <3>2
    <2>3. ASSUME NEW j \in Calls PROVE ChoiceStands(j)'
      <3>1. CASE j # k
        <4>1. call'[j] = call[j] \/ call'[j] = Overtaken(call[j])
          BY <1>0, <1>3, <3>1, OtherCalls
        <4>2. /\ call'[j].pc = call[j].pc /\ call'[j].chosen = call[j].chosen
              /\ call'[j].outdated = call[j].outdated
          <5>1. call[j] \in CallRecords
            BY <1>0 DEF TypeOK
          <5>2. QED
            BY <4>1, <5>1 DEF Overtaken, CallRecords
        <4>3. QED
          BY <1>0, <1>1, <2>1, <4>2 DEF ChoiceStands
      <3>2. CASE j = k /\ call'[k].pc \in {"sync", "fetch"}
        <4>1. CASE call'[k].chosen = Reconciled(selected)
          BY <1>0, <1>1, <2>1, <3>2, <4>1 DEF ChoiceStands, Reconciled
        <4>2. CASE /\ call[k].pc \in {"sync", "fetch"}
                   /\ call'[k].chosen = call[k].chosen /\ call'[k].outdated = call[k].outdated
          BY <1>0, <1>1, <2>1, <3>2, <4>2 DEF ChoiceStands
        <4>3. QED
          BY <1>0, <3>2, <4>1, <4>2, OwnChoice
      <3>3. CASE j = k /\ call'[k].pc \notin {"sync", "fetch"}
        BY <3>3 DEF ChoiceStands
      <3>4. QED
        BY <3>1, <3>2, <3>3
    <2>4. QED
      BY <1>0, <2>1, <2>2, <2>3 DEF SelIInv
  <1>4. QED
    BY <1>2, <1>3

\* So do the steps of nobody's call.
LEMMA SelApart ==
  ASSUME SelIInv, Apart \/ Reopen
  PROVE  SelIInv'
  <1>0. TypeOK' /\ SelectionsSane' /\ \A k \in Calls : ChoiceStands(k)
    BY ApartType, ReopenType DEF SelIInv
  <1>1. CASE Reopen
    <2>1. picked' = {}
      BY <1>1 DEF Reopen
    <2>2. QED
      BY <1>0, <2>1 DEF SelIInv, SelectionStands, ChoiceStands
  <1>2. CASE Apart
    <2>1. UNCHANGED <<call, picked>> /\ exists' \subseteq exists
      BY <1>2, ApartCalls DEF Apart, Hydrate, GetRow, DecodeEvents, DecodeTokens, LoadFails, Change,
                              DeleteCalendar, googleVars
    <2>2. picked # {} => load' = load /\ selected' = selected
      BY <1>2 DEF SelIInv, Apart, Hydrate, GetRow, DecodeEvents, DecodeTokens, LoadFails, Change,
                              DeleteCalendar, loadVars, stVars
    <2>3. (picked' # {} => load' = "done") /\ SelectionStands'
      BY <2>1, <2>2 DEF SelIInv, SelectionStands
    <2>4. \A k \in Calls : ChoiceStands(k)'
      BY <1>0, <2>1 DEF ChoiceStands
    <2>5. QED
      BY <1>0, <2>3, <2>4 DEF SelIInv
  <1>3. QED
    BY <1>1, <1>2

\* The inductive invariant of the selection.
LEMMA SelInductive == Spec => []SelIInv
  <1>1. Init => SelIInv
    <2> SUFFICES ASSUME Init PROVE SelIInv
      OBVIOUS
    <2>1. TypeOK
      BY InitType
    <2>2. \A k \in Calls : call[k].pc = "idle"
      BY DEF Init, Idle
    <2>3. QED
      BY <2>1, <2>2 DEF Init, SelIInv, SelectionsSane, SelectionStands, ChoiceStands
  <1>2. SelIInv /\ [Next]_vars => SelIInv'
    <2>1. SelIInv /\ UNCHANGED vars => SelIInv'
      BY DEF vars, googleVars, loadVars, stVars, SelIInv, TypeOK, SelectionsSane, SelectionStands,
             ChoiceStands
    <2>2. QED
      BY <2>1, SelCallStep, SelApart DEF Next, Apart
  <1>3. QED
    BY <1>1, <1>2, PTL DEF Spec

\* Whatever calls overlap and fail, every variable of the controller stays in its type; the
\* selection is never empty.
THEOREM CalendarTypeCorrect == Spec => []TypeOK
  BY SelInductive, PTL DEF SelIInv

\* What the user has selected is not undone by refreshes and selection passes in flight, for
\* any number of them.
THEOREM SelectionStandsHolds == Spec => []SelectionStands
  BY SelInductive, PTL DEF SelIInv

-----------------------------------------------------------------------------
(* The sync tokens *)

\* What a call has fetched and stored is covered, and what it has not fetched
\* has the token of the map it copied, unless another commit has replaced that.
CallCovered(k) ==
    /\ call[k].pc \in {"idle", "load", "list"} => call[k].synced = {}
    /\ call[k].pc = "fetch" /\ call[k].token # NoToken =>
          1..call[k].token \subseteq call[k].existing \cup lost[call[k].at]
    /\ call[k].pc \in {"sync", "fetch"} =>
          /\ \A c \in call[k].synced : call[k].tokens[c] # NoToken =>
                1..call[k].tokens[c] \subseteq call[k].fresh[c] \cup lost[c]
          /\ ~call[k].behind =>
                \A c \in Calendars \ call[k].synced : call[k].tokens[c] \in {NoToken, tokens[c]}
    /\ call[k].pc = "encrypt" => Covers(tokens, call[k].stored, lost)
    /\ call[k].pc = "put" => Covers(call[k].storedTokens, call[k].stored, lost)

LoadCovered ==
    /\ load # "done" => tokens = NoTokens
    /\ load \in {"events", "tokens"} => Covers(row.tokens, row.events, lost)
    /\ load = "tokens" => events = row.events

AllCovered ==
    /\ LoadCovered
    /\ Covers(disk.tokens, disk.events, lost)
    /\ Covers(tokens, events, lost)
    /\ \A k \in Calls : CallCovered(k)

CovIInv == ~crossed => AllCovered

\* A calendar without a token covers nothing.
LEMMA NothingCovered ==
  /\ \A c \in Calendars : NoTokens[c] = NoToken
  /\ \A eventMap, excused : Covers(NoTokens, eventMap, excused)
  BY DEF NoTokens, Covers

\* What is excused stays excused when more is lost.
LEMMA MoreLost ==
  ASSUME \A c \in Calendars : lost[c] \subseteq lost'[c], NEW T, NEW E, Covers(T, E, lost)
  PROVE  Covers(T, E, lost')
  BY DEF Covers

\* No calendar has a token at the start.
LEMMA CovInit == Init => CovIInv
  <1> SUFFICES ASSUME Init PROVE AllCovered
    BY DEF CovIInv
  <1>1. \A k \in Calls : call[k].pc = "idle" /\ call[k].synced = {}
    BY DEF Init, Idle
  <1>2. Covers(disk.tokens, disk.events, lost) /\ Covers(tokens, events, lost)
    BY NothingCovered DEF Init, NoRow
  <1>3. LoadCovered /\ \A k \in Calls : CallCovered(k)
    BY <1>1 DEF Init, LoadCovered, CallCovered
  <1>4. QED
    BY <1>2, <1>3 DEF AllCovered

\* A call that is not touched stays covered as long as the token map stays, or it is not
\* encrypting and the map it copied had no tokens or is overtaken.
LEMMA CallKept ==
  ASSUME TypeOK, NEW k \in Calls, CallCovered(k),
         \A c \in Calendars : lost[c] \subseteq lost'[c],
         call'[k] = call[k],
         \/ tokens' = tokens
         \/ tokens = NoTokens /\ call[k].pc # "encrypt"
  PROVE  CallCovered(k)'
  <1>0. /\ call[k] \in CallRecords /\ call[k].at \in Calendars
        /\ call[k].synced \subseteq Calendars
    BY DEF TypeOK, CallRecords
  <1>1. call'[k].pc \in {"idle", "load", "list"} => call'[k].synced = {}
    BY DEF CallCovered
  <1>2. call'[k].pc = "fetch" /\ call'[k].token # NoToken =>
          1..call'[k].token \subseteq call'[k].existing \cup lost'[call'[k].at]
    BY <1>0 DEF CallCovered
  <1>3. call'[k].pc \in {"sync", "fetch"} =>
          \A c \in call'[k].synced : call'[k].tokens[c] # NoToken =>
                1..call'[k].tokens[c] \subseteq call'[k].fresh[c] \cup lost'[c]
    BY <1>0 DEF CallCovered
  <1>4. call'[k].pc \in {"sync", "fetch"} /\ ~call'[k].behind =>
          \A c \in Calendars \ call'[k].synced : call'[k].tokens[c] \in {NoToken, tokens'[c]}
    BY NothingCovered DEF CallCovered
  <1>5. call'[k].pc = "encrypt" => Covers(tokens', call'[k].stored, lost')
    BY MoreLost DEF CallCovered
  <1>6. call'[k].pc = "put" => Covers(call'[k].storedTokens, call'[k].stored, lost')
    BY MoreLost DEF CallCovered
  <1>7. QED
    BY <1>1, <1>2, <1>3, <1>4, <1>5, <1>6 DEF CallCovered

\* The steps of nobody's call keep the tokens covered.
LEMMA CovApart ==
  ASSUME TypeOK, CovIInv, Apart
  PROVE  CovIInv'
  <1> SUFFICES ASSUME ~crossed' PROVE AllCovered'
    BY DEF CovIInv
  <1> USE DEF googleVars, loadVars, stVars, EndLoad
  <1>0. ~crossed /\ UNCHANGED <<call, disk>>
    <2>1. UNCHANGED <<call, disk>>
      BY ApartCalls DEF Apart, Hydrate, GetRow, DecodeEvents, DecodeTokens, LoadFails, Change,
                        DeleteCalendar
    <2>2. crossed' = crossed \/ crossed' = (crossed \/ UnderPersist(Calls))
      BY DEF Apart, Hydrate, GetRow, DecodeEvents, DecodeTokens, LoadFails, Change, DeleteCalendar
    <2>3. crossed \in BOOLEAN
      BY DEF TypeOK
    <2>4. QED
      BY <2>1, <2>2, <2>3
  <1>1. /\ LoadCovered /\ Covers(disk.tokens, disk.events, lost) /\ Covers(tokens, events, lost)
        /\ \A k \in Calls : CallCovered(k)
    BY <1>0 DEF CovIInv, AllCovered
  <1>2. CASE GetRow
    <2>1. PICK eventsRead \in BOOLEAN, tokensRead \in BOOLEAN :
            /\ row' = [disk EXCEPT !.events = IF eventsRead THEN @ ELSE NoEvents,
                                   !.tokens = IF tokensRead THEN @ ELSE NoTokens]
            /\ lost' = [c \in Calendars |->
                           IF tokensRead /\ ~eventsRead /\ disk.tokens[c] # NoToken
                           THEN lost[c] \cup disk.events[c] ELSE lost[c]]
      BY <1>2 DEF GetRow
    <2>2. \A c \in Calendars : lost[c] \subseteq lost'[c]
      BY <2>1
    <2>3. UNCHANGED <<tokens, events>> /\ load = "get" /\ load' = "events"
      BY <1>2 DEF GetRow
    <2>r. disk \in Rows
      BY DEF TypeOK
    <2>4. /\ row'.events = IF eventsRead THEN disk.events ELSE NoEvents
          /\ row'.tokens = IF tokensRead THEN disk.tokens ELSE NoTokens
      BY <2>1, <2>r DEF Rows
    <2>5. Covers(row'.tokens, row'.events, lost')
      <3>1. CASE ~tokensRead
        BY <2>4, <3>1, NothingCovered
      <3>2. CASE tokensRead /\ eventsRead
        BY <1>1, <2>2, <2>4, <3>2, MoreLost
      <3>3. CASE tokensRead /\ ~eventsRead
        <4> SUFFICES ASSUME NEW c \in Calendars, disk.tokens[c] # NoToken
                     PROVE  1..disk.tokens[c] \subseteq lost'[c]
          BY <2>4, <3>3 DEF Covers
        <4>1. 1..disk.tokens[c] \subseteq disk.events[c] \cup lost[c]
          BY <1>1 DEF Covers
        <4>2. lost'[c] = lost[c] \cup disk.events[c]
          BY <2>1, <3>3
        <4>3. QED
          BY <4>1, <4>2
      <3>4. QED
        BY <3>1, <3>2, <3>3
    <2>6. LoadCovered'
      BY <1>1, <2>3, <2>5 DEF LoadCovered
    <2>7. \A k \in Calls : CallCovered(k)'
      BY <1>0, <1>1, <2>2, <2>3, CallKept
    <2>8. QED
      BY <1>0, <1>1, <2>2, <2>3, <2>6, <2>7, MoreLost DEF AllCovered
  <1>3. CASE DecodeTokens
    <2>1. /\ load = "tokens" /\ load' = "done" /\ tokens' = row.tokens
          /\ UNCHANGED <<events, lost>>
          /\ \A k \in Calls : call[k].pc # "encrypt"
      BY <1>3 DEF DecodeTokens, UnderPersist
    <2>2. tokens = NoTokens /\ Covers(tokens', events', lost')
      BY <1>1, <2>1 DEF LoadCovered
    <2>3. \A k \in Calls : CallCovered(k)'
      BY <1>0, <1>1, <2>1, <2>2, CallKept
    <2>4. QED
      BY <1>0, <1>1, <2>1, <2>2, <2>3 DEF AllCovered, LoadCovered
  <1>4. CASE DecodeEvents
    <2>1. /\ load = "events" /\ load' = "tokens" /\ events' = row.events
          /\ UNCHANGED <<row, tokens, lost>>
      BY <1>4 DEF DecodeEvents
    <2>2. LoadCovered' /\ Covers(tokens', events', lost')
      BY <1>1, <2>1, NothingCovered DEF LoadCovered
    <2>3. \A k \in Calls : CallCovered(k)'
      BY <1>0, <1>1, <2>1, CallKept
    <2>4. QED
      BY <1>0, <1>1, <2>1, <2>2, <2>3 DEF AllCovered
  <1>5. CASE Hydrate \/ LoadFails \/ (\E c \in Calendars : Change(c) \/ DeleteCalendar(c))
    <2>1. UNCHANGED <<tokens, events, lost>>
      BY <1>5 DEF Hydrate, LoadFails, Change, DeleteCalendar
    <2>2. \/ UNCHANGED <<load, row>>
          \/ load = "no" /\ load' = "get"
          \/ load' = "done"
      BY <1>5 DEF Hydrate, BeginLoad, LoadFails, Change, DeleteCalendar
    <2>3. LoadCovered'
      BY <1>1, <2>1, <2>2 DEF LoadCovered
    <2>4. \A k \in Calls : CallCovered(k)'
      BY <1>0, <1>1, <2>1, CallKept
    <2>5. QED
      BY <1>0, <1>1, <2>1, <2>3, <2>4 DEF AllCovered
  <1>6. QED
    BY <1>2, <1>3, <1>4, <1>5 DEF Apart

\* So does a controller that is opened again.
LEMMA CovReopen ==
  ASSUME CovIInv, Reopen
  PROVE  CovIInv'
  <1> SUFFICES ASSUME ~crossed' PROVE AllCovered'
    BY DEF CovIInv
  <1>1. \A k \in Calls : call'[k].pc = "idle" /\ call'[k].synced = {}
    BY DEF Reopen, Idle
  <1>2. /\ load' = "no" /\ tokens' = NoTokens /\ UNCHANGED <<disk, lost, crossed>>
    BY DEF Reopen
  <1>3. Covers(disk.tokens, disk.events, lost)
    BY <1>2 DEF CovIInv, AllCovered
  <1>4. LoadCovered' /\ \A k \in Calls : CallCovered(k)'
    BY <1>1, <1>2 DEF LoadCovered, CallCovered
  <1>5. QED
    BY <1>2, <1>3, <1>4, NothingCovered DEF AllCovered

\* The other calls stay covered under a step of the call k.
LEMMA CovOthers ==
  ASSUME TypeOK, AllCovered, NEW k \in Calls, CallStep(k), ~crossed', NEW j \in Calls \ {k}
  PROVE  CallCovered(j)'
  <1>0. call[j] \in CallRecords /\ CallCovered(j)
    BY DEF TypeOK, AllCovered
  <1>1. lost' = lost /\ (Commit(k) \/ tokens' = tokens)
    BY DEF CallStep, StartCall, Select, BeginRefresh, Listed, ListFails, Fetch, FullSync, Put,
           IncrementalSync, Received, FetchRetried, FetchFails, FetchDeferred, Commit, Encrypted,
           PersistFails, stVars
  <1>2. CASE call'[j] = call[j] /\ tokens' = tokens
    BY <1>0, <1>1, <1>2, CallKept
  <1>3. CASE tokens' = tokens /\ call'[j] = [call[j] EXCEPT !.outdated = call[j].pc # "idle"]
    <2>1. /\ call'[j].pc = call[j].pc /\ call'[j].synced = call[j].synced
          /\ call'[j].token = call[j].token /\ call'[j].existing = call[j].existing
          /\ call'[j].at = call[j].at /\ call'[j].tokens = call[j].tokens
          /\ call'[j].fresh = call[j].fresh /\ call'[j].behind = call[j].behind
          /\ call'[j].stored = call[j].stored /\ call'[j].storedTokens = call[j].storedTokens
      BY <1>0, <1>3 DEF CallRecords
    <2>2. QED
      BY <1>0, <1>1, <1>3, <2>1 DEF CallCovered
  <1>4. CASE Commit(k)
    <2>1. call[j].pc # "encrypt" /\ call'[j] = Overtaken(call[j])
      BY <1>4 DEF Commit, Crosses, UnderPersist
    <2>2. CASE call[j].pc \in {"sync", "fetch"}
      <3>1. /\ call'[j].pc = call[j].pc /\ call'[j].synced = call[j].synced
            /\ call'[j].token = call[j].token /\ call'[j].existing = call[j].existing
            /\ call'[j].at = call[j].at /\ call'[j].tokens = call[j].tokens
            /\ call'[j].fresh = call[j].fresh /\ call'[j].behind = TRUE
        BY <1>0, <2>1, <2>2 DEF CallRecords, Overtaken
      <3>2. QED
        BY <1>0, <1>1, <2>2, <3>1 DEF CallCovered
    <2>3. CASE call[j].pc \notin {"sync", "fetch"}
      <3>1. call'[j] = call[j]
        BY <2>1, <2>3 DEF Overtaken
      <3>2. QED
        BY <1>0, <1>1, <2>1, <2>3, <3>1 DEF CallCovered
    <2>4. QED
      BY <2>2, <2>3
  <1>5. QED
    BY <1>1, <1>2, <1>3, <1>4, OtherCalls DEF Select, stVars

\* A call that begins to persist has covered events.
LEMMA CovPersist ==
  ASSUME NEW k \in Calls, NEW c \in CallRecords, NEW now, call'[k] = Persist(c, now),
         Covers(tokens', now, lost')
  PROVE  CallCovered(k)'
  <1>1. call'[k].pc = "encrypt" /\ call'[k].stored = now
    BY DEF Persist, CallRecords
  <1>2. QED
    BY <1>1 DEF CallCovered

\* An answer whose token covers its events keeps what the call has fetched covered.
LEMMA CovReceived ==
  ASSUME TypeOK, NEW k \in Calls, NEW result, NEW token, Received(k, result, token),
         CallCovered(k), token # NoToken => 1..token \subseteq result \cup lost[call[k].at]
  PROVE  CallCovered(k)'
  <1>1. /\ call \in [Calls -> CallRecords] /\ call[k] \in CallRecords
        /\ call[k].at \in Calendars /\ call[k].synced \subseteq Calendars
        /\ call[k].fresh \in [Calendars -> SUBSET Changes]
        /\ call[k].tokens \in [Calendars -> Tokens]
    BY DEF TypeOK, CallRecords, EventMaps, TokenMaps
  <1> DEFINE a == call[k].at
             f == [call[k].fresh EXCEPT ![a] = result]
             t == [call[k].tokens EXCEPT ![a] = token]
  <1>2. /\ call'[k].pc = "sync" /\ call'[k].fresh = f /\ call'[k].tokens = t
        /\ call'[k].synced = call[k].synced \cup {a} /\ call[k].pc = "fetch"
        /\ call'[k].behind = call[k].behind /\ UNCHANGED <<tokens, lost>>
    <2>1. call' = [call EXCEPT ![k] = [call[k] EXCEPT
                      !.pc = "sync", !.fresh = f, !.synced = @ \cup {a}, !.tokens = t,
                      !.at = Primary, !.again = FALSE, !.token = NoToken, !.existing = {}]]
      BY <1>1 DEF Received, CallRecords
    <2>2. call[k].pc = "fetch" /\ UNCHANGED <<tokens, lost>>
      BY DEF Received, stVars
    <2> HIDE DEF f, t
    <2>3. QED
      BY <1>1, <2>1, <2>2 DEF CallRecords
  <1>3. ASSUME NEW d \in call[k].synced \cup {a}, t[d] # NoToken
        PROVE  1..t[d] \subseteq f[d] \cup lost[d]
    <2>1. CASE d = a
      BY <1>1, <1>3, <2>1
    <2>2. CASE d # a
      BY <1>1, <1>2, <1>3, <2>2 DEF CallCovered
    <2>3. QED
      BY <2>1, <2>2
  <1>4. ASSUME ~call[k].behind, NEW d \in Calendars \ (call[k].synced \cup {a})
        PROVE  t[d] \in {NoToken, tokens[d]}
    BY <1>1, <1>2, <1>4 DEF CallCovered
  <1> HIDE DEF f, t, a
  <1>5. QED
    BY <1>2, <1>3, <1>4 DEF CallCovered

\* A request carries a token that its events cover.
LEMMA CovAsk ==
  ASSUME TypeOK, Covers(tokens, events, lost), NEW k \in Calls, CallCovered(k),
         NEW c \in Calendars, NEW again \in BOOLEAN, Ask(k, c, again),
         call[k].pc \in {"sync", "fetch"}, UNCHANGED <<tokens, lost>>
  PROVE  CallCovered(k)'
  <1>1. call \in [Calls -> CallRecords] /\ call[k] \in CallRecords
    BY DEF TypeOK
  <1>2. /\ call'[k].pc = "fetch" /\ call'[k].at = c
        /\ call'[k].token = tokens[c] /\ call'[k].existing = events[c]
        /\ call'[k].synced = call[k].synced /\ call'[k].fresh = call[k].fresh
        /\ call'[k].tokens = call[k].tokens /\ call'[k].behind = call[k].behind
    BY <1>1 DEF Ask, CallRecords
  <1>3. tokens[c] # NoToken => 1..tokens[c] \subseteq events[c] \cup lost[c]
    BY DEF Covers
  <1>4. QED
    BY <1>2, <1>3 DEF CallCovered

\* Until the fetches a call has synced nothing and copies the map as it is.
LEMMA CovBefore ==
  ASSUME TypeOK, AllCovered, NEW k \in Calls,
         \/ \E pick \in SUBSET Calendars : StartCall(k, pick)
         \/ Select(k) \/ BeginRefresh(k) \/ Listed(k) \/ ListFails(k)
  PROVE  CallCovered(k)' /\ UNCHANGED <<disk, events, tokens, lost>>
  <1>0. /\ call \in [Calls -> CallRecords] /\ call[k] \in CallRecords
        /\ CallCovered(k) /\ Covers(tokens, events, lost)
    BY DEF TypeOK, AllCovered
  <1>1. CASE Select(k)
    <2> DEFINE r == [call[k] EXCEPT !.added = @ \cup (call[k].pick \ selected)]
    <2>1. r \in CallRecords
      <3>1. call[k].added \cup (call[k].pick \ selected) \in SUBSET Calendars
        BY <1>0 DEF CallRecords
      <3>2. QED
        BY <1>0, <3>1 DEF CallRecords
    <2>2. call'[k] = Persist(r, events) /\ UNCHANGED <<disk, events, tokens, lost>>
      BY <1>1 DEF Select
    <2> HIDE DEF r
    <2>3. QED
      BY <1>0, <2>1, <2>2, CovPersist
  <1>2. CASE ListFails(k)
    <2>1. call'[k] = Persist(call[k], events) /\ UNCHANGED <<disk, events, tokens, lost>>
      BY <1>0, <1>2 DEF ListFails, stVars
    <2>2. QED
      BY <1>0, <2>1, CovPersist
  <1>3. CASE BeginRefresh(k)
    <2>1. call[k].synced = {}
      BY <1>0, <1>3 DEF BeginRefresh, Loaded, CallCovered
    <2>2. /\ call'[k].pc = "list" /\ call'[k].synced = {}
          /\ UNCHANGED <<disk, events, tokens, lost>>
      BY <1>0, <1>3, <2>1 DEF BeginRefresh, CallRecords, stVars
    <2>3. QED
      BY <2>2 DEF CallCovered
  <1>4. CASE Listed(k)
    <2>1. call[k].synced = {}
      BY <1>0, <1>4 DEF Listed, CallCovered
    <2>2. /\ call'[k].pc = "sync" /\ call'[k].synced = {} /\ call'[k].tokens = tokens
          /\ UNCHANGED <<disk, events, tokens, lost>>
      BY <1>0, <1>4, <2>1 DEF Listed, CallRecords, stVars
    <2>3. QED
      BY <2>2 DEF CallCovered
  <1>5. ASSUME NEW pick \in SUBSET Calendars, StartCall(k, pick)
        PROVE  CallCovered(k)' /\ UNCHANGED <<disk, events, tokens, lost>>
    <2>0. call[k] = Idle
      BY <1>5 DEF StartCall
    <2>1. call[k].synced = {}
      BY <2>0 DEF Idle
    <2>2. /\ call'[k].pc = "load" /\ call'[k].synced = {}
          /\ UNCHANGED <<disk, events, tokens, lost>>
      BY <1>0, <1>5, <2>1 DEF StartCall, CallRecords, stVars
    <2>3. QED
      BY <2>2 DEF CallCovered
  <1>6. QED
    BY <1>1, <1>2, <1>3, <1>4, <1>5

\* The fetches: full, incremental, repeated, failed and deferred.
LEMMA CovFetch ==
  ASSUME TypeOK, AllCovered, NEW k \in Calls,
         \/ \E c \in Calendars : Fetch(k, c)
         \/ FullSync(k) \/ IncrementalSync(k) \/ FetchRetried(k) \/ FetchFails(k)
         \/ FetchDeferred(k)
  PROVE  CallCovered(k)' /\ UNCHANGED <<disk, events, tokens, lost>>
  <1>0. /\ call \in [Calls -> CallRecords] /\ call[k] \in CallRecords
        /\ CallCovered(k) /\ Covers(tokens, events, lost)
        /\ call[k].at \in Calendars /\ changes[call[k].at] \in 0..MaxChanges
    BY DEF TypeOK, AllCovered, CallRecords
  <1>1. UNCHANGED <<disk, events, tokens, lost>>
    BY DEF Fetch, FullSync, IncrementalSync, Received, FetchRetried, FetchFails, FetchDeferred, stVars
  <1> DEFINE n == changes[call[k].at]
  <1>2. ASSUME NEW c \in Calendars, Fetch(k, c)
        PROVE  CallCovered(k)'
    BY <1>0, <1>1, <1>2, CovAsk DEF Fetch
  <1>3. CASE FetchRetried(k)
    BY <1>0, <1>1, <1>3, CovAsk DEF FetchRetried
  <1>4. CASE FullSync(k)
    <2>1. PICK token \in {n, NoToken} : Received(k, 1..n, token)
      BY <1>4 DEF FullSync
    <2>2. token # NoToken => 1..token \subseteq 1..n \cup lost[call[k].at]
      BY <2>1
    <2>3. QED
      BY <1>0, <1>1, <2>1, <2>2, CovReceived
  <1>5. CASE IncrementalSync(k)
    <2>1. PICK token \in {n, call[k].token} : Received(k, Applied(k), token)
      BY <1>5 DEF IncrementalSync
    <2>2. call[k].token # NoToken /\ call[k].token \in Tokens /\ call[k].pc = "fetch"
      BY <1>0, <1>5 DEF IncrementalSync, Received, CallRecords
    <2>3. call[k].token \in Nat /\ n \in Nat
      BY <1>0, <2>2, CalendarBounds DEF Tokens
    <2>4. 1..call[k].token \subseteq call[k].existing \cup lost[call[k].at]
      BY <1>0, <2>2 DEF CallCovered
    <2>5. 1..token \subseteq Applied(k) \cup lost[call[k].at]
      <3> SUFFICES ASSUME NEW i \in 1..token
                   PROVE  i \in Applied(k) \cup lost[call[k].at]
        OBVIOUS
      <3>1. CASE i \in 1..call[k].token
        BY <2>4, <3>1 DEF Applied
      <3>2. CASE i \notin 1..call[k].token
        <4>1. token = n
          BY <2>1, <3>2
        <4>2. i \in (call[k].token + 1)..n
          BY <2>3, <3>2, <4>1
        <4>3. QED
          BY <4>2 DEF Applied
      <3>3. QED
        BY <3>1, <3>2
    <2>6. QED
      BY <1>0, <1>1, <2>1, <2>5, CovReceived
  <1>6. CASE FetchFails(k)
    <2>1. /\ call'[k].pc = "sync" /\ call[k].pc = "fetch"
          /\ call'[k].synced = call[k].synced /\ call'[k].fresh = call[k].fresh
          /\ call'[k].tokens = call[k].tokens /\ call'[k].behind = call[k].behind
      BY <1>0, <1>6 DEF FetchFails, CallRecords
    <2>2. QED
      BY <1>0, <1>1, <2>1 DEF CallCovered
  <1>7. CASE FetchDeferred(k)
    <2> DEFINE r == [Idle EXCEPT !.pick = call[k].pick]
    <2>1. call[k].pick \in SUBSET Calendars
      BY <1>0 DEF CallRecords
    <2>2. r \in CallRecords
      BY <2>1, IdleType DEF CallRecords
    <2>3. call'[k] = Persist(r, events)
      BY <1>0, <1>7 DEF FetchDeferred
    <2> HIDE DEF r
    <2>4. QED
      BY <1>0, <1>1, <2>2, <2>3, CovPersist
  <1>8. QED
    BY <1>1, <1>2, <1>3, <1>4, <1>5, <1>6, <1>7

\* The commit of a call that has not been overtaken, with the row loaded and no other
\* call encrypting.
LEMMA CovCommit ==
  ASSUME TypeOK, AllCovered, NEW k \in Calls, Commit(k), ~crossed'
  PROVE  CallCovered(k)' /\ Covers(tokens', events', lost') /\ UNCHANGED <<disk, lost>>
  <1>0. /\ call \in [Calls -> CallRecords] /\ call[k] \in CallRecords
        /\ CallCovered(k) /\ Covers(tokens, events, lost) /\ call[k].pc = "sync"
        /\ UNCHANGED <<disk, lost>> /\ ~call[k].behind
    BY DEF TypeOK, AllCovered, Commit, Crosses
  <1>1. /\ tokens' = call[k].tokens
        /\ events' = [c \in Calendars |->
                        IF c \in call[k].synced THEN call[k].fresh[c] ELSE events[c]]
    BY DEF Commit
  <1>2. Covers(tokens', events', lost')
    <2> SUFFICES ASSUME NEW c \in Calendars, tokens'[c] # NoToken
                 PROVE  1..tokens'[c] \subseteq events'[c] \cup lost[c]
      BY <1>0 DEF Covers
    <2>1. CASE c \in call[k].synced
      BY <1>0, <1>1, <2>1 DEF CallCovered
    <2>2. CASE c \notin call[k].synced
      <3>1. tokens'[c] = tokens[c] /\ events'[c] = events[c]
        BY <1>0, <1>1, <2>2 DEF CallCovered
      <3>2. QED
        BY <1>0, <3>1 DEF Covers
    <2>3. QED
      BY <2>1, <2>2
  <1> DEFINE r == [Idle EXCEPT !.pick = call[k].pick]
  <1>3. r \in CallRecords
    <2>1. call[k].pick \in SUBSET Calendars
      BY <1>0 DEF CallRecords
    <2>2. QED
      BY <2>1, IdleType DEF CallRecords
  <1>4. call'[k] = Persist(r, events')
    BY DEF Commit
  <1> HIDE DEF r
  <1>5. QED
    BY <1>0, <1>2, <1>3, <1>4, CovPersist

\* persist(): the row that is put is covered.
LEMMA CovAfter ==
  ASSUME TypeOK, AllCovered, NEW k \in Calls, Encrypted(k) \/ Put(k) \/ PersistFails(k)
  PROVE  CallCovered(k)' /\ Covers(disk'.tokens, disk'.events, lost')
         /\ UNCHANGED <<events, tokens, lost>>
  <1>0. /\ call \in [Calls -> CallRecords] /\ call[k] \in CallRecords
        /\ CallCovered(k) /\ Covers(disk.tokens, disk.events, lost)
        /\ UNCHANGED <<events, tokens, lost>>
    BY DEF TypeOK, AllCovered, Encrypted, Put, PersistFails, stVars
  <1>1. CASE Encrypted(k)
    <2>1. /\ call'[k].pc = "put" /\ call'[k].stored = call[k].stored
          /\ call'[k].storedTokens = tokens /\ call[k].pc = "encrypt" /\ disk' = disk
      BY <1>0, <1>1 DEF Encrypted, CallRecords
    <2>2. QED
      BY <1>0, <2>1 DEF CallCovered
  <1>2. CASE Put(k) \/ PersistFails(k)
    <2>1. call'[k] = AfterPersist(call[k])
      BY <1>0, <1>2 DEF Put, PersistFails
    <2>2. call'[k].pc \in {"idle", "list"} /\ call'[k].synced = {}
      BY <2>1 DEF AfterPersist, Idle
    <2>3. CallCovered(k)'
      BY <2>2 DEF CallCovered
    <2>4. Covers(disk'.tokens, disk'.events, lost')
      <3>1. CASE Put(k)
        BY <1>0, <3>1 DEF Put, CallCovered
      <3>2. CASE PersistFails(k)
        BY <1>0, <3>2 DEF PersistFails
      <3>3. QED
        BY <1>2, <3>1, <3>2
    <2>5. QED
      BY <1>0, <2>3, <2>4
  <1>3. QED
    BY <1>1, <1>2

\* A step of a call keeps the tokens covered, unless it crosses another's.
LEMMA CovCallStep ==
  ASSUME TypeOK, CovIInv, NEW k \in Calls, CallStep(k)
  PROVE  CovIInv'
  <1> SUFFICES ASSUME ~crossed' PROVE AllCovered'
    BY DEF CovIInv
  <1>0. ~crossed
    BY DEF CallStep, StartCall, Select, BeginRefresh, Listed, ListFails, Fetch, FullSync, Put,
           IncrementalSync, Received, FetchRetried, FetchFails, FetchDeferred, Commit, Encrypted,
           PersistFails
  <1>1. AllCovered /\ LoadCovered
    BY <1>0 DEF CovIInv, AllCovered
  <1>2. /\ CallCovered(k)' /\ lost' = lost /\ Covers(disk'.tokens, disk'.events, lost')
        /\ Covers(tokens', events', lost')
        /\ (Commit(k) /\ load = "done") \/ UNCHANGED <<tokens, events>>
    <2>1. CASE \/ \E pick \in SUBSET Calendars : StartCall(k, pick)
               \/ Select(k) \/ BeginRefresh(k) \/ Listed(k) \/ ListFails(k)
      BY <1>1, <2>1, CovBefore DEF AllCovered
    <2>2. CASE \/ \E c \in Calendars : Fetch(k, c)
               \/ FullSync(k) \/ IncrementalSync(k) \/ FetchRetried(k) \/ FetchFails(k)
               \/ FetchDeferred(k)
      BY <1>1, <2>2, CovFetch DEF AllCovered
    <2>3. CASE Commit(k)
      <3>1. load = "done"
        BY <2>3 DEF Commit, Crosses
      <3>2. QED
        BY <1>1, <2>3, <3>1, CovCommit DEF AllCovered
    <2>4. CASE Encrypted(k) \/ Put(k) \/ PersistFails(k)
      BY <1>1, <2>4, CovAfter DEF AllCovered
    <2>5. QED
      BY <2>1, <2>2, <2>3, <2>4 DEF CallStep
  <1>3. \/ UNCHANGED <<load, row>>
        \/ load = "no" /\ load' = "get"
    BY DEF CallStep, StartCall, BeginLoad, Select, BeginRefresh, Listed, ListFails, Fetch, FullSync,
           Put, IncrementalSync, Received, FetchRetried, FetchFails, FetchDeferred, Commit, Encrypted,
           PersistFails, loadVars
  <1>4. LoadCovered'
    BY <1>1, <1>2, <1>3 DEF LoadCovered
  <1>5. \A j \in Calls : CallCovered(j)'
    BY <1>1, <1>2, CovOthers
  <1>6. QED
    BY <1>2, <1>4, <1>5 DEF AllCovered

\* The inductive invariant of the tokens.
LEMMA CovInductive == Spec => []CovIInv
  <1>1. CovIInv /\ UNCHANGED vars => CovIInv'
    BY DEF vars, googleVars, loadVars, stVars, CovIInv, AllCovered, LoadCovered, CallCovered, Covers
  <1>2. TypeOK /\ CovIInv /\ [Next]_vars => CovIInv'
    BY <1>1, CovApart, CovReopen, CovCallStep DEF Next, Apart
  <1>3. QED
    BY <1>2, CovInit, CalendarTypeCorrect, PTL DEF Spec

\* A sync token covers no change that its events lack, in memory and on disk, but for what a
\* load could not decrypt, until a token map is replaced in one of the three moments Crosses
\* and UnderPersist name: for any number of calendars, changes and overlapping calls.
THEOREM TokensCoveredHolds == Spec => []TokensCovered
  BY CovInductive, PTL DEF CovIInv, AllCovered, TokensCovered

===============================================================================
