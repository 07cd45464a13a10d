---------------------------- MODULE Credentials ----------------------------
(***************************************************************************)
(* The Google credentials of one project, shared by the tabs of a browser. *)
(* IndexedDB holds three records: the connection (the account's e-mail),   *)
(* the access token and, when the host configures a token exchange, the    *)
(* signed envelope.  connect(), disconnect(), Drive requests, access to    *)
(* the raw token, the background warm-up and dropProject() read and write  *)
(* them one record at a time, each in a transaction of its own.            *)
(*                                                                         *)
(* Within a tab, requests to Google and to the exchange are coalesced:     *)
(* flight[t]["i"] is the interactive token request, ["s"] the silent one,  *)
(* ["e"] the refresh of the envelope; calls at "wait" have joined one.     *)
(* Each tab also keeps a snapshot of the connection for the user interface,*)
(* filled by reads that may finish late.                                   *)
(*                                                                         *)
(* Of a token the model keeps the account it belongs to and whether it is  *)
(* outside the refresh buffer.  Retries of one request, which repeat it    *)
(* unchanged, are folded into its outcome.                                 *)
(***************************************************************************)
EXTENDS Naturals

CONSTANTS
  Tab,
  Account,
  MaxCalls,  \* bounds the calls of a behaviour
  None,
  Unread     \* the value of a snapshot read whose storage read is pending

ASSUME CredentialsAssumption ==
  /\ MaxCalls \in Nat /\ None \notin 1..MaxCalls
  /\ None \notin Account \cup Tab /\ Unread \notin Account /\ None # Unread

Call == 1..MaxCalls

VARIABLES
  exchange,    \* createDriveSync() was given a tokenExchangeUrl
  conn,        \* the "conn" record: the connected account or None
  token,       \* the "token" record
  envelope,    \* the "envelope" record
  snapshot,    \* per tab: getConnectionSync()
  generation,  \* per tab: the snapshot store's readGeneration
  reads,       \* per tab: reReadConnection() calls that have not committed
  ext,         \* per tab: the project is in externallyRefreshed, of which
               \* nothing takes notice when there is an exchange
  mail,        \* per tab: broadcast messages not yet handled
  flight,      \* per tab and kind: the coalesced request in flight
  call,        \* per call: where it stands
  signedOut,   \* history: tabs whose disconnect() settled and held since
  overlapped   \* history: a connect() has overlapped a wipe of the records

records == <<conn, token, envelope>>
tabVars == <<snapshot, generation, reads, ext, mail>>
history == <<signedOut>>
vars == <<exchange, records, tabVars, flight, call, signedOut, overlapped>>

Kinds == {"connect", "disconnect", "fetch", "access", "warmUp", "drop"}
Flights == {"i", "s", "e"}
Secret(a, f) == [acct |-> a, fresh |-> f]
Usable(s) == s # None /\ s.fresh
Secrets == [acct : Account, fresh : BOOLEAN]

ASSUME NoSecretIsNone == \A s \in Secrets : s # None

Idle == [kind |-> "none", tab |-> None, pc |-> "idle", inter |-> FALSE, acct |-> None,
         hint |-> None, verify |-> FALSE, retried |-> FALSE, shown |-> FALSE, clean |-> FALSE]
Landed == [st |-> "none", shown |-> FALSE, acct |-> None]
Ended(r) == [Idle EXCEPT !.kind = r.kind, !.pc = "settled"]

\* A reReadConnection() of tab t with the store's current generation.  One that
\* nothing waits for reads the record as it starts: a later read is that of a
\* message handled later.
ReRead(t, for) == [gen |-> generation[t], val |-> IF for = None THEN conn ELSE Unread, for |-> for]

Init ==
  /\ exchange \in BOOLEAN
  /\ conn \in Account \cup {None}
  /\ token \in {None} \cup {s \in Secrets : s.acct = conn}
  /\ envelope = IF exchange /\ conn # None THEN Secret(conn, Usable(token)) ELSE None
  /\ snapshot = [t \in Tab |-> conn]
  /\ generation = [t \in Tab |-> 0]
  /\ reads = [t \in Tab |-> {}]
  /\ ext = [t \in Tab |-> FALSE]
  /\ mail = [t \in Tab |-> {}]
  /\ flight = [t \in Tab |-> [k \in Flights |-> Landed]]
  /\ call = [c \in Call |-> Idle]
  /\ signedOut = {}
  /\ overlapped = FALSE

-----------------------------------------------------------------------------
(* How a call goes on.  Each operator maps the record of a call to its next *)
(* one.                                                                     *)

At(r, pc) == [r EXCEPT !.pc = pc]
Failed(r) == IF r.kind = "warmUp" THEN At(r, "reread") ELSE Ended(r)

\* The call has the token it asked for.
Holding(r, a, shown) ==
  LET h == [r EXCEPT !.acct = a, !.shown = shown /\ r.kind = "connect"] IN
  CASE r.kind = "connect" -> At(h, "email")
    [] r.kind = "access" -> Ended(r)
    [] r.kind = "fetch" -> At(h, IF r.verify THEN "email" ELSE "send")
    [] r.kind = "warmUp" -> At(h, IF r.verify THEN "email" ELSE "reread")

\* coalesceKey(): interactive and silent requests never share a flight.
FlightOfProject(r) == IF exchange THEN "e" ELSE "s"
FlightOf(r) == IF exchange THEN "e" ELSE IF r.inter THEN "i" ELSE "s"

\* acquireToken() and refreshEnvelope() after their coalescing check.
Join(c) ==
  LET r == call[c] t == r.tab k == FlightOf(r) IN
  /\ call' = [call EXCEPT ![c] = At(r, "wait")]
  /\ flight' = IF flight[t][k].st # "none" THEN flight
               ELSE [flight EXCEPT ![t][k] =
                       [st |-> IF k = "e" THEN "read" ELSE "load", shown |-> r.inter, acct |-> None]]

\* The flight lands with the token of account a, or without one (None): its entry
\* is released and every call that joined it goes on.
Land(t, k, a, shown) ==
  /\ flight' = [flight EXCEPT ![t][k] = Landed]
  /\ call' = [c \in Call |->
       LET r == call[c] IN
       IF r.tab # t \/ r.pc # "wait" \/ FlightOf(r) # k THEN r
       ELSE IF a = None THEN Failed(r) ELSE Holding(r, a, shown)]

LandFailedAlone(t, k) == flight' = [flight EXCEPT ![t][k] = Landed] /\ UNCHANGED call
LandFailed(t, k) == Land(t, k, None, FALSE)

\* createBroadcast(appId).post: a channel object of its own, so that the
\* listener of the posting tab hears the message as well.
Posted(msg) == mail' = [t \in Tab |-> mail[t] \cup {msg}]

-----------------------------------------------------------------------------
(* The calls of the application                                             *)

Start(c, t, kind, inter) ==
  /\ call[c].pc = "idle"
  /\ inter => kind \in {"connect", "fetch", "access"}
  /\ kind = "connect" => inter
  /\ LET first == CASE kind = "connect" -> IF exchange THEN "load" ELSE "acquire"
                    [] kind = "disconnect" -> "getToken"
                    [] kind = "fetch" -> IF inter THEN "gate" ELSE "cached"
                    [] kind = "access" -> "cached"
                    [] kind = "warmUp" -> "getConn"
                    [] kind = "drop" -> "delete"
     IN call' = [call EXCEPT ![c] = [Idle EXCEPT !.kind = kind, !.tab = t, !.pc = first, !.inter = inter]]
  /\ UNCHANGED <<exchange, records, tabVars, flight, history>>

\* getToken() and the comparison with the refresh buffer.
Cached(c) ==
  /\ call[c].pc = "cached"
  /\ LET r == call[c] usable == Usable(token) IN
     call' = [call EXCEPT ![c] =
       CASE usable /\ r.kind = "warmUp" -> At(r, "reread")
         [] usable /\ r.kind # "warmUp" -> Holding(r, token.acct, FALSE)
         [] ~usable /\ r.kind = "fetch" -> At(r, "gate")
         [] OTHER -> At(r, "acquire")]
  /\ UNCHANGED <<exchange, records, tabVars, flight, history>>

\* driveFetch(): a background tab defers, an exchange never prompts.
Gate(c) ==
  /\ call[c].pc = "gate"
  /\ LET r == call[c] IN
     \/ /\ ~r.inter
        /\ call' = [call EXCEPT ![c] = Ended(@)]
     \/ call' = [call EXCEPT ![c] = IF ~exchange THEN At(r, "getConn")
                                    ELSE IF r.inter THEN Failed(r) ELSE At(r, "acquire")]
  /\ UNCHANGED <<exchange, records, tabVars, flight, history>>

\* getConnection() before a token is asked for.  warmUpIfNeeded() and the
\* recovery from a 401 go on in refreshSilently(), which verifies the account;
\* driveFetch() itself calls acquireToken().
GetConn(c) ==
  /\ call[c].pc = "getConn"
  /\ LET r == [call[c] EXCEPT !.hint = conn] IN
     call' = [call EXCEPT ![c] =
       IF r.kind = "warmUp"
       THEN IF conn = None THEN At(r, "reread") ELSE [At(r, "cached") EXCEPT !.verify = ~exchange]
       ELSE [At(r, "acquire") EXCEPT !.verify = r.retried /\ conn # None]]
  /\ UNCHANGED <<exchange, records, tabVars, flight, history>>

\* acquireToken() and refreshEnvelope().  A silent request first consumes the
\* signal that another tab has stored a token.
Acquire(c) ==
  /\ call[c].pc = "acquire"
  /\ LET t == call[c].tab IN
     IF ~exchange /\ ~call[c].inter /\ ext[t]
     THEN /\ ext' = [ext EXCEPT ![t] = FALSE]
          /\ call' = [call EXCEPT ![c].pc = "stored"]
          /\ UNCHANGED flight
     ELSE Join(c) /\ UNCHANGED ext
  /\ UNCHANGED <<exchange, records, snapshot, generation, reads, mail, history>>

\* ... and reuses that token while it has not expired, refresh buffer or not.
Stored(c) ==
  /\ call[c].pc = "stored"
  /\ \/ /\ token # None
        /\ call' = [call EXCEPT ![c] = Holding(@, token.acct, FALSE)]
        /\ UNCHANGED flight
     \/ ~Usable(token) /\ Join(c)
  /\ UNCHANGED <<exchange, records, tabVars, history>>

\* performFetch(): the outcomes of one Drive request that change its course.
Send(c) ==
  /\ call[c].pc = "send"
  /\ LET r == call[c] IN \E status \in {"done", "unauthorized", "scope"} :
     \/ status = "done" /\ call' = [call EXCEPT ![c] = Ended(@)]
     \/ status = "scope" /\ call' = [call EXCEPT ![c].pc = "clear403"]
     \/ status = "unauthorized" /\ (r.retried \/ r.inter) /\ call' = [call EXCEPT ![c] = Failed(r)]
     \/ status = "unauthorized" /\ ~r.retried /\ ~r.inter /\ call' = [call EXCEPT ![c] = Ended(@)]
     \/ status = "unauthorized" /\ ~r.retried /\ ~r.inter /\ call' = [call EXCEPT ![c].pc = "clear401"]
  /\ UNCHANGED <<exchange, records, tabVars, flight, history>>

\* clearToken() of the three callers that keep the connection.
DropToken(c) ==
  /\ call[c].pc \in {"clear401", "clear403", "clearWrong"}
  /\ token' = None
  /\ LET r == call[c] IN
     call' = [call EXCEPT ![c] =
       IF r.pc # "clear401" THEN Failed(r)
       ELSE [At(r, IF exchange THEN "acquire" ELSE "getConn") EXCEPT !.retried = TRUE]]
  /\ UNCHANGED <<exchange, conn, envelope, tabVars, flight, history>>

\* fetchEmail() of the new token: connect() takes the account as it is,
\* refreshSilently() compares it with the connected one.
Email(c) ==
  /\ call[c].pc = "email"
  /\ LET r == call[c] IN
     \/ call' = [call EXCEPT ![c] = Failed(r)]
     \/ call' = [call EXCEPT ![c] =
          CASE r.kind = "connect" -> At(r, "setConn")
            [] r.kind # "connect" /\ r.acct # r.hint -> At(r, "clearWrong")
            [] OTHER -> At(r, IF r.kind = "fetch" THEN "send" ELSE "reread")]
  /\ UNCHANGED <<exchange, records, tabVars, flight, history>>

\* The warm-up's reReadConnection(), which nothing waits for.
WarmedUp(c) ==
  /\ call[c].pc = "reread"
  /\ LET t == call[c].tab IN reads' = [reads EXCEPT ![t] = @ \cup {ReRead(t, None)}]
  /\ call' = [call EXCEPT ![c] = Ended(@)]
  /\ UNCHANGED <<exchange, records, snapshot, generation, ext, mail, flight, history>>

-----------------------------------------------------------------------------
(* connect() through the exchange: code, envelope, token, e-mail, connection *)

\* waitForGisCodeClient(), which polls for ten seconds.
CodeClient(c) ==
  /\ call[c].pc = "load"
  /\ \/ call' = [call EXCEPT ![c].pc = "code"]
     \/ call' = [call EXCEPT ![c] = Failed(@)]
  /\ UNCHANGED <<exchange, records, tabVars, flight, history>>

\* GIS answers on one of its two channels, or never.
CodeAnswered(c) ==
  /\ call[c].pc = "code"
  /\ \/ \E a \in Account : call' = [call EXCEPT ![c].pc = "post", ![c].acct = a, ![c].shown = TRUE]
     \/ call' = [call EXCEPT ![c] = Failed(@)]
  /\ UNCHANGED <<exchange, records, tabVars, flight, history>>

CodeTimeout(c) ==
  /\ call[c].pc = "code"
  /\ call' = [call EXCEPT ![c] = Failed(@)]
  /\ UNCHANGED <<exchange, records, tabVars, flight, history>>

PostCode(c) ==
  /\ call[c].pc = "post"
  /\ \/ call' = [call EXCEPT ![c].pc = "setEnvelope"]
     \/ call' = [call EXCEPT ![c].pc = "clearConn"]
     \/ call' = [call EXCEPT ![c] = Failed(@)]
  /\ UNCHANGED <<exchange, records, tabVars, flight, history>>

SetEnvelope(c) ==
  /\ call[c].pc = "setEnvelope"
  /\ envelope' = Secret(call[c].acct, TRUE)
  /\ call' = [call EXCEPT ![c].pc = "setToken"]
  /\ UNCHANGED <<exchange, conn, token, tabVars, flight, history>>

SetToken(c) ==
  /\ call[c].pc = "setToken"
  /\ token' = Secret(call[c].acct, TRUE)
  /\ call' = [call EXCEPT ![c].pc = "email"]
  /\ UNCHANGED <<exchange, conn, envelope, tabVars, flight, history>>

\* setConn(); the awaited re-read of the snapshot starts at once.
SetConn(c) ==
  /\ call[c].pc = "setConn"
  /\ LET t == call[c].tab IN
     /\ conn' = call[c].acct
     /\ reads' = [reads EXCEPT ![t] = @ \cup {ReRead(t, c)}]
     /\ call' = [d \in Call |-> IF d = c THEN At(call[c], "rereading")
                                ELSE [call[d] EXCEPT !.clean = FALSE]]
  /\ signedOut' = {}
  /\ UNCHANGED <<exchange, token, envelope, snapshot, generation, ext, mail, flight>>

-----------------------------------------------------------------------------
(* disconnect(), the wipe after a 410 and dropProject()                     *)

\* getToken() and the revocation, whose failure is logged and ignored.
Revoke(c) ==
  /\ call[c].pc = "getToken"
  /\ call' = [call EXCEPT ![c].pc = "clearConn"]
  /\ UNCHANGED <<exchange, records, tabVars, flight, history>>

ClearConn(c) ==
  /\ call[c].pc = "clearConn"
  /\ conn' = None
  /\ call' = [call EXCEPT ![c].pc = "clearToken", ![c].clean = TRUE]
  /\ UNCHANGED <<exchange, token, envelope, tabVars, flight, history>>

ClearToken(c) ==
  /\ call[c].pc = "clearToken"
  /\ token' = None
  /\ call' = [call EXCEPT ![c].pc = "clearEnvelope"]
  /\ UNCHANGED <<exchange, conn, envelope, tabVars, flight, history>>

\* disconnect() then announces the logout, invalidates the reads in progress
\* and starts the read whose result it awaits.
KeepReads(t) == generation
InvalidateReads(t) == [generation EXCEPT ![t] = @ + 1]

ClearEnvelope(c) ==
  /\ call[c].pc = "clearEnvelope"
  /\ envelope' = None
  /\ LET t == call[c].tab IN
     IF call[c].kind = "disconnect"
     THEN /\ Posted("logout")
          /\ generation' = InvalidateReads(t)
          /\ reads' = [reads EXCEPT ![t] = @ \cup {[ReRead(t, c) EXCEPT !.gen = generation'[t]]}]
          /\ call' = [call EXCEPT ![c].pc = "rereading"]
     ELSE /\ call' = [call EXCEPT ![c] = Failed(@)]
          /\ UNCHANGED <<mail, generation, reads>>
  /\ UNCHANGED <<exchange, conn, token, snapshot, ext, flight, history>>

\* dropProject(): the other tabs close their handles, so the deletion runs.
DeleteDatabase(c) ==
  /\ call[c].pc = "delete"
  /\ conn' = None /\ token' = None /\ envelope' = None
  /\ call' = [call EXCEPT ![c] = Ended(@)]
  /\ UNCHANGED <<exchange, tabVars, flight, history>>

-----------------------------------------------------------------------------
(* The snapshot of a tab                                                    *)

ReadConn(t, r) ==
  /\ r \in reads[t] /\ r.val = Unread
  /\ reads' = [reads EXCEPT ![t] = (@ \ {r}) \cup {[r EXCEPT !.val = conn]}]
  /\ UNCHANGED <<exchange, records, snapshot, generation, ext, mail, flight, call, history>>

\* commitIfCurrent(); connect() and disconnect() settle with their own read.
CommitRead(t, r) ==
  /\ r \in reads[t] /\ r.val # Unread
  /\ reads' = [reads EXCEPT ![t] = @ \ {r}]
  /\ snapshot' = IF r.gen = generation[t] THEN [snapshot EXCEPT ![t] = r.val] ELSE snapshot
  /\ IF r.for = None THEN UNCHANGED <<call, signedOut>>
     ELSE /\ call' = [call EXCEPT ![r.for] = Ended(@)]
          /\ signedOut' = IF call[r.for].kind = "disconnect" /\ call[r.for].clean
                          THEN signedOut \cup {t} ELSE signedOut
  /\ UNCHANGED <<exchange, records, generation, ext, mail, flight>>

\* handleBroadcast()
Hear(t, msg) ==
  /\ msg \in mail[t]
  /\ mail' = [mail EXCEPT ![t] = @ \ {msg}]
  /\ ext' = IF msg = "token" /\ ~exchange THEN [ext EXCEPT ![t] = TRUE] ELSE ext
  /\ reads' = [reads EXCEPT ![t] = @ \cup {ReRead(t, None)}]
  /\ UNCHANGED <<exchange, records, snapshot, generation, flight, call, history>>

-----------------------------------------------------------------------------
(* A token request to Google Identity Services                              *)

\* waitForGoogleIdentityServices(), which polls for ten seconds.
TokenClient(t, k) ==
  /\ flight[t][k].st = "load"
  /\ \/ flight' = [flight EXCEPT ![t][k].st = "asked"] /\ UNCHANGED call
     \/ LandFailed(t, k)
  /\ UNCHANGED <<exchange, records, tabVars, history>>

\* The callback, with a token of any account or an error.
GisCallback(t, k) ==
  /\ flight[t][k].st \in {"asked", "grace"}
  /\ \/ \E a \in Account : flight' = [flight EXCEPT ![t][k].st = "persist", ![t][k].acct = a] /\ UNCHANGED call
     \/ LandFailed(t, k)
  /\ UNCHANGED <<exchange, records, tabVars, history>>

\* error_callback: a closed popup leaves the callback a grace period.
GisErrorCallback(t, k) ==
  /\ flight[t][k].st = "asked"
  /\ \/ flight' = [flight EXCEPT ![t][k].st = "grace"] /\ UNCHANGED call
     \/ LandFailed(t, k)
  /\ UNCHANGED <<exchange, records, tabVars, history>>

\* The timer of the request and that of the grace period.
GisTimeout(t, k) ==
  /\ flight[t][k].st \in {"asked", "grace"}
  /\ LandFailed(t, k)
  /\ UNCHANGED <<exchange, records, tabVars, history>>

\* persistTokenResponse() and the broadcast.
PersistToken(t, k) ==
  /\ flight[t][k].st = "persist"
  /\ token' = Secret(flight[t][k].acct, TRUE)
  /\ Posted("token")
  /\ Land(t, k, flight[t][k].acct, flight[t][k].shown)
  /\ UNCHANGED <<exchange, conn, envelope, snapshot, generation, reads, ext, history>>

-----------------------------------------------------------------------------
(* A refresh of the envelope                                                *)

EnvelopeAt(t, st) == flight' = [flight EXCEPT ![t]["e"].st = st]

ReadEnvelope(t) ==
  /\ flight[t]["e"].st = "read"
  /\ CASE envelope = None -> LandFailed(t, "e")
       [] Usable(envelope) -> Land(t, "e", envelope.acct, FALSE)
       [] OTHER -> /\ flight' = [flight EXCEPT ![t]["e"].st = "post", ![t]["e"].acct = envelope.acct]
                   /\ UNCHANGED call
  /\ UNCHANGED <<exchange, records, tabVars, history>>

PostEnvelope(t) ==
  /\ flight[t]["e"].st = "post"
  /\ \/ \E st \in {"setEnvelope", "clearConn"} : EnvelopeAt(t, st) /\ UNCHANGED call
     \/ LandFailed(t, "e")
  /\ UNCHANGED <<exchange, records, tabVars, history>>

StoreEnvelope(t) ==
  /\ flight[t]["e"].st = "setEnvelope"
  /\ envelope' = Secret(flight[t]["e"].acct, TRUE)
  /\ EnvelopeAt(t, "setToken")
  /\ UNCHANGED <<exchange, conn, token, tabVars, call, history>>

StoreEnvelopeToken(t) ==
  /\ flight[t]["e"].st = "setToken"
  /\ token' = Secret(flight[t]["e"].acct, TRUE)
  /\ Posted("token")
  /\ Land(t, "e", flight[t]["e"].acct, FALSE)
  /\ UNCHANGED <<exchange, conn, envelope, snapshot, generation, reads, ext, history>>

\* The wipe after a 410: connection, token, envelope, and the caller fails.
WipeConnNot(t) ==
  /\ flight[t]["e"].st = "clearConn"
  /\ EnvelopeAt(t, "clearToken")
  /\ UNCHANGED <<exchange, records, tabVars, call, history>>

WipeConn(t) ==
  /\ flight[t]["e"].st = "clearConn"
  /\ conn' = None
  /\ EnvelopeAt(t, "clearToken")
  /\ UNCHANGED <<exchange, token, envelope, tabVars, call, history>>

WipeToken(t) ==
  /\ flight[t]["e"].st = "clearToken"
  /\ token' = None
  /\ EnvelopeAt(t, "clearEnvelope")
  /\ UNCHANGED <<exchange, conn, envelope, tabVars, call, history>>

WipeEnvelope(t) ==
  /\ flight[t]["e"].st = "clearEnvelope"
  /\ envelope' = None
  /\ LandFailed(t, "e")
  /\ UNCHANGED <<exchange, conn, token, tabVars, history>>

-----------------------------------------------------------------------------
(* The environment                                                          *)

\* The clock passes the expiry of what is stored.
Expire ==
  /\ Usable(token) \/ Usable(envelope)
  /\ token' = IF token = None THEN None ELSE [token EXCEPT !.fresh = FALSE]
  /\ envelope' = IF envelope = None THEN None ELSE [envelope EXCEPT !.fresh = FALSE]
  /\ UNCHANGED <<exchange, conn, tabVars, flight, call, history>>

\* The tab is reloaded: its calls and flights are gone, a new page starts.
Reload(t) ==
  /\ \E c \in Call : call[c].tab = t
  /\ snapshot' = [snapshot EXCEPT ![t] = None]
  /\ generation' = [generation EXCEPT ![t] = 0]
  /\ reads' = [reads EXCEPT ![t] = {[gen |-> 0, val |-> conn, for |-> None]}]
  /\ ext' = [ext EXCEPT ![t] = FALSE]
  /\ mail' = [mail EXCEPT ![t] = {}]
  /\ flight' = [flight EXCEPT ![t] = [k \in Flights |-> Landed]]
  /\ call' = [c \in Call |-> IF call[c].tab = t THEN Ended(call[c]) ELSE call[c]]
  /\ signedOut' = signedOut \ {t}
  /\ UNCHANGED <<exchange, records>>

-----------------------------------------------------------------------------

\* What the tab, its timers and the network do sooner or later.
CallStep(c) ==
  \/ Cached(c) \/ Gate(c) \/ GetConn(c) \/ Acquire(c) \/ Stored(c) \/ Send(c) \/ DropToken(c)
  \/ Email(c) \/ WarmedUp(c) \/ CodeClient(c) \/ CodeTimeout(c) \/ PostCode(c)
  \/ SetEnvelope(c) \/ SetToken(c) \/ SetConn(c) \/ Revoke(c)
  \/ ClearConn(c) \/ ClearToken(c) \/ ClearEnvelope(c) \/ DeleteDatabase(c)

FlightStep(t) ==
  \/ \E k \in {"i", "s"} : TokenClient(t, k) \/ GisTimeout(t, k) \/ PersistToken(t, k)
  \/ ReadEnvelope(t) \/ PostEnvelope(t) \/ StoreEnvelope(t) \/ StoreEnvelopeToken(t)
  \/ WipeConn(t) \/ WipeToken(t) \/ WipeEnvelope(t)

ReadStep(t) == \E r \in reads[t] : ReadConn(t, r) \/ CommitRead(t, r)

Step ==
  \/ \E c \in Call, t \in Tab, kind \in Kinds, inter \in BOOLEAN : Start(c, t, kind, inter)
  \/ \E c \in Call : CallStep(c) \/ CodeAnswered(c)
  \/ \E t \in Tab : FlightStep(t) \/ ReadStep(t) \/ Reload(t)
  \/ \E t \in Tab, k \in {"i", "s"} : GisCallback(t, k) \/ GisErrorCallback(t, k)
  \/ \E t \in Tab, msg \in {"token", "logout"} : Hear(t, msg)
  \/ Expire

Connecting == \E c \in Call : call[c].kind = "connect" /\ call[c].pc \in {"setEnvelope", "setToken", "email", "setConn"}
Wiping ==
  \/ \E c \in Call : call[c].pc \in {"clearConn", "clearToken", "clearEnvelope", "delete"}
  \/ \E t \in Tab : flight[t]["e"].st \in {"clearConn", "clearToken", "clearEnvelope"}

Next == Step /\ overlapped' = (overlapped \/ (Connecting' /\ Wiping'))

Spec == Init /\ [][Next]_vars

-----------------------------------------------------------------------------
(* Properties                                                               *)

\* The records hold what storage.ts says they hold, every flight and call is
\* at a place of its own code path and a legacy tab never has an envelope flight.
TypeOK ==
  /\ conn \in Account \cup {None} /\ {token, envelope} \subseteq Secrets \cup {None}
  /\ ~exchange => envelope = None /\ \A t \in Tab : flight[t]["e"] = Landed
  /\ \A t \in Tab : generation[t] \in 0..MaxCalls /\ \A r \in reads[t] : r.gen <= generation[t]
  /\ \A c \in Call : call[c].pc = "wait" => flight[call[c].tab][FlightOf(call[c])].st # "none"

\* A tab whose disconnect() has settled shows no account until somebody
\* connects again, whatever reads of the connection were still on their way
\* (a second disconnect() under way publishes the logout with its own read).
LogoutSticks == \A t \in signedOut :
  \/ snapshot[t] = None
  \/ \E c \in Call : call[c].tab = t /\ call[c].kind = "disconnect" /\ call[c].pc = "rereading"

\* With a token exchange, whoever finds a connection finds the envelope that
\* renews it: connect() writes the connection last, a wipe removes it first,
\* and a crash between two of their steps leaves no connection without one.
ConnBackedByEnvelope == exchange /\ conn # None /\ ~overlapped => envelope # None

\* The user who asked to connect was shown Google's window: connect() never
\* takes over the outcome of a silent refresh in flight.
ConnectShowsFlow == \A c \in Call :
  call[c].kind = "connect" /\ call[c].pc \in {"email", "setConn"} => call[c].shown
=============================================================================
