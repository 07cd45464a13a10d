--------------------------- MODULE CredentialsProofs --------------------------
(***************************************************************************)
(* Proofs about Credentials, for any number of tabs, accounts and calls:   *)
(* what the records hold, that a logout prevails over the reads under way, *)
(* that a connection comes with its envelope and that connect() shows the  *)
(* user Google's window.                                                   *)
(***************************************************************************)
EXTENDS Credentials, TLAPS, FiniteSetTheorems

-----------------------------------------------------------------------------
(* What the types leave out                                                *)

\* The way of a call of each kind.
Placed(r) ==
  \/ r.kind = "none" /\ r.pc = "idle"
  \/ r.kind # "none" /\ r.pc = "settled"
  \/ r.kind = "connect" /\ exchange
     /\ r.pc \in {"load", "code", "post", "setEnvelope", "setToken", "email", "setConn",
                  "rereading", "clearConn", "clearToken", "clearEnvelope"}
  \/ r.kind = "connect" /\ ~exchange
     /\ r.pc \in {"acquire", "wait", "email", "setConn", "rereading"}
  \/ r.kind = "disconnect"
     /\ r.pc \in {"getToken", "clearConn", "clearToken", "clearEnvelope", "rereading"}
  \/ r.kind = "fetch"
     /\ r.pc \in {"cached", "gate", "getConn", "acquire", "stored", "wait", "email", "send",
                  "clear401", "clear403", "clearWrong"}
  \/ r.kind = "access" /\ r.pc \in {"cached", "acquire", "stored", "wait"}
  \/ r.kind = "warmUp"
     /\ r.pc \in {"getConn", "cached", "acquire", "stored", "wait", "email", "clearWrong", "reread"}
  \/ r.kind = "drop" /\ r.pc = "delete"

Pcs == {"idle", "settled", "load", "code", "post", "setEnvelope", "setToken", "email", "setConn",
        "rereading", "clearConn", "clearToken", "clearEnvelope", "acquire", "wait", "getToken",
        "cached", "gate", "getConn", "stored", "send", "clear401", "clear403", "clearWrong",
        "reread", "delete"}

CallRecords ==
  [kind : Kinds \cup {"none"}, tab : Tab \cup {None}, pc : Pcs, inter : BOOLEAN,
   acct : Account \cup {None}, hint : Account \cup {None}, verify : BOOLEAN,
   retried : BOOLEAN, shown : BOOLEAN, clean : BOOLEAN]

\* A connect() that goes to the account has shown Google's window for it; a call is clean from
\* its removal of the connection on.
Sane(r) ==
  /\ Placed(r)
  /\ r.pc \notin {"idle", "settled"} => r.tab \in Tab
  /\ r.pc = "idle" => r.tab = None
  /\ r.kind = "connect" /\ r.pc # "settled" => r.inter
  /\ r.kind = "connect" /\ r.pc \in {"post", "setEnvelope", "setToken", "email", "setConn"} =>
       r.shown /\ r.acct \in Account
  /\ r.clean => r.pc \in {"clearToken", "clearEnvelope", "rereading"}
  /\ r.clean /\ r.pc = "rereading" => r.kind = "disconnect"

CallsSane == call \in [Call -> CallRecords] /\ \A c \in Call : Sane(call[c])

RequestStates == {"none", "load", "asked", "grace", "persist"}
RefreshStates == {"none", "read", "post", "setEnvelope", "setToken", "clearConn", "clearToken",
                  "clearEnvelope"}
FlightRecords ==
  [st : RequestStates \cup RefreshStates, shown : BOOLEAN, acct : Account \cup {None}]

\* The way of a flight, and what it carries.
FlightsSane ==
  /\ flight \in [Tab -> [Flights -> FlightRecords]]
  /\ \A t \in Tab, k \in {"i", "s"} :
       /\ flight[t][k].st \in RequestStates
       /\ flight[t][k].st = "persist" => flight[t][k].acct \in Account
  /\ \A t \in Tab :
       /\ flight[t]["i"].st # "none" => flight[t]["i"].shown
       /\ flight[t]["e"].st \in RefreshStates
       /\ flight[t]["e"].st \in {"post", "setEnvelope", "setToken"} => flight[t]["e"].acct \in Account
       /\ ~exchange => flight[t]["e"] = Landed

Waited == \A c \in Call : call[c].pc = "wait" => flight[call[c].tab][FlightOf(call[c])].st # "none"

RecordsSane ==
  /\ exchange \in BOOLEAN
  /\ conn \in Account \cup {None}
  /\ token \in Secrets \cup {None} /\ envelope \in Secrets \cup {None}
  /\ ~exchange => envelope = None

\* The disconnect()s that have announced the logout.
Announced == {c \in Call : call[c].kind = "disconnect" /\ call[c].pc \in {"rereading", "settled"}}

ReadRecords == [gen : Nat, val : Account \cup {None, Unread}, for : Call \cup {None}]

\* A call waits for one read at most, and is at the place where it waits.
ReadsSane ==
  /\ generation \in [Tab -> Nat]
  /\ reads \in [Tab -> SUBSET ReadRecords]
  /\ \A t \in Tab : generation[t] <= Cardinality(Announced)
  /\ \A t \in Tab : \A r \in reads[t] :
       /\ r.gen <= generation[t]
       /\ r.for \in Call => /\ call[r.for].pc = "rereading" /\ call[r.for].tab = t
                            /\ \A s \in reads[t] : s.for = r.for => s = r
  /\ snapshot \in [Tab -> Account \cup {None}]
  /\ signedOut \subseteq Tab

TypeIInv == RecordsSane /\ CallsSane /\ FlightsSane /\ Waited /\ ReadsSane

\* A connect() that has stored its envelope.
Armed(r) == r.kind = "connect" /\ r.pc \in {"setToken", "email", "setConn"}
\* A wipe that has removed the connection.
Wiped(r) == r.pc \in {"clearToken", "clearEnvelope"}

Backed ==
  exchange /\ ~overlapped =>
    /\ ~(Connecting /\ Wiping)
    /\ conn # None => envelope # None
    /\ \A c \in Call : Armed(call[c]) => envelope # None
    /\ \A c \in Call : Wiped(call[c]) => conn = None
    /\ \A t \in Tab : flight[t]["e"].st \in {"clearToken", "clearEnvelope"} => conn = None

\* A tab in which the logout prevails: no read that may still commit finds an account, and the
\* snapshot shows none or the read of a disconnect() will replace it.
Hushed(t) ==
  /\ conn = None
  /\ \A r \in reads[t] : r.gen = generation[t] => r.val \in {None, Unread}
  /\ \/ snapshot[t] = None
     \/ \E r \in reads[t] : r.gen = generation[t] /\ r.for \in Call /\ call[r.for].kind = "disconnect"

LogoutKept ==
  /\ \A c \in Call : call[c].clean => conn = None
  /\ \A t \in signedOut : Hushed(t)
  /\ \A c \in Call : call[c].clean /\ call[c].pc = "rereading" => Hushed(call[c].tab)

CredIInv == TypeIInv /\ Backed /\ LogoutKept

\* What the assumptions say of the constants.
LEMMA Assumed ==
  /\ MaxCalls \in Nat /\ None \notin Call /\ None \notin Account /\ Unread \notin Account
  /\ None \notin Tab
  /\ None # Unread /\ None \notin Secrets
  BY CredentialsAssumption, NoSecretIsNone DEF Call

\* A project that is opened, connected or not, satisfies the invariant.
LEMMA CredInit == Init => CredIInv
  <1> SUFFICES ASSUME Init PROVE CredIInv
    OBVIOUS
  <1> USE Assumed DEF Init
  <1>1. Idle \in CallRecords /\ Sane(Idle)
    BY DEF Idle, CallRecords, Pcs, Sane, Placed
  <1>2. CallsSane
    BY <1>1 DEF CallsSane
  <1>s. exchange /\ conn # None => Secret(conn, Usable(token)) \in Secrets
    <2>1. Usable(token) \in BOOLEAN
      BY DEF Usable, Secrets
    <2>2. QED
      BY <2>1 DEF Secret, Secrets
  <1>3. RecordsSane
    BY <1>s DEF RecordsSane
  <1>4. Landed \in FlightRecords /\ Landed.st = "none"
    BY DEF Landed, FlightRecords, RequestStates, RefreshStates
  <1>5. FlightsSane
    BY <1>4 DEF FlightsSane, Flights, RequestStates, RefreshStates
  <1>6. \A c \in Call : call[c].pc = "idle" /\ ~call[c].clean
    BY DEF Idle
  <1>7. Waited
    BY <1>6 DEF Waited
  <1>8. ReadsSane
    <2>1. Announced = {}
      BY <1>6 DEF Announced
    <2>2. \A t \in Tab : generation[t] <= Cardinality(Announced)
      <3>1. Cardinality(Announced) = 0
        BY <2>1, FS_EmptySet
      <3>2. \A t \in Tab : generation[t] = 0
        OBVIOUS
      <3>3. 0 <= 0
        OBVIOUS
      <3>4. QED
        BY <3>1, <3>2, <3>3, Zenon
    <2>3. QED
      BY <2>2 DEF ReadsSane
  <1>9. LogoutKept
    BY <1>6 DEF LogoutKept
  <1>10. Backed
    <2>1. ~Connecting
      BY <1>6 DEF Connecting
    <2>2. exchange /\ conn # None => envelope # None
      BY <1>s
    <2>3. QED
      BY <1>4, <1>6, <2>1, <2>2 DEF Backed, Armed, Wiped, Flights
  <1>11. QED
    BY <1>2, <1>3, <1>5, <1>7, <1>8, <1>9, <1>10 DEF CredIInv, TypeIInv

-----------------------------------------------------------------------------
(* What a step does to a call                                              *)

\* The call goes from r to s without taking one of the steps that matter: joining a flight,
\* storing its envelope or the connection, removing the connection, ending its wait for a read.
Moves(r, s) ==
  /\ s \in CallRecords /\ Sane(s)
  /\ r.kind # "none" => s.kind = r.kind
  /\ r.pc = "settled" => s.pc = "settled"
  /\ exchange /\ Armed(s) => Armed(r)
  /\ Wiped(s) => Wiped(r)
  /\ s.clean => r.clean
  /\ s.pc = "rereading" <=> r.pc = "rereading"
  /\ s.pc = "rereading" => s.tab = r.tab
  /\ s.pc = "wait" => r.pc = "wait" /\ s.tab = r.tab /\ s.inter = r.inter

\* A call may stay as it is.
LEMMA StaysMoves ==
  ASSUME CallsSane, NEW c \in Call
  PROVE  Moves(call[c], call[c])
  BY DEF CallsSane, Moves

\* A call that ends.
LEMMA EndedMoves ==
  ASSUME NEW r \in CallRecords, Sane(r), r.kind # "none", r.pc # "rereading"
  PROVE  Moves(r, Ended(r))
  <1>1. Idle \in CallRecords
    BY DEF Idle, CallRecords, Pcs
  <1>2. Ended(r) \in CallRecords
    BY <1>1 DEF Ended, CallRecords, Pcs
  <1>3. Ended(r).kind = r.kind /\ Ended(r).pc = "settled" /\ ~Ended(r).clean
    BY <1>1 DEF Ended, Idle
  <1>4. Sane(Ended(r))
    BY <1>3 DEF Sane, Placed
  <1>5. QED
    BY <1>2, <1>3, <1>4 DEF Moves, Armed, Wiped

\* A call that fails: a warm-up still reads the connection again.
LEMMA FailedMoves ==
  ASSUME NEW r \in CallRecords, Sane(r), r.pc \notin {"idle", "settled", "rereading"}
  PROVE  Moves(r, Failed(r))
  <1>1. r.kind # "none"
    BY DEF Sane, Placed
  <1>2. CASE r.kind = "warmUp"
    <2>1. Failed(r) = [r EXCEPT !.pc = "reread"]
      BY <1>2 DEF Failed, At
    <2> DEFINE s == [r EXCEPT !.pc = "reread"]
    <2>2. /\ s \in CallRecords /\ s.kind = r.kind /\ s.pc = "reread" /\ s.tab = r.tab
          /\ s.clean = r.clean
      BY DEF CallRecords, Pcs
    <2>3. ~r.clean /\ r.tab \in Tab
      BY <1>2 DEF Sane, Placed
    <2> HIDE DEF s
    <2>4. Sane(s)
      BY <1>2, <2>2, <2>3 DEF Sane, Placed
    <2>5. Moves(r, s)
      BY <2>2, <2>3, <2>4 DEF Moves, Armed, Wiped
    <2>6. QED
      BY <2>1, <2>5 DEF s
  <1>3. CASE r.kind # "warmUp"
    BY <1>1, <1>3, EndedMoves DEF Failed
  <1>4. QED
    BY <1>2, <1>3

\* A call that holds a token.
LEMMA HoldingMoves ==
  ASSUME NEW r \in CallRecords, Sane(r), NEW a \in Account, NEW shown \in BOOLEAN,
         r.pc \in {"cached", "wait", "stored"}, r.kind = "connect" => shown
  PROVE  Moves(r, Holding(r, a, shown))
  <1> DEFINE h == [r EXCEPT !.acct = a, !.shown = shown /\ r.kind = "connect"]
  <1>0. /\ r.kind \in {"connect", "fetch", "access", "warmUp"} /\ r.tab \in Tab /\ ~r.clean
        /\ r.kind = "connect" => ~exchange
    BY DEF Sane, Placed
  <1>1. /\ h \in CallRecords /\ h.kind = r.kind /\ h.tab = r.tab /\ h.acct = a /\ h.inter = r.inter
        /\ h.shown = (shown /\ r.kind = "connect") /\ ~h.clean
    BY <1>0 DEF CallRecords
  <1>2. Holding(r, a, shown) =
          CASE r.kind = "connect" -> At(h, "email")
            [] r.kind = "access" -> Ended(r)
            [] r.kind = "fetch" -> At(h, IF r.verify THEN "email" ELSE "send")
            [] r.kind = "warmUp" -> At(h, IF r.verify THEN "email" ELSE "reread")
    BY DEF Holding
  <1> HIDE DEF h
  <1>3. ASSUME NEW pc \in {"email", "send", "reread"},
               \/ pc = "email" /\ r.kind # "access"
               \/ pc = "send" /\ r.kind = "fetch"
               \/ pc = "reread" /\ r.kind = "warmUp"
        PROVE  Moves(r, At(h, pc))
    <2> DEFINE s == At(h, pc)
    <2>1. /\ s \in CallRecords /\ s.kind = r.kind /\ s.tab = r.tab /\ s.acct = a /\ s.pc = pc
          /\ s.inter = r.inter /\ s.shown = (shown /\ r.kind = "connect") /\ ~s.clean
      BY <1>1, <1>3 DEF At, CallRecords, Pcs
    <2> HIDE DEF s
    <2>2. Sane(s)
      BY <1>0, <1>3, <2>1 DEF Sane, Placed
    <2>3. QED
      BY <1>0, <1>3, <2>1, <2>2 DEF Moves, Armed, Wiped, s
  <1>4. CASE r.kind = "connect"
    BY <1>2, <1>3, <1>4
  <1>5. CASE r.kind = "access"
    BY <1>2, <1>5, EndedMoves
  <1>6. CASE r.kind = "fetch"
    BY <1>2, <1>3, <1>6
  <1>7. CASE r.kind = "warmUp"
    BY <1>2, <1>3, <1>7
  <1>8. QED
    BY <1>0, <1>4, <1>5, <1>6, <1>7

\* A call that goes on at another place of its way, with other locals perhaps.
LEMMA AtMoves ==
  ASSUME NEW r \in CallRecords, Sane(r), NEW s \in CallRecords,
         s.kind = r.kind, s.tab = r.tab, s.inter = r.inter, s.clean = r.clean,
         r.pc \notin {"idle", "settled", "rereading"}, s.pc \notin {"idle", "rereading", "wait"},
         Placed(s),
         s.kind = "connect" /\ s.pc \in {"post", "setEnvelope", "setToken", "email", "setConn"} =>
           s.shown /\ s.acct \in Account,
         exchange /\ Armed(s) => Armed(r), Wiped(s) => Wiped(r),
         s.clean => s.pc \in {"clearToken", "clearEnvelope"}
  PROVE  Moves(r, s)
  <1>1. Sane(s)
    BY DEF Sane
  <1>2. QED
    BY <1>1 DEF Moves

\* The steps of a call that matter to nobody else: what it asks Google and the exchange, what it
\* reads of the token and the connection, its ends, and the removal of a token.
OwnStep(c) ==
  \/ Cached(c) \/ Gate(c) \/ GetConn(c) \/ Send(c) \/ DropToken(c) \/ Email(c) \/ WarmedUp(c)
  \/ CodeClient(c) \/ CodeAnswered(c) \/ CodeTimeout(c) \/ PostCode(c) \/ SetToken(c) \/ Revoke(c)
  \/ ClearToken(c)
  \/ ClearEnvelope(c) /\ call[c].kind # "disconnect"
  \/ DeleteDatabase(c)

\* Each of them moves its call and no other.
LEMMA OwnMoves ==
  ASSUME RecordsSane, CallsSane, NEW c \in Call, OwnStep(c)
  PROVE  \E s : Moves(call[c], s) /\ call' = [call EXCEPT ![c] = s]
  <1> DEFINE r == call[c]
  <1>0. /\ call \in [Call -> CallRecords] /\ r \in CallRecords /\ Sane(r)
        /\ conn \in Account \cup {None} /\ token \in Secrets \cup {None}
    BY DEF CallsSane, RecordsSane
  <1>e. ASSUME call' = [call EXCEPT ![c] = Ended(r)], r.pc \notin {"idle", "settled", "rereading"}
        PROVE  \E s : Moves(call[c], s) /\ call' = [call EXCEPT ![c] = s]
    <2>1. r.kind # "none"
      BY <1>0, <1>e DEF Sane, Placed
    <2>2. QED
      BY <1>0, <1>e, <2>1, EndedMoves
  <1>f. ASSUME call' = [call EXCEPT ![c] = Failed(r)], r.pc \notin {"idle", "settled", "rereading"}
        PROVE  \E s : Moves(call[c], s) /\ call' = [call EXCEPT ![c] = s]
    BY <1>0, <1>f, FailedMoves
  <1>a. ASSUME NEW pc \in Pcs \ {"idle", "rereading", "wait"}, call' = [call EXCEPT ![c] = At(r, pc)],
               r.pc \notin {"idle", "settled", "rereading"},
               \A s : s.kind = r.kind /\ s.pc = pc => Placed(s),
               r.kind = "connect" /\ pc \in {"post", "setEnvelope", "setToken", "email", "setConn"} =>
                 r.shown /\ r.acct \in Account,
               exchange /\ r.kind = "connect" /\ pc \in {"setToken", "email", "setConn"} => Armed(r),
               pc \in {"clearToken", "clearEnvelope"} => Wiped(r),
               r.clean => pc \in {"clearToken", "clearEnvelope"}
        PROVE  \E s : Moves(call[c], s) /\ call' = [call EXCEPT ![c] = s]
    <2> DEFINE s == At(r, pc)
    <2>1. /\ s \in CallRecords /\ s.kind = r.kind /\ s.tab = r.tab /\ s.pc = pc /\ s.acct = r.acct
          /\ s.inter = r.inter /\ s.shown = r.shown /\ s.clean = r.clean
      BY <1>0, <1>a DEF At, CallRecords
    <2> HIDE DEF s
    <2>2. Placed(s)
      BY <1>a, <2>1
    <2>3. Moves(r, s)
      BY <1>0, <1>a, <2>1, <2>2, AtMoves DEF Armed, Wiped
    <2>4. QED
      BY <1>a, <2>3 DEF s
  <1>1. CASE Cached(c)
    <2> DEFINE usable == Usable(token)
    <2>1. /\ r.pc = "cached" /\ r.kind \in {"fetch", "access", "warmUp"} /\ ~r.clean
          /\ call' = [call EXCEPT ![c] =
               CASE usable /\ r.kind = "warmUp" -> At(r, "reread")
                 [] usable /\ r.kind # "warmUp" -> Holding(r, token.acct, FALSE)
                 [] ~usable /\ r.kind = "fetch" -> At(r, "gate")
                 [] OTHER -> At(r, "acquire")]
      BY <1>0, <1>1 DEF Cached, Sane, Placed
    <2>2. usable => token.acct \in Account
      BY <1>0 DEF Usable, Secrets
    <2>3. usable \in BOOLEAN
      BY <1>0 DEF Usable, Secrets
    <2> HIDE DEF usable
    <2>4. CASE usable /\ r.kind = "warmUp"
      <3>1. call' = [call EXCEPT ![c] = At(r, "reread")]
        BY <2>1, <2>4
      <3>2. QED
        BY <1>a, <2>1, <2>4, <3>1 DEF Placed, Pcs
    <2>5. CASE usable /\ r.kind # "warmUp"
      <3>1. call' = [call EXCEPT ![c] = Holding(r, token.acct, FALSE)]
        BY <2>1, <2>5
      <3>2. QED
        BY <1>0, <2>1, <2>2, <2>5, <3>1, HoldingMoves
    <2>6. CASE ~usable /\ r.kind = "fetch"
      <3>1. call' = [call EXCEPT ![c] = At(r, "gate")]
        BY <2>1, <2>6
      <3>2. QED
        BY <1>a, <2>1, <2>6, <3>1 DEF Placed, Pcs
    <2>7. CASE ~usable /\ r.kind # "fetch"
      <3>1. call' = [call EXCEPT ![c] = At(r, "acquire")]
        BY <2>1, <2>7
      <3>2. QED
        BY <1>a, <2>1, <2>7, <3>1 DEF Placed, Pcs
    <2>8. QED
      BY <2>3, <2>4, <2>5, <2>6, <2>7
  <1>2. CASE Gate(c)
    <2>1. r.pc = "gate" /\ r.kind = "fetch" /\ ~r.clean
      BY <1>0, <1>2 DEF Gate, Sane, Placed
    <2>2. \/ call' = [call EXCEPT ![c] = Ended(r)]
          \/ call' = [call EXCEPT ![c] = At(r, "getConn")]
          \/ call' = [call EXCEPT ![c] = Failed(r)]
          \/ call' = [call EXCEPT ![c] = At(r, "acquire")]
      BY <1>2 DEF Gate
    <2>3. CASE call' = [call EXCEPT ![c] = At(r, "getConn")]
      BY <1>a, <2>1, <2>3 DEF Placed, Pcs
    <2>4. CASE call' = [call EXCEPT ![c] = At(r, "acquire")]
      BY <1>a, <2>1, <2>4 DEF Placed, Pcs
    <2>5. QED
      BY <1>e, <1>f, <2>1, <2>2, <2>3, <2>4
  <1>3. CASE GetConn(c)
    <2>1. r.pc = "getConn" /\ r.kind \in {"fetch", "warmUp"} /\ ~r.clean
      BY <1>0, <1>3 DEF GetConn, Sane, Placed
    <2> DEFINE h == [r EXCEPT !.hint = conn]
               s1 == At(h, "reread")
               s2 == [At(h, "cached") EXCEPT !.verify = ~exchange]
               s3 == [At(h, "acquire") EXCEPT !.verify = h.retried /\ conn # None]
    <2>2. /\ h \in CallRecords /\ h.kind = r.kind /\ h.tab = r.tab /\ h.inter = r.inter
          /\ h.clean = r.clean
      BY <1>0 DEF CallRecords
    <2>3. call' = [call EXCEPT ![c] = IF h.kind = "warmUp"
                                      THEN IF conn = None THEN s1 ELSE s2
                                      ELSE s3]
      BY <1>3 DEF GetConn
    <2> HIDE DEF h
    <2>4. ASSUME NEW s \in CallRecords, NEW pc \in {"reread", "cached", "acquire"},
                 s.kind = r.kind, s.tab = r.tab, s.inter = r.inter, s.clean = r.clean, s.pc = pc,
                 IF pc = "acquire" THEN r.kind = "fetch" ELSE r.kind = "warmUp",
                 call' = [call EXCEPT ![c] = s]
          PROVE  \E q : Moves(call[c], q) /\ call' = [call EXCEPT ![c] = q]
      <3>1. Placed(s)
        BY <2>1, <2>4 DEF Placed
      <3>2. Moves(r, s)
        BY <1>0, <2>1, <2>4, <3>1, AtMoves DEF Armed, Wiped
      <3>3. QED
        BY <2>4, <3>2
    <2>5. CASE r.kind = "warmUp" /\ conn = None
      <3>1. /\ s1 \in CallRecords /\ s1.kind = r.kind /\ s1.tab = r.tab /\ s1.inter = r.inter
            /\ s1.clean = r.clean /\ s1.pc = "reread"
        BY <2>2 DEF At, CallRecords, Pcs
      <3>2. call' = [call EXCEPT ![c] = s1]
        BY <2>2, <2>3, <2>5
      <3> HIDE DEF s1, s2, s3
      <3>3. QED
        BY <2>4, <2>5, <3>1, <3>2
    <2>6. CASE r.kind = "warmUp" /\ conn # None
      <3>1. /\ s2 \in CallRecords /\ s2.kind = r.kind /\ s2.tab = r.tab /\ s2.inter = r.inter
            /\ s2.clean = r.clean /\ s2.pc = "cached"
        BY <2>2 DEF At, CallRecords, Pcs
      <3>2. call' = [call EXCEPT ![c] = s2]
        BY <2>2, <2>3, <2>6
      <3> HIDE DEF s1, s2, s3
      <3>3. QED
        BY <2>4, <2>6, <3>1, <3>2
    <2>7. CASE r.kind = "fetch"
      <3>1. /\ s3 \in CallRecords /\ s3.kind = r.kind /\ s3.tab = r.tab /\ s3.inter = r.inter
            /\ s3.clean = r.clean /\ s3.pc = "acquire"
        BY <2>2 DEF At, CallRecords, Pcs
      <3>2. call' = [call EXCEPT ![c] = s3]
        BY <2>2, <2>3, <2>7
      <3> HIDE DEF s1, s2, s3
      <3>3. QED
        BY <2>4, <2>7, <3>1, <3>2
    <2>8. QED
      BY <2>1, <2>5, <2>6, <2>7
  <1>4. CASE Send(c)
    <2>1. r.pc = "send" /\ r.kind = "fetch" /\ ~r.clean
      BY <1>0, <1>4 DEF Send, Sane, Placed
    <2>2. \/ call' = [call EXCEPT ![c] = Ended(r)]
          \/ call' = [call EXCEPT ![c] = At(r, "clear403")]
          \/ call' = [call EXCEPT ![c] = Failed(r)]
          \/ call' = [call EXCEPT ![c] = At(r, "clear401")]
      BY <1>0, <1>4 DEF Send, At
    <2>3. CASE call' = [call EXCEPT ![c] = At(r, "clear403")]
      BY <1>a, <2>1, <2>3 DEF Placed, Pcs
    <2>4. CASE call' = [call EXCEPT ![c] = At(r, "clear401")]
      BY <1>a, <2>1, <2>4 DEF Placed, Pcs
    <2>5. QED
      BY <1>e, <1>f, <2>1, <2>2, <2>3, <2>4
  <1>5. CASE DropToken(c)
    <2>1. /\ r.pc \in {"clear401", "clear403", "clearWrong"} /\ r.kind \in {"fetch", "warmUp"}
          /\ r.kind = "warmUp" => r.pc = "clearWrong"
          /\ ~r.clean
      BY <1>0, <1>5 DEF DropToken, Sane, Placed
    <2>2. CASE r.pc # "clear401"
      <3>1. call' = [call EXCEPT ![c] = Failed(r)]
        BY <1>5, <2>2 DEF DropToken
      <3>2. QED
        BY <1>f, <2>1, <3>1
    <2>3. CASE r.pc = "clear401"
      <3>1. PICK pc \in {"acquire", "getConn"} :
              call' = [call EXCEPT ![c] = [At(r, pc) EXCEPT !.retried = TRUE]]
        BY <1>5, <2>3 DEF DropToken
      <3> DEFINE s == [At(r, pc) EXCEPT !.retried = TRUE]
      <3>2. /\ s \in CallRecords /\ s.kind = r.kind /\ s.tab = r.tab /\ s.inter = r.inter
            /\ s.clean = r.clean /\ s.pc = pc
        BY <1>0 DEF At, CallRecords, Pcs
      <3> HIDE DEF s
      <3>3. Placed(s)
        BY <2>1, <2>3, <3>2 DEF Placed
      <3>4. Moves(r, s)
        BY <1>0, <2>1, <3>2, <3>3, AtMoves DEF Armed, Wiped
      <3>5. QED
        BY <3>1, <3>4 DEF s
    <2>4. QED
      BY <2>2, <2>3
  <1>6. CASE Email(c)
    <2>1. r.pc = "email" /\ r.kind \in {"connect", "fetch", "warmUp"} /\ ~r.clean
      BY <1>0, <1>6 DEF Email, Sane, Placed
    <2>2. \/ call' = [call EXCEPT ![c] = Failed(r)]
          \/ r.kind = "connect" /\ call' = [call EXCEPT ![c] = At(r, "setConn")]
          \/ r.kind # "connect" /\ call' = [call EXCEPT ![c] = At(r, "clearWrong")]
          \/ r.kind = "fetch" /\ call' = [call EXCEPT ![c] = At(r, "send")]
          \/ r.kind = "warmUp" /\ call' = [call EXCEPT ![c] = At(r, "reread")]
      <3>1. \/ call' = [call EXCEPT ![c] = Failed(r)]
            \/ call' = [call EXCEPT ![c] =
                  CASE r.kind = "connect" -> At(r, "setConn")
                    [] r.kind # "connect" /\ r.acct # r.hint -> At(r, "clearWrong")
                    [] OTHER -> At(r, IF r.kind = "fetch" THEN "send" ELSE "reread")]
        BY <1>6 DEF Email
      <3>2. QED
        BY <2>1, <3>1
    <2>3. CASE r.kind = "connect" /\ call' = [call EXCEPT ![c] = At(r, "setConn")]
      <3>1. r.shown /\ r.acct \in Account /\ Armed(r)
        BY <1>0, <2>1, <2>3 DEF Sane, Armed
      <3>2. QED
        BY <1>a, <2>1, <2>3, <3>1 DEF Placed, Pcs
    <2>4. CASE r.kind # "connect" /\ call' = [call EXCEPT ![c] = At(r, "clearWrong")]
      BY <1>a, <2>1, <2>4 DEF Placed, Pcs
    <2>5. CASE r.kind = "fetch" /\ call' = [call EXCEPT ![c] = At(r, "send")]
      BY <1>a, <2>1, <2>5 DEF Placed, Pcs
    <2>6. CASE r.kind = "warmUp" /\ call' = [call EXCEPT ![c] = At(r, "reread")]
      BY <1>a, <2>1, <2>6 DEF Placed, Pcs
    <2>7. QED
      BY <1>f, <2>1, <2>2, <2>3, <2>4, <2>5, <2>6
  <1>7. CASE WarmedUp(c) \/ DeleteDatabase(c)
    <2>1. r.pc \in {"reread", "delete"} /\ call' = [call EXCEPT ![c] = Ended(r)]
      BY <1>0, <1>7 DEF WarmedUp, DeleteDatabase
    <2>2. QED
      BY <1>e, <2>1
  <1>8. CASE CodeClient(c) \/ CodeTimeout(c)
    <2>1. r.pc \in {"load", "code"} /\ r.kind = "connect" /\ exchange /\ ~r.clean
      BY <1>0, <1>8 DEF CodeClient, CodeTimeout, Sane, Placed
    <2>2. \/ call' = [call EXCEPT ![c] = At(r, "code")]
          \/ call' = [call EXCEPT ![c] = Failed(r)]
      BY <1>0, <1>8 DEF CodeClient, CodeTimeout, At
    <2>3. CASE call' = [call EXCEPT ![c] = At(r, "code")]
      BY <1>a, <2>1, <2>3 DEF Placed, Pcs
    <2>4. QED
      BY <1>f, <2>1, <2>2, <2>3
  <1>9. CASE CodeAnswered(c)
    <2>1. r.pc = "code" /\ r.kind = "connect" /\ exchange /\ ~r.clean
      BY <1>0, <1>9 DEF CodeAnswered, Sane, Placed
    <2>2. CASE call' = [call EXCEPT ![c] = Failed(r)]
      BY <1>f, <2>1, <2>2
    <2>3. ASSUME NEW a \in Account,
                 call' = [call EXCEPT ![c].pc = "post", ![c].acct = a, ![c].shown = TRUE]
          PROVE  \E s : Moves(call[c], s) /\ call' = [call EXCEPT ![c] = s]
      <3> DEFINE s == [r EXCEPT !.pc = "post", !.acct = a, !.shown = TRUE]
      <3>1. call' = [call EXCEPT ![c] = s]
        BY <1>0, <2>3
      <3>2. /\ s \in CallRecords /\ s.kind = r.kind /\ s.tab = r.tab /\ s.inter = r.inter
            /\ s.clean = r.clean /\ s.pc = "post" /\ s.acct = a /\ s.shown
        BY <1>0 DEF CallRecords, Pcs
      <3> HIDE DEF s
      <3>3. Placed(s)
        BY <2>1, <3>2 DEF Placed
      <3>4. Moves(r, s)
        BY <1>0, <2>1, <3>2, <3>3, AtMoves DEF Armed, Wiped
      <3>5. QED
        BY <3>1, <3>4
    <2>4. QED
      BY <1>9, <2>2, <2>3 DEF CodeAnswered
  <1>10. CASE PostCode(c)
    <2>1. /\ r.pc = "post" /\ r.kind = "connect" /\ exchange /\ ~r.clean
          /\ r.shown /\ r.acct \in Account
      BY <1>0, <1>10 DEF PostCode, Sane, Placed
    <2>2. \/ call' = [call EXCEPT ![c] = At(r, "setEnvelope")]
          \/ call' = [call EXCEPT ![c] = At(r, "clearConn")]
          \/ call' = [call EXCEPT ![c] = Failed(r)]
      BY <1>0, <1>10 DEF PostCode, At
    <2>3. CASE call' = [call EXCEPT ![c] = At(r, "setEnvelope")]
      BY <1>a, <2>1, <2>3 DEF Placed, Pcs
    <2>4. CASE call' = [call EXCEPT ![c] = At(r, "clearConn")]
      BY <1>a, <2>1, <2>4 DEF Placed, Pcs
    <2>5. QED
      BY <1>f, <2>1, <2>2, <2>3, <2>4
  <1>11. CASE SetToken(c)
    <2>1. /\ r.pc = "setToken" /\ r.kind = "connect" /\ exchange /\ ~r.clean
          /\ r.shown /\ r.acct \in Account /\ Armed(r)
      BY <1>0, <1>11 DEF SetToken, Sane, Placed, Armed
    <2>2. call' = [call EXCEPT ![c] = At(r, "email")]
      BY <1>0, <1>11 DEF SetToken, At
    <2>3. QED
      BY <1>a, <2>1, <2>2 DEF Placed, Pcs
  <1>12. CASE Revoke(c)
    <2>1. r.pc = "getToken" /\ r.kind = "disconnect" /\ ~r.clean
      BY <1>0, <1>12 DEF Revoke, Sane, Placed
    <2>2. call' = [call EXCEPT ![c] = At(r, "clearConn")]
      BY <1>0, <1>12 DEF Revoke, At
    <2>3. QED
      BY <1>a, <2>1, <2>2 DEF Placed, Pcs
  <1>13. CASE ClearToken(c)
    <2>1. /\ r.pc = "clearToken" /\ Wiped(r)
          /\ r.kind = "disconnect" \/ (r.kind = "connect" /\ exchange)
      BY <1>0, <1>13 DEF ClearToken, Sane, Placed, Wiped
    <2>2. call' = [call EXCEPT ![c] = At(r, "clearEnvelope")]
      BY <1>0, <1>13 DEF ClearToken, At
    <2>3. QED
      BY <1>a, <2>1, <2>2 DEF Placed, Pcs
  <1>14. CASE ClearEnvelope(c) /\ call[c].kind # "disconnect"
    <2>1. r.pc = "clearEnvelope" /\ call' = [call EXCEPT ![c] = Failed(r)]
      BY <1>14 DEF ClearEnvelope
    <2>2. QED
      BY <1>f, <2>1
  <1>15. QED
    BY <1>1, <1>2, <1>3, <1>4, <1>5, <1>6, <1>7, <1>8, <1>9, <1>10, <1>11, <1>12, <1>13, <1>14
       DEF OwnStep

-----------------------------------------------------------------------------
(* What a step does to a flight                                            *)

\* A flight of kind k may be f.
Fits(k, f) ==
  /\ k # "e" => /\ f.st \in RequestStates
                /\ f.st = "persist" => f.acct \in Account
  /\ k = "i" /\ f.st # "none" => f.shown
  /\ k = "e" => /\ f.st \in RefreshStates
                /\ f.st \in {"post", "setEnvelope", "setToken"} => f.acct \in Account
                /\ exchange \/ f = Landed

\* The flight becomes f.
Flies(t, k, f) == flight' = [flight EXCEPT ![t][k] = f]

\* A flight that becomes one that fits leaves the others.
LEMMA FlightChange ==
  ASSUME FlightsSane, UNCHANGED exchange, NEW t \in Tab, NEW k \in Flights,
         NEW f \in FlightRecords, Fits(k, f), Flies(t, k, f)
  PROVE  /\ FlightsSane' /\ flight'[t][k] = f
         /\ \A u \in Tab, j \in Flights : u # t \/ j # k => flight'[u][j] = flight[u][j]
  <1> USE DEF Fits, Flies
  <1>0. flight \in [Tab -> [Flights -> FlightRecords]] /\ exchange' = exchange
    BY DEF FlightsSane
  <1>1. /\ flight'[t][k] = f
        /\ \A u \in Tab, j \in Flights : u # t \/ j # k => flight'[u][j] = flight[u][j]
    BY <1>0
  <1>2. flight' \in [Tab -> [Flights -> FlightRecords]]
    BY <1>0
  <1>3. ASSUME NEW u \in Tab, NEW j \in {"i", "s"}
        PROVE  /\ flight'[u][j].st \in RequestStates
               /\ flight'[u][j].st = "persist" => flight'[u][j].acct \in Account
    <2>1. j \in Flights /\ j # "e"
      BY DEF Flights
    <2>2. QED
      BY <1>1, <2>1 DEF FlightsSane
  <1>4. ASSUME NEW u \in Tab
        PROVE  flight'[u]["i"].st # "none" => flight'[u]["i"].shown
    BY <1>1 DEF FlightsSane, Flights
  <1>5. ASSUME NEW u \in Tab
        PROVE  /\ flight'[u]["e"].st \in RefreshStates
               /\ flight'[u]["e"].st \in {"post", "setEnvelope", "setToken"} =>
                    flight'[u]["e"].acct \in Account
               /\ ~exchange => flight'[u]["e"] = Landed
    BY <1>1 DEF FlightsSane, Flights
  <1>6. QED
    BY <1>0, <1>1, <1>2, <1>3, <1>4, <1>5 DEF FlightsSane

\* A flight that has landed is a record of its type.
LEMMA LandedType == Landed \in FlightRecords /\ Landed.st = "none"
  BY DEF Landed, FlightRecords, RequestStates, RefreshStates

\* The landing of a flight moves the calls that joined it on, and no other.
LEMMA LandMoves ==
  ASSUME CallsSane, FlightsSane, Waited, UNCHANGED exchange, NEW t \in Tab, NEW k \in Flights,
         NEW a \in Account \cup {None}, NEW shown \in BOOLEAN,
         a # None /\ k = "i" => shown, Land(t, k, a, shown)
  PROVE  /\ call' \in [Call -> CallRecords] /\ \A d \in Call : Moves(call[d], call'[d])
         /\ FlightsSane' /\ Waited'
         /\ flight'[t][k] = Landed
         /\ \A u \in Tab, j \in Flights : u # t \/ j # k => flight'[u][j] = flight[u][j]
  <1>0. call \in [Call -> CallRecords] /\ exchange' = exchange
    BY DEF CallsSane
  <1>1. /\ FlightsSane' /\ flight'[t][k] = Landed
        /\ \A u \in Tab, j \in Flights : u # t \/ j # k => flight'[u][j] = flight[u][j]
    <2>1. Flies(t, k, Landed)
      BY DEF Land, Flies
    <2>2. Landed \in FlightRecords /\ Fits(k, Landed)
      BY LandedType DEF Fits, RequestStates, RefreshStates
    <2>3. QED
      BY <2>1, <2>2, FlightChange
  <1>2. ASSUME NEW d \in Call
        PROVE  /\ Moves(call[d], call'[d])
               /\ call'[d].pc = "wait" => call'[d] = call[d] /\ (call[d].tab # t \/ FlightOf(call[d]) # k)
    <2> DEFINE r == call[d]
    <2>1. r \in CallRecords /\ Sane(r)
      BY DEF CallsSane
    <2>2. call'[d] = IF r.tab # t \/ r.pc # "wait" \/ FlightOf(r) # k THEN r
                     ELSE IF a = None THEN Failed(r) ELSE Holding(r, a, shown)
      BY DEF Land
    <2>3. CASE r.tab # t \/ r.pc # "wait" \/ FlightOf(r) # k
      BY <2>2, <2>3, StaysMoves
    <2>4. CASE r.tab = t /\ r.pc = "wait" /\ FlightOf(r) = k /\ a = None
      <3>1. call'[d] = Failed(r)
        BY <2>2, <2>4
      <3>2. Moves(r, Failed(r))
        BY <2>1, <2>4, FailedMoves
      <3>3. Failed(r).pc # "wait"
        BY <2>1 DEF Failed, At, Ended, Idle, CallRecords
      <3>4. QED
        BY <3>1, <3>2, <3>3
    <2>5. CASE r.tab = t /\ r.pc = "wait" /\ FlightOf(r) = k /\ a # None
      <3>1. call'[d] = Holding(r, a, shown)
        BY <2>2, <2>5
      <3>2. r.kind = "connect" => k = "i"
        BY <2>1, <2>5 DEF Sane, Placed, FlightOf
      <3>3. Moves(r, Holding(r, a, shown))
        BY <2>1, <2>5, <3>2, HoldingMoves
      <3>4. r.kind \in {"connect", "fetch", "access", "warmUp"}
        BY <2>1, <2>5 DEF Sane, Placed
      <3>5. Holding(r, a, shown).pc # "wait"
        <4> DEFINE h == [r EXCEPT !.acct = a, !.shown = shown /\ r.kind = "connect"]
        <4>1. h \in CallRecords
          BY <2>1 DEF CallRecords
        <4>2. Holding(r, a, shown) =
                CASE r.kind = "connect" -> At(h, "email")
                  [] r.kind = "access" -> Ended(r)
                  [] r.kind = "fetch" -> At(h, IF r.verify THEN "email" ELSE "send")
                  [] r.kind = "warmUp" -> At(h, IF r.verify THEN "email" ELSE "reread")
          BY DEF Holding
        <4> HIDE DEF h
        <4>3. \A pc : At(h, pc).pc = pc
          BY <4>1 DEF At, CallRecords
        <4>4. Ended(r).pc = "settled"
          BY DEF Ended, Idle
        <4>5. QED
          BY <3>4, <4>2, <4>3, <4>4
      <3>6. QED
        BY <3>1, <3>3, <3>5
    <2>6. QED
      BY <2>3, <2>4, <2>5
  <1>3. call' \in [Call -> CallRecords]
    <2>1. \A d \in Call : call'[d] \in CallRecords
      BY <1>2 DEF Moves
    <2>2. QED
      BY <2>1 DEF Land
  <1>4. Waited'
    <2> SUFFICES ASSUME NEW d \in Call, call'[d].pc = "wait"
                 PROVE  (flight[call[d].tab][FlightOf(call[d])].st # "none")'
      BY DEF Waited
    <2>1. call'[d] = call[d] /\ (call[d].tab # t \/ FlightOf(call[d]) # k)
      BY <1>2
    <2>2. FlightOf(call[d])' = FlightOf(call[d]) /\ FlightOf(call[d]) \in Flights
      BY <1>0, <2>1 DEF FlightOf, Flights
    <2>3. call[d].tab \in Tab
      BY <2>1 DEF CallsSane, Sane
    <2>4. QED
      BY <1>1, <2>1, <2>2, <2>3 DEF Waited
  <1>5. QED
    BY <1>1, <1>2, <1>3, <1>4

\* No call takes a step that matters.
AllMove == call' \in [Call -> CallRecords] /\ \A d \in Call : Moves(call[d], call'[d])

\* A flight that goes on in the air moves no call.
LEMMA AloftKeeps ==
  ASSUME CallsSane, FlightsSane, Waited, UNCHANGED <<exchange, call>>, NEW t \in Tab,
         NEW k \in Flights, NEW f \in FlightRecords, f.st # "none", Fits(k, f), Flies(t, k, f)
  PROVE  /\ AllMove /\ FlightsSane' /\ Waited' /\ flight'[t][k] = f
         /\ \A u \in Tab, j \in Flights : u # t \/ j # k => flight'[u][j] = flight[u][j]
  <1>1. /\ FlightsSane' /\ flight'[t][k] = f
        /\ \A u \in Tab, j \in Flights : u # t \/ j # k => flight'[u][j] = flight[u][j]
    BY FlightChange
  <1>2. AllMove
    BY StaysMoves DEF AllMove, CallsSane
  <1>3. Waited'
    <2> SUFFICES ASSUME NEW d \in Call, call[d].pc = "wait"
                 PROVE  flight'[call[d].tab][FlightOf(call[d])].st # "none"
      BY DEF Waited, FlightOf
    <2>1. call[d].tab \in Tab /\ FlightOf(call[d]) \in Flights
      BY DEF CallsSane, Sane, FlightOf, Flights
    <2>2. QED
      BY <1>1, <2>1 DEF Waited
  <1>4. QED
    BY <1>1, <1>2, <1>3

RequestStep(t, k) ==
  TokenClient(t, k) \/ GisCallback(t, k) \/ GisErrorCallback(t, k) \/ GisTimeout(t, k)
  \/ PersistToken(t, k)

\* The steps of a token request, its landing with them, move the calls that joined it.
LEMMA RequestMoves ==
  ASSUME RecordsSane, CallsSane, FlightsSane, Waited, NEW t \in Tab, NEW k \in {"i", "s"},
         RequestStep(t, k)
  PROVE  /\ AllMove /\ FlightsSane' /\ Waited'
         /\ \A u \in Tab : flight'[u]["e"] = flight[u]["e"]
  <1>0. /\ exchange' = exchange /\ k \in Flights /\ k # "e" /\ "e" \in Flights
        /\ flight[t][k] \in FlightRecords /\ flight \in [Tab -> [Flights -> FlightRecords]]
        /\ flight[t][k].st # "none" /\ flight[t][k].st \in RequestStates
    BY DEF RequestStep, TokenClient, GisCallback, GisErrorCallback, GisTimeout, PersistToken,
           Flights, FlightsSane
  <1>1. ASSUME NEW f \in FlightRecords, f.st \in RequestStates \ {"none"}, Flies(t, k, f), UNCHANGED call,
               f.st = "persist" => f.acct \in Account, k = "i" => f.shown
        PROVE  /\ AllMove /\ FlightsSane' /\ Waited'
               /\ \A u \in Tab : flight'[u]["e"] = flight[u]["e"]
    <2>1. Fits(k, f) /\ f.st # "none"
      BY <1>0, <1>1 DEF Fits
    <2>2. QED
      BY <1>0, <1>1, <2>1, AloftKeeps
  <1>s. k = "i" => flight[t][k].shown
    BY <1>0 DEF FlightsSane
  <1>2. CASE ~LandFailed(t, k) /\ (TokenClient(t, k) \/ GisErrorCallback(t, k))
    <2>1. PICK st \in {"asked", "grace"} :
             flight' = [flight EXCEPT ![t][k].st = st] /\ UNCHANGED call
      BY <1>2 DEF TokenClient, GisErrorCallback
    <2> DEFINE f == [flight[t][k] EXCEPT !.st = st]
    <2>2. f \in FlightRecords /\ f.st = st /\ f.shown = flight[t][k].shown
      BY <1>0 DEF FlightRecords, RequestStates
    <2>3. Flies(t, k, f)
      BY <1>0, <2>1 DEF Flies
    <2> HIDE DEF f
    <2>4. QED
      BY <1>1, <1>s, <2>1, <2>2, <2>3 DEF RequestStates
  <1>3. ASSUME NEW a \in Account, flight' = [flight EXCEPT ![t][k].st = "persist", ![t][k].acct = a],
               UNCHANGED call
        PROVE  /\ AllMove /\ FlightsSane' /\ Waited'
               /\ \A u \in Tab : flight'[u]["e"] = flight[u]["e"]
    <2> DEFINE f == [flight[t][k] EXCEPT !.st = "persist", !.acct = a]
    <2>2. f \in FlightRecords /\ f.st = "persist" /\ f.acct = a /\ f.shown = flight[t][k].shown
      BY <1>0 DEF FlightRecords, RequestStates
    <2>3. Flies(t, k, f)
      BY <1>0, <1>3 DEF Flies
    <2> HIDE DEF f
    <2>4. QED
      BY <1>1, <1>3, <1>s, <2>2, <2>3 DEF RequestStates
  <1>4. ASSUME NEW a \in Account \cup {None}, NEW shown \in BOOLEAN, a # None /\ k = "i" => shown,
               Land(t, k, a, shown)
        PROVE  /\ AllMove /\ FlightsSane' /\ Waited'
               /\ \A u \in Tab : flight'[u]["e"] = flight[u]["e"]
    BY <1>0, <1>4, LandMoves DEF AllMove
  <1>5. CASE LandFailed(t, k)
    BY <1>4, <1>5 DEF LandFailed
  <1>6. CASE PersistToken(t, k)
    <2>1. /\ Land(t, k, flight[t][k].acct, flight[t][k].shown)
          /\ flight[t][k].acct \in Account /\ flight[t][k].shown \in BOOLEAN
      BY <1>0, <1>6 DEF PersistToken, FlightsSane, FlightRecords
    <2>2. QED
      BY <1>4, <1>s, <2>1
  <1>7. QED
    BY <1>2, <1>3, <1>5, <1>6
       DEF RequestStep, TokenClient, GisCallback, GisErrorCallback, GisTimeout

RefreshStep(t) ==
  ReadEnvelope(t) \/ PostEnvelope(t) \/ StoreEnvelope(t) \/ StoreEnvelopeToken(t) \/ WipeConn(t)
  \/ WipeToken(t) \/ WipeEnvelope(t)

\* So do those of a refresh of the envelope.
LEMMA RefreshMoves ==
  ASSUME RecordsSane, CallsSane, FlightsSane, Waited, NEW t \in Tab, RefreshStep(t)
  PROVE  /\ AllMove /\ FlightsSane' /\ Waited'
         /\ \A u \in Tab \ {t} : flight'[u]["e"] = flight[u]["e"]
         /\ flight'[t]["e"].st \in {"clearToken", "clearEnvelope"} =>
              WipeConn(t) \/ flight[t]["e"].st \in {"clearToken", "clearEnvelope"}
         /\ exchange /\ (StoreEnvelope(t) => flight[t]["e"].acct \in Account)
         /\ StoreEnvelopeToken(t) => flight[t]["e"].acct \in Account
  <1> DEFINE e == flight[t]["e"]
             Goal == /\ AllMove /\ FlightsSane' /\ Waited'
                     /\ \A u \in Tab \ {t} : flight'[u]["e"] = flight[u]["e"]
                     /\ flight'[t]["e"].st \in {"clearToken", "clearEnvelope"} =>
                          WipeConn(t) \/ e.st \in {"clearToken", "clearEnvelope"}
  <1>0. /\ exchange' = exchange /\ "e" \in Flights /\ exchange
        /\ e \in FlightRecords /\ flight \in [Tab -> [Flights -> FlightRecords]]
        /\ e.st # "none" /\ e.st \in RefreshStates
        /\ e.st \in {"post", "setEnvelope", "setToken"} => e.acct \in Account
    BY LandedType DEF RefreshStep, ReadEnvelope, PostEnvelope, StoreEnvelope, StoreEnvelopeToken, WipeConn,
           WipeToken, WipeEnvelope, Flights, FlightsSane
  <1> SUFFICES Goal
    BY <1>0 DEF StoreEnvelope, StoreEnvelopeToken
  <1>1. ASSUME NEW f \in FlightRecords, f.st \in RefreshStates \ {"none"}, Flies(t, "e", f), UNCHANGED call,
               f.st \in {"post", "setEnvelope", "setToken"} => f.acct \in Account,
               f.st \in {"clearToken", "clearEnvelope"} =>
                 WipeConn(t) \/ e.st \in {"clearToken", "clearEnvelope"}
        PROVE  Goal
    <2>1. Fits("e", f) /\ f.st # "none"
      BY <1>0, <1>1 DEF Fits
    <2>2. /\ AllMove /\ FlightsSane' /\ Waited' /\ flight'[t]["e"] = f
          /\ \A u \in Tab, j \in Flights : u # t \/ j # "e" => flight'[u][j] = flight[u][j]
      BY <1>0, <1>1, <2>1, AloftKeeps
    <2>3. QED
      BY <1>0, <1>1, <2>2
  <1>2. ASSUME NEW st \in RefreshStates \ {"none"}, EnvelopeAt(t, st), UNCHANGED call,
               st \in {"post", "setEnvelope", "setToken"} => e.acct \in Account,
               st \in {"clearToken", "clearEnvelope"} =>
                 WipeConn(t) \/ e.st \in {"clearToken", "clearEnvelope"}
        PROVE  Goal
    <2> DEFINE f == [e EXCEPT !.st = st]
    <2>1. f \in FlightRecords /\ f.st = st /\ f.acct = e.acct
      BY <1>0 DEF FlightRecords, RefreshStates
    <2>2. Flies(t, "e", f)
      BY <1>0, <1>2 DEF Flies, EnvelopeAt
    <2> HIDE DEF f
    <2>3. QED
      BY <1>1, <1>2, <2>1, <2>2
  <1>3. ASSUME NEW a \in Account \cup {None}, Land(t, "e", a, FALSE)
        PROVE  Goal
    <2>1. /\ AllMove /\ FlightsSane' /\ Waited' /\ flight'[t]["e"] = Landed
          /\ \A u \in Tab, j \in Flights : u # t \/ j # "e" => flight'[u][j] = flight[u][j]
      BY <1>0, <1>3, LandMoves DEF AllMove
    <2>2. QED
      BY <1>0, <2>1, LandedType
  <1> HIDE DEF Goal
  <1>4. CASE LandFailed(t, "e")
    BY <1>3, <1>4 DEF LandFailed
  <1>5. CASE ReadEnvelope(t) /\ ~LandFailed(t, "e")
    <2>0. envelope = None => LandFailed(t, "e")
      BY <1>5 DEF ReadEnvelope, Usable
    <2>1. envelope # None /\ envelope.acct \in Account
      BY <1>5, <2>0 DEF RecordsSane, Secrets
    <2>2. CASE Land(t, "e", envelope.acct, FALSE)
      BY <1>3, <2>1, <2>2
    <2>3. CASE /\ flight' = [flight EXCEPT ![t]["e"].st = "post", ![t]["e"].acct = envelope.acct]
               /\ UNCHANGED call
      <3> DEFINE f == [e EXCEPT !.st = "post", !.acct = envelope.acct]
      <3>1. f \in FlightRecords /\ f.st = "post" /\ f.acct \in Account
        BY <1>0, <2>1 DEF FlightRecords, RefreshStates
      <3>2. Flies(t, "e", f)
        BY <1>0, <2>3 DEF Flies
      <3> HIDE DEF f
      <3>3. QED
        BY <1>1, <2>3, <3>1, <3>2 DEF RefreshStates
    <2>4. QED
      BY <1>5, <2>1, <2>2, <2>3 DEF ReadEnvelope
  <1>6. CASE PostEnvelope(t) /\ ~LandFailed(t, "e")
    <2>1. PICK st \in {"setEnvelope", "clearConn"} : EnvelopeAt(t, st) /\ UNCHANGED call
      BY <1>6 DEF PostEnvelope
    <2>2. e.acct \in Account
      BY <1>0, <1>6 DEF PostEnvelope
    <2>3. QED
      BY <1>2, <2>1, <2>2 DEF RefreshStates
  <1>7. CASE StoreEnvelope(t) \/ WipeConn(t) \/ WipeToken(t)
    BY <1>0, <1>2, <1>7 DEF StoreEnvelope, WipeConn, WipeToken, RefreshStates
  <1>8. CASE StoreEnvelopeToken(t)
    BY <1>0, <1>3, <1>8 DEF StoreEnvelopeToken
  <1>9. QED
    BY <1>4, <1>5, <1>6, <1>7, <1>8 DEF RefreshStep, ReadEnvelope, PostEnvelope, WipeEnvelope

\* A call joins the flight in the air, or starts one.
LEMMA JoinKeeps ==
  ASSUME RecordsSane, CallsSane, FlightsSane, Waited, UNCHANGED exchange, NEW c \in Call,
         call[c].pc \in {"acquire", "stored"}, Join(c)
  PROVE  /\ call' \in [Call -> CallRecords] /\ Sane(call'[c])
         /\ call'[c].pc = "wait" /\ call'[c].kind = call[c].kind /\ ~call'[c].clean
         /\ \A d \in Call \ {c} : call'[d] = call[d]
         /\ FlightsSane' /\ Waited'
         /\ \A u \in Tab : flight'[u]["e"].st \in {"clearToken", "clearEnvelope"} =>
                             flight[u]["e"].st \in {"clearToken", "clearEnvelope"}
  <1> DEFINE r == call[c]
             t == r.tab
             k == FlightOf(r)
             f == [st |-> IF k = "e" THEN "read" ELSE "load", shown |-> r.inter, acct |-> None]
             s == At(r, "wait")
  <1>0. /\ r \in CallRecords /\ Sane(r) /\ t \in Tab /\ k \in Flights /\ "e" \in Flights
        /\ call \in [Call -> CallRecords] /\ exchange' = exchange /\ exchange \in BOOLEAN
        /\ flight \in [Tab -> [Flights -> FlightRecords]]
    BY DEF CallsSane, Sane, FlightOf, Flights, RecordsSane, FlightsSane
  <1>1. /\ s \in CallRecords /\ s.kind = r.kind /\ s.tab = t /\ s.inter = r.inter /\ s.pc = "wait"
        /\ s.clean = r.clean
    BY <1>0 DEF At, CallRecords, Pcs
  <1>2. call' = [call EXCEPT ![c] = s]
    BY DEF Join
  <1>3. ~r.clean /\ Placed(s)
    BY <1>0, <1>1 DEF Sane, Placed
  <1>f. /\ f \in FlightRecords /\ f.st # "none" /\ f.st \notin {"clearToken", "clearEnvelope"}
        /\ Fits(k, f)
    <2>1. r.inter \in BOOLEAN
      BY <1>0 DEF CallRecords
    <2>2. f \in FlightRecords
      BY <2>1 DEF FlightRecords, RequestStates, RefreshStates
    <2>3. Fits(k, f)
      BY <1>0 DEF Fits, FlightOf, RequestStates, RefreshStates
    <2>4. QED
      BY <2>2, <2>3
  <1> HIDE DEF s, f
  <1>4. Sane(s)
    BY <1>0, <1>1, <1>3 DEF Sane
  <1>5. /\ FlightsSane'
        /\ \A u \in Tab, j \in Flights : flight'[u][j] = flight[u][j] \/ flight'[u][j] = f
        /\ flight'[t][k].st # "none"
    <2>1. CASE flight[t][k].st # "none"
      <3>1. flight' = flight
        BY <2>1 DEF Join
      <3>2. QED
        BY <1>0, <2>1, <3>1 DEF FlightsSane
    <2>2. CASE flight[t][k].st = "none"
      <3>1. Flies(t, k, f)
        BY <2>2 DEF Join, Flies, f
      <3>2. QED
        BY <1>0, <1>f, <3>1, FlightChange
    <2>3. QED
      BY <2>1, <2>2
  <1>6. Waited'
    <2> SUFFICES ASSUME NEW d \in Call, call'[d].pc = "wait"
                 PROVE  (flight[call[d].tab][FlightOf(call[d])].st # "none")'
      BY DEF Waited
    <2>1. CASE d = c
      <3>1. call'[d].tab = t /\ FlightOf(call[d])' = k
        BY <1>0, <1>1, <1>2, <2>1 DEF FlightOf
      <3>2. QED
        BY <1>5, <3>1
    <2>2. CASE d # c
      <3>1. call'[d] = call[d]
        BY <1>0, <1>2, <2>2
      <3>2. FlightOf(call[d])' = FlightOf(call[d]) /\ FlightOf(call[d]) \in Flights
        BY <1>0, <3>1 DEF FlightOf, Flights
      <3>3. call[d].tab \in Tab /\ flight[call[d].tab][FlightOf(call[d])].st # "none"
        BY <3>1 DEF CallsSane, Sane, Waited
      <3>4. QED
        BY <1>5, <1>f, <3>1, <3>2, <3>3
    <2>3. QED
      BY <2>1, <2>2
  <1>7. QED
    BY <1>0, <1>1, <1>2, <1>3, <1>4, <1>5, <1>6, <1>f

\* As Moves, but for the call that joins a flight.
Goes(r, s) ==
  /\ s \in CallRecords /\ Sane(s)
  /\ r.kind # "none" => s.kind = r.kind
  /\ r.pc = "settled" => s.pc = "settled"
  /\ exchange /\ Armed(s) => Armed(r)
  /\ Wiped(s) => Wiped(r)
  /\ s.clean => r.clean
  /\ s.pc = "rereading" <=> r.pc = "rereading"
  /\ s.pc = "rereading" => s.tab = r.tab

AllGo == call' \in [Call -> CallRecords] /\ \A d \in Call : Goes(call[d], call'[d])

\* The calls that move satisfy what is asked of all.
LEMMA MovesGo == AllMove => AllGo
  BY DEF AllMove, AllGo, Moves, Goes

\* One call becomes s.
Puts(c, s) == call' = [call EXCEPT ![c] = s]

\* The other calls stay as they are.
LEMMA PutCall ==
  ASSUME CallsSane, NEW c \in Call, NEW s \in CallRecords, Puts(c, s)
  PROVE  /\ call' \in [Call -> CallRecords] /\ call'[c] = s
         /\ \A d \in Call \ {c} : call'[d] = call[d]
  BY DEF CallsSane, Puts

\* A step that moves one call moves all in this sense.
LEMMA OneMoves ==
  ASSUME CallsSane, NEW c \in Call, NEW s, Moves(call[c], s), Puts(c, s)
  PROVE  AllMove
  <1>1. s \in CallRecords
    BY DEF Moves
  <1>2. QED
    BY <1>1, PutCall, StaysMoves DEF AllMove

\* A flight that stays in the air keeps the calls that wait for it.
LEMMA WaitedStays ==
  ASSUME FlightsSane, CallsSane, Waited, UNCHANGED <<exchange, flight>>,
         \A d \in Call : call'[d].pc = "wait" =>
           /\ call[d].pc = "wait" /\ call'[d].tab = call[d].tab /\ call'[d].inter = call[d].inter
  PROVE  FlightsSane' /\ Waited'
  <1>1. FlightsSane'
    BY DEF FlightsSane
  <1>2. Waited'
    BY DEF Waited, FlightOf
  <1>3. QED
    BY <1>1, <1>2

\* A call starts.
LEMMA StartGoes ==
  ASSUME RecordsSane, CallsSane, FlightsSane, Waited, NEW c \in Call, NEW t \in Tab,
         NEW kind \in Kinds, NEW inter \in BOOLEAN, Start(c, t, kind, inter)
  PROVE  AllGo /\ FlightsSane' /\ Waited'
  <1> DEFINE first == CASE kind = "connect" -> IF exchange THEN "load" ELSE "acquire"
                        [] kind = "disconnect" -> "getToken"
                        [] kind = "fetch" -> IF inter THEN "gate" ELSE "cached"
                        [] kind = "access" -> "cached"
                        [] kind = "warmUp" -> "getConn"
                        [] kind = "drop" -> "delete"
             s == [Idle EXCEPT !.kind = kind, !.tab = t, !.pc = first, !.inter = inter]
  <1>0. call \in [Call -> CallRecords] /\ exchange \in BOOLEAN /\ UNCHANGED <<exchange, flight>>
    BY DEF CallsSane, RecordsSane, Start
  <1>1. Puts(c, s)
    BY DEF Start, Puts
  <1>2. /\ first \in Pcs \ {"idle", "settled", "wait", "rereading", "clearToken", "clearEnvelope"}
        /\ kind = "connect" => first = IF exchange THEN "load" ELSE "acquire"
        /\ kind = "disconnect" => first = "getToken"
        /\ kind = "fetch" => first \in {"gate", "cached"}
        /\ kind = "access" => first = "cached"
        /\ kind = "warmUp" => first = "getConn"
        /\ kind = "drop" => first = "delete"
    BY DEF Kinds, Pcs
  <1> HIDE DEF first
  <1>3. Idle \in CallRecords /\ Idle.clean = FALSE
    BY DEF Idle, CallRecords, Pcs
  <1>4. /\ s \in CallRecords /\ s.kind = kind /\ s.pc = first /\ s.tab = t /\ s.inter = inter
        /\ ~s.clean
    BY <1>2, <1>3 DEF CallRecords
  <1>5. kind = "connect" => inter
    BY DEF Start
  <1>6. call[c].pc = "idle" /\ call[c].kind = "none"
    BY DEF Start, CallsSane, Sane, Placed
  <1> HIDE DEF s
  <1>7. Placed(s)
    BY <1>2, <1>4 DEF Placed, Kinds
  <1>8. Sane(s)
    BY <1>2, <1>4, <1>5, <1>7 DEF Sane
  <1>9. Goes(call[c], s) /\ s.pc # "wait"
    BY <1>2, <1>4, <1>6, <1>8 DEF Goes, Armed, Wiped
  <1>10. \A d \in Call : Goes(call[d], call[d])
    BY DEF CallsSane, Goes
  <1>11. AllGo
    BY <1>1, <1>4, <1>9, <1>10, PutCall DEF AllGo
  <1>12. FlightsSane' /\ Waited'
    BY <1>0, <1>1, <1>4, <1>9, PutCall, WaitedStays
  <1>13. QED
    BY <1>11, <1>12

\* A silent call takes the signal of another tab, and then the token stored.
LEMMA AcquireGoes ==
  ASSUME RecordsSane, CallsSane, FlightsSane, Waited, NEW c \in Call, Acquire(c) \/ Stored(c)
  PROVE  /\ AllGo /\ FlightsSane' /\ Waited'
         /\ \A u \in Tab : flight'[u]["e"].st \in {"clearToken", "clearEnvelope"} =>
                             flight[u]["e"].st \in {"clearToken", "clearEnvelope"}
  <1> DEFINE r == call[c]
  <1>0. /\ call \in [Call -> CallRecords] /\ r \in CallRecords /\ Sane(r) /\ UNCHANGED exchange
        /\ r.pc \in {"acquire", "stored"} /\ token \in Secrets \cup {None}
    BY DEF CallsSane, RecordsSane, Acquire, Stored
  <1>1. CASE Join(c)
    <2>1. \A d \in Call : Goes(call[d], call[d])
      BY DEF CallsSane, Goes
    <2>2. /\ call' \in [Call -> CallRecords] /\ Sane(call'[c])
          /\ call'[c].pc = "wait" /\ call'[c].kind = r.kind /\ ~call'[c].clean
          /\ \A d \in Call \ {c} : call'[d] = call[d]
      BY <1>0, <1>1, JoinKeeps
    <2>3. Goes(r, call'[c])
      BY <1>0, <2>2 DEF Goes, Armed, Wiped
    <2>4. AllGo
      BY <2>1, <2>2, <2>3 DEF AllGo
    <2>5. QED
      BY <1>0, <1>1, <2>4, JoinKeeps
  <1>2. ASSUME NEW s, Moves(r, s), Puts(c, s), s.pc # "wait", UNCHANGED flight
        PROVE  /\ AllGo /\ FlightsSane' /\ Waited'
               /\ \A u \in Tab : flight'[u]["e"].st \in {"clearToken", "clearEnvelope"} =>
                                   flight[u]["e"].st \in {"clearToken", "clearEnvelope"}
    <2>1. AllGo
      BY <1>2, OneMoves, MovesGo
    <2>2. s \in CallRecords
      BY <1>2 DEF Moves
    <2>3. FlightsSane' /\ Waited'
      BY <1>0, <1>2, <2>2, PutCall, WaitedStays
    <2>4. QED
      BY <1>2, <2>1, <2>3
  <1>3. CASE Acquire(c) /\ ~Join(c)
    <2> DEFINE s == At(r, "stored")
    <2>1. r.pc = "acquire" /\ ~exchange /\ ~r.inter /\ UNCHANGED flight /\ Puts(c, s)
      BY <1>0, <1>3 DEF Acquire, At, Puts
    <2>2. /\ s \in CallRecords /\ s.kind = r.kind /\ s.tab = r.tab /\ s.inter = r.inter
          /\ s.clean = r.clean /\ s.pc = "stored"
      BY <1>0 DEF At, CallRecords, Pcs
    <2> HIDE DEF s
    <2>3. Placed(s) /\ ~r.clean
      BY <1>0, <2>1, <2>2 DEF Placed, Sane
    <2>4. Moves(r, s)
      BY <1>0, <2>1, <2>2, <2>3, AtMoves DEF Armed, Wiped
    <2>5. QED
      BY <1>2, <2>1, <2>2, <2>4
  <1>4. CASE Stored(c) /\ ~Join(c)
    <2>1. /\ r.pc = "stored" /\ token # None /\ UNCHANGED flight
          /\ Puts(c, Holding(r, token.acct, FALSE))
      BY <1>0, <1>4 DEF Stored, Puts
    <2>2. token.acct \in Account /\ r.kind # "connect"
      BY <1>0, <2>1 DEF Secrets, Sane, Placed
    <2>3. Moves(r, Holding(r, token.acct, FALSE))
      BY <1>0, <2>1, <2>2, HoldingMoves
    <2>4. Holding(r, token.acct, FALSE).pc # "wait"
      BY <2>1, <2>3 DEF Moves
    <2>5. QED
      BY <1>2, <2>1, <2>3, <2>4
  <1>5. QED
    BY <1>1, <1>3, <1>4

\* The steps that leave the records of the other calls to themselves and end no wait for a read.
QuietStep ==
  \/ \E c \in Call, t \in Tab, kind \in Kinds, inter \in BOOLEAN : Start(c, t, kind, inter)
  \/ \E c \in Call : OwnStep(c) \/ Acquire(c) \/ Stored(c)
  \/ \E t \in Tab, k \in {"i", "s"} : RequestStep(t, k)
  \/ \E t \in Tab : RefreshStep(t)
  \/ \E t \in Tab : \E r \in reads[t] : ReadConn(t, r)
  \/ \E t \in Tab, msg \in {"token", "logout"} : Hear(t, msg)
  \/ Expire

\* The other steps.
LoudStep ==
  \/ \E c \in Call : SetEnvelope(c) \/ SetConn(c) \/ ClearConn(c)
  \/ \E c \in Call : ClearEnvelope(c) /\ call[c].kind = "disconnect"
  \/ \E t \in Tab : \E r \in reads[t] : CommitRead(t, r)
  \/ \E t \in Tab : Reload(t)

\* Every step is one of the two.
LEMMA StepKinds == Step => QuietStep \/ LoudStep
  <1>1. ASSUME NEW c \in Call, CallStep(c) \/ CodeAnswered(c)
        PROVE  QuietStep \/ LoudStep
    <2>1. \/ OwnStep(c) \/ Acquire(c) \/ Stored(c)
          \/ SetEnvelope(c) \/ SetConn(c) \/ ClearConn(c)
          \/ ClearEnvelope(c) /\ call[c].kind = "disconnect"
      BY <1>1 DEF CallStep, OwnStep
    <2>2. QED
      BY <2>1, Zenon DEF QuietStep, LoudStep
  <1>2. ASSUME NEW t \in Tab, FlightStep(t)
        PROVE  QuietStep
    BY <1>2 DEF FlightStep, QuietStep, RequestStep, RefreshStep
  <1>3. ASSUME NEW t \in Tab, ReadStep(t)
        PROVE  QuietStep \/ LoudStep
    BY <1>3 DEF ReadStep, QuietStep, LoudStep
  <1>4. ASSUME NEW t \in Tab, NEW k \in {"i", "s"}, GisCallback(t, k) \/ GisErrorCallback(t, k)
        PROVE  QuietStep
    BY <1>4 DEF QuietStep, RequestStep
  <1>5. QED
    BY <1>1, <1>2, <1>3, <1>4 DEF Step, QuietStep, LoudStep

\* The first leave every call, every flight, and those who wait for one in order.
LEMMA QuietMoves ==
  ASSUME RecordsSane, CallsSane, FlightsSane, Waited, QuietStep
  PROVE  AllGo /\ FlightsSane' /\ Waited'
  <1>1. ASSUME UNCHANGED <<exchange, call, flight>>
        PROVE  AllGo /\ FlightsSane' /\ Waited'
    <2>1. AllGo
      BY <1>1 DEF CallsSane, AllGo, Goes
    <2>2. QED
      BY <1>1, <2>1, WaitedStays
  <1>2. ASSUME NEW c \in Call, OwnStep(c)
        PROVE  AllGo /\ FlightsSane' /\ Waited'
    <2>1. PICK s : Moves(call[c], s) /\ Puts(c, s)
      BY <1>2, OwnMoves DEF Puts
    <2>2. AllMove
      BY <2>1, OneMoves
    <2>3. UNCHANGED <<exchange, flight>>
      BY <1>2 DEF OwnStep, Cached, Gate, GetConn, Send, DropToken, Email, WarmedUp, CodeClient,
                  CodeAnswered, CodeTimeout, PostCode, SetToken, Revoke, ClearToken, ClearEnvelope,
                  DeleteDatabase
    <2>4. FlightsSane' /\ Waited'
      BY <2>2, <2>3, WaitedStays DEF AllMove, Moves
    <2>5. QED
      BY <2>2, <2>4, MovesGo
  <1>3. ASSUME NEW t \in Tab, (\E r \in reads[t] : ReadConn(t, r)) \/ (\E msg \in {"token", "logout"} : Hear(t, msg))
        PROVE  UNCHANGED <<exchange, call, flight>>
    BY <1>3 DEF ReadConn, Hear
  <1>4. Expire => UNCHANGED <<exchange, call, flight>>
    BY DEF Expire
  <1>5. ASSUME NEW c \in Call, Acquire(c) \/ Stored(c)
        PROVE  AllGo /\ FlightsSane' /\ Waited'
    BY <1>5, AcquireGoes
  <1>6. ASSUME NEW t \in Tab, NEW k \in {"i", "s"}, RequestStep(t, k)
        PROVE  AllGo /\ FlightsSane' /\ Waited'
    BY <1>6, RequestMoves, MovesGo
  <1>7. ASSUME NEW t \in Tab, RefreshStep(t)
        PROVE  AllGo /\ FlightsSane' /\ Waited'
    BY <1>7, RefreshMoves, MovesGo
  <1>8. ASSUME NEW c \in Call, NEW t \in Tab, NEW kind \in Kinds, NEW inter \in BOOLEAN,
               Start(c, t, kind, inter)
        PROVE  AllGo /\ FlightsSane' /\ Waited'
    BY <1>8, StartGoes
  <1>9. QED
    BY <1>1, <1>2, <1>3, <1>4, <1>5, <1>6, <1>7, <1>8 DEF QuietStep

-----------------------------------------------------------------------------
(* The steps that matter                                                   *)

\* connect() stores the envelope.
LEMMA SetEnvelopeCalls ==
  ASSUME CallsSane, FlightsSane, Waited, NEW c \in Call, SetEnvelope(c)
  PROVE  /\ call' \in [Call -> CallRecords] /\ CallsSane' /\ FlightsSane' /\ Waited'
         /\ call[c].kind = "connect" /\ call[c].pc = "setEnvelope" /\ exchange
         /\ call'[c].kind = "connect" /\ call'[c].pc = "setToken" /\ ~call'[c].clean
         /\ \A d \in Call \ {c} : call'[d] = call[d]
  <1> DEFINE r == call[c]
             s == [r EXCEPT !.pc = "setToken"]
  <1>0. /\ call \in [Call -> CallRecords] /\ r \in CallRecords /\ Sane(r)
        /\ r.pc = "setEnvelope" /\ UNCHANGED <<exchange, flight>>
    BY DEF CallsSane, SetEnvelope
  <1>1. /\ r.kind = "connect" /\ exchange /\ ~r.clean /\ r.tab \in Tab /\ r.inter /\ r.shown
        /\ r.acct \in Account
    BY <1>0 DEF Sane, Placed
  <1>2. Puts(c, s)
    BY <1>0 DEF SetEnvelope, Puts
  <1>3. /\ s \in CallRecords /\ s.kind = "connect" /\ s.pc = "setToken" /\ s.tab = r.tab
        /\ s.inter = r.inter /\ s.shown = r.shown /\ s.acct = r.acct /\ s.clean = r.clean
    BY <1>0, <1>1 DEF CallRecords, Pcs
  <1> HIDE DEF s
  <1>4. Sane(s)
    BY <1>1, <1>3 DEF Sane, Placed
  <1>5. /\ call' \in [Call -> CallRecords] /\ call'[c] = s
        /\ \A d \in Call \ {c} : call'[d] = call[d]
    BY <1>2, <1>3, PutCall
  <1>6. CallsSane'
    <2>1. ASSUME NEW d \in Call
          PROVE  Sane(call[d])'
      BY <1>0, <1>4, <1>5 DEF CallsSane, Sane, Placed
    <2>2. QED
      BY <1>5, <2>1 DEF CallsSane
  <1>7. FlightsSane' /\ Waited'
    BY <1>0, <1>3, <1>5, WaitedStays
  <1>8. QED
    BY <1>0, <1>1, <1>3, <1>5, <1>6, <1>7

\* A call removes the connection.
LEMMA ClearConnCalls ==
  ASSUME CallsSane, FlightsSane, Waited, NEW c \in Call, ClearConn(c)
  PROVE  /\ call' \in [Call -> CallRecords] /\ CallsSane' /\ FlightsSane' /\ Waited'
         /\ call[c].pc = "clearConn"
         /\ call'[c].kind = call[c].kind /\ call'[c].pc = "clearToken"
         /\ \A d \in Call \ {c} : call'[d] = call[d]
  <1> DEFINE r == call[c]
             s == [r EXCEPT !.pc = "clearToken", !.clean = TRUE]
  <1>0. /\ call \in [Call -> CallRecords] /\ r \in CallRecords /\ Sane(r)
        /\ r.pc = "clearConn" /\ UNCHANGED <<exchange, flight>>
    BY DEF CallsSane, ClearConn
  <1>1. /\ r.kind = "disconnect" \/ (r.kind = "connect" /\ exchange /\ r.inter)
        /\ r.tab \in Tab
    BY <1>0 DEF Sane, Placed
  <1>2. Puts(c, s)
    BY <1>0 DEF ClearConn, Puts
  <1>3. /\ s \in CallRecords /\ s.kind = r.kind /\ s.pc = "clearToken" /\ s.tab = r.tab
        /\ s.inter = r.inter
    BY <1>0, <1>1 DEF CallRecords, Pcs
  <1> HIDE DEF s
  <1>4. Sane(s)
    BY <1>1, <1>3 DEF Sane, Placed
  <1>5. /\ call' \in [Call -> CallRecords] /\ call'[c] = s
        /\ \A d \in Call \ {c} : call'[d] = call[d]
    BY <1>2, <1>3, PutCall
  <1>6. CallsSane'
    <2>1. ASSUME NEW d \in Call
          PROVE  Sane(call[d])'
      BY <1>0, <1>4, <1>5 DEF CallsSane, Sane, Placed
    <2>2. QED
      BY <1>5, <2>1 DEF CallsSane
  <1>7. FlightsSane' /\ Waited'
    BY <1>0, <1>3, <1>5, WaitedStays
  <1>8. QED
    BY <1>0, <1>1, <1>3, <1>5, <1>6, <1>7

\* disconnect() announces the logout and waits for its read.
LEMMA LogoutCalls ==
  ASSUME CallsSane, FlightsSane, Waited, NEW c \in Call, ClearEnvelope(c), call[c].kind = "disconnect"
  PROVE  /\ call' \in [Call -> CallRecords] /\ CallsSane' /\ FlightsSane' /\ Waited'
         /\ call[c].pc = "clearEnvelope" /\ call[c].tab \in Tab
         /\ call'[c].kind = "disconnect" /\ call'[c].pc = "rereading"
         /\ call'[c].tab = call[c].tab /\ call'[c].clean = call[c].clean
         /\ \A d \in Call \ {c} : call'[d] = call[d]
  <1> DEFINE r == call[c]
             s == [r EXCEPT !.pc = "rereading"]
  <1>0. /\ call \in [Call -> CallRecords] /\ r \in CallRecords /\ Sane(r)
        /\ r.pc = "clearEnvelope" /\ UNCHANGED <<exchange, flight>>
    BY DEF CallsSane, ClearEnvelope
  <1>1. r.tab \in Tab
    BY <1>0 DEF Sane, Placed
  <1>2. Puts(c, s)
    BY <1>0 DEF ClearEnvelope, Puts
  <1>3. /\ s \in CallRecords /\ s.kind = "disconnect" /\ s.pc = "rereading" /\ s.tab = r.tab
        /\ s.inter = r.inter /\ s.clean = r.clean
    BY <1>0, <1>1 DEF CallRecords, Pcs
  <1> HIDE DEF s
  <1>4. Sane(s)
    BY <1>1, <1>3 DEF Sane, Placed
  <1>5. /\ call' \in [Call -> CallRecords] /\ call'[c] = s
        /\ \A d \in Call \ {c} : call'[d] = call[d]
    BY <1>2, <1>3, PutCall
  <1>6. CallsSane'
    <2>1. ASSUME NEW d \in Call
          PROVE  Sane(call[d])'
      BY <1>0, <1>4, <1>5 DEF CallsSane, Sane, Placed
    <2>2. QED
      BY <1>5, <2>1 DEF CallsSane
  <1>7. FlightsSane' /\ Waited'
    BY <1>0, <1>3, <1>5, WaitedStays
  <1>8. QED
    BY <1>0, <1>1, <1>3, <1>5, <1>6, <1>7

\* connect() stores the connection and waits for its read.
LEMMA SetConnCalls ==
  ASSUME CallsSane, FlightsSane, Waited, NEW c \in Call, SetConn(c)
  PROVE  /\ call' \in [Call -> CallRecords] /\ CallsSane' /\ FlightsSane' /\ Waited'
         /\ call[c].pc = "setConn" /\ call[c].kind = "connect" /\ call[c].tab \in Tab
         /\ call'[c].kind = "connect" /\ call'[c].pc = "rereading"
         /\ call'[c].tab = call[c].tab
         /\ \A d \in Call : ~call'[d].clean
         /\ \A d \in Call \ {c} : /\ call'[d].kind = call[d].kind /\ call'[d].pc = call[d].pc
                                  /\ call'[d].tab = call[d].tab
  <1> DEFINE r == call[c]
             s == At(r, "rereading")
  <1>0. /\ call \in [Call -> CallRecords] /\ r \in CallRecords /\ Sane(r)
        /\ r.pc = "setConn" /\ UNCHANGED <<exchange, flight>>
    BY DEF CallsSane, SetConn
  <1>1. r.tab \in Tab /\ r.kind = "connect" /\ r.inter /\ ~r.clean
    BY <1>0 DEF Sane, Placed
  <1>2. \A d \in Call : call'[d] = IF d = c THEN s ELSE [call[d] EXCEPT !.clean = FALSE]
    BY DEF SetConn
  <1>3. /\ s \in CallRecords /\ s.kind = "connect" /\ s.pc = "rereading" /\ s.tab = r.tab
        /\ s.inter = r.inter /\ s.clean = r.clean
    BY <1>0, <1>1 DEF At, CallRecords, Pcs
  <1> HIDE DEF s
  <1>4. Sane(s)
    BY <1>0, <1>1, <1>3 DEF Sane, Placed
  <1>5. ASSUME NEW d \in Call \ {c}
        PROVE  /\ call'[d] \in CallRecords /\ call'[d].kind = call[d].kind
               /\ call'[d].pc = call[d].pc /\ call'[d].tab = call[d].tab
               /\ call'[d].inter = call[d].inter /\ call'[d].shown = call[d].shown
               /\ call'[d].acct = call[d].acct /\ ~call'[d].clean
    <2>1. call'[d] = [call[d] EXCEPT !.clean = FALSE] /\ call[d] \in CallRecords
      BY <1>0, <1>2
    <2>2. QED
      BY <2>1 DEF CallRecords
  <1>6. call' \in [Call -> CallRecords]
    <2>1. \A d \in Call : call'[d] \in CallRecords
      BY <1>2, <1>3, <1>5
    <2>2. QED
      BY <2>1 DEF SetConn
  <1>7. CallsSane'
    <2>1. ASSUME NEW d \in Call \ {c}
          PROVE  Sane(call[d])'
      <3>1. Sane(call[d])
        BY DEF CallsSane
      <3>2. QED
        BY <1>0, <1>5, <3>1 DEF Sane, Placed
    <2>2. Sane(call[c])'
      BY <1>0, <1>2, <1>4 DEF Sane, Placed
    <2>3. QED
      BY <1>6, <2>1, <2>2 DEF CallsSane
  <1>8. FlightsSane' /\ Waited'
    BY <1>0, <1>2, <1>3, <1>5, WaitedStays
  <1>9. QED
    BY <1>0, <1>1, <1>2, <1>3, <1>5, <1>6, <1>7, <1>8

\* A call that has waited for a read settles.
LEMMA CommitCalls ==
  ASSUME CallsSane, FlightsSane, Waited, ReadsSane, NEW t \in Tab, NEW r \in reads[t],
         CommitRead(t, r)
  PROVE  /\ call' \in [Call -> CallRecords] /\ CallsSane' /\ FlightsSane' /\ Waited'
         /\ r.for \in Call => /\ call[r.for].pc = "rereading" /\ call[r.for].tab = t
                              /\ call'[r.for].kind = call[r.for].kind
                              /\ call'[r.for].pc = "settled" /\ ~call'[r.for].clean
         /\ r.for \notin Call => r.for = None
         /\ \A d \in Call : d # r.for => call'[d] = call[d]
  <1>0. /\ call \in [Call -> CallRecords] /\ UNCHANGED <<exchange, flight>>
        /\ r \in ReadRecords
    BY DEF CallsSane, CommitRead, ReadsSane
  <1>1. CASE r.for \notin Call
    <2>1. r.for = None
      BY <1>0, <1>1 DEF ReadRecords
    <2>2. call' = call
      BY <2>1 DEF CommitRead
    <2>3. CallsSane'
      BY <1>0, <2>2 DEF CallsSane, Sane, Placed
    <2>4. FlightsSane' /\ Waited'
      BY <1>0, <2>2, WaitedStays
    <2>5. QED
      BY <1>0, <1>1, <2>1, <2>2, <2>3, <2>4
  <1>2. CASE r.for \in Call
    <2> DEFINE c == r.for
               s == Ended(call[c])
    <2>1. call[c].pc = "rereading" /\ call[c].tab = t /\ c # None
      BY <1>2, Assumed DEF ReadsSane
    <2>2. Puts(c, s)
      BY <2>1 DEF CommitRead, Puts
    <2>3. call[c] \in CallRecords /\ Sane(call[c]) /\ call[c].kind # "none"
      BY <1>2, <2>1 DEF CallsSane, Sane, Placed
    <2>4. Idle \in CallRecords /\ Idle.clean = FALSE
      BY DEF Idle, CallRecords, Pcs
    <2>5. s \in CallRecords /\ s.kind = call[c].kind /\ s.pc = "settled" /\ ~s.clean
      BY <2>3, <2>4 DEF Ended, CallRecords, Pcs
    <2> HIDE DEF s
    <2>6. Sane(s)
      BY <2>3, <2>5 DEF Sane, Placed
    <2>7. /\ call' \in [Call -> CallRecords] /\ call'[c] = s
          /\ \A d \in Call \ {c} : call'[d] = call[d]
      BY <1>2, <2>2, <2>5, PutCall
    <2>8. CallsSane'
      <3>1. ASSUME NEW d \in Call
            PROVE  Sane(call[d])'
        BY <1>0, <2>6, <2>7 DEF CallsSane, Sane, Placed
      <3>2. QED
        BY <2>7, <3>1 DEF CallsSane
    <2>9. FlightsSane' /\ Waited'
      BY <1>0, <2>5, <2>7, WaitedStays
    <2>10. QED
      BY <1>2, <2>1, <2>5, <2>7, <2>8, <2>9
  <1>3. QED
    BY <1>1, <1>2

\* The page of a tab goes away with its calls and flights.
LEMMA ReloadCalls ==
  ASSUME RecordsSane, CallsSane, FlightsSane, Waited, NEW t \in Tab, Reload(t)
  PROVE  /\ call' \in [Call -> CallRecords] /\ CallsSane' /\ FlightsSane' /\ Waited'
         /\ \A d \in Call : call[d].tab = t =>
              call'[d].kind = call[d].kind /\ call'[d].pc = "settled" /\ ~call'[d].clean
         /\ \A d \in Call : call[d].tab # t => call'[d] = call[d]
         /\ flight'[t]["e"] = Landed /\ \A u \in Tab \ {t} : flight'[u] = flight[u]
  <1>0. /\ call \in [Call -> CallRecords] /\ exchange' = exchange
        /\ flight \in [Tab -> [Flights -> FlightRecords]]
        /\ \A d \in Call : call'[d] = IF call[d].tab = t THEN Ended(call[d]) ELSE call[d]
        /\ flight' = [flight EXCEPT ![t] = [k \in Flights |-> Landed]]
    BY DEF CallsSane, FlightsSane, Reload
  <1>1. ASSUME NEW d \in Call, call[d].tab = t
        PROVE  /\ call'[d] \in CallRecords /\ Sane(call'[d]) /\ call'[d].kind = call[d].kind
               /\ call'[d].pc = "settled" /\ ~call'[d].clean
    <2> DEFINE s == Ended(call[d])
    <2>1. call[d] \in CallRecords /\ Sane(call[d]) /\ t # None
      BY Assumed DEF CallsSane
    <2>2. call[d].kind # "none"
      BY <1>1, <2>1 DEF CallsSane, Sane, Placed
    <2>3. Idle \in CallRecords /\ Idle.clean = FALSE
      BY DEF Idle, CallRecords, Pcs
    <2>4. s \in CallRecords /\ s.kind = call[d].kind /\ s.pc = "settled" /\ ~s.clean
      BY <2>1, <2>3 DEF Ended, CallRecords, Pcs
    <2>5. call'[d] = s
      BY <1>0, <1>1
    <2> HIDE DEF s
    <2>6. Sane(s)
      BY <2>2, <2>4 DEF Sane, Placed
    <2>7. QED
      BY <2>4, <2>5, <2>6
  <1>2. \A d \in Call : call[d].tab # t => call'[d] = call[d]
    BY <1>0
  <1>3. call' \in [Call -> CallRecords]
    <2>1. \A d \in Call : call'[d] \in CallRecords
      BY <1>0, <1>1, <1>2
    <2>2. QED
      BY <2>1 DEF Reload
  <1>4. CallsSane'
    <2>1. ASSUME NEW d \in Call
          PROVE  Sane(call[d])'
      <3>1. Sane(call[d]) /\ Sane(call'[d])
        BY <1>1, <1>2 DEF CallsSane
      <3>2. QED
        BY <1>0, <3>1 DEF Sane, Placed
    <2>2. QED
      BY <1>3, <2>1 DEF CallsSane
  <1>5. /\ \A k \in Flights : flight'[t][k] = Landed
        /\ \A u \in Tab \ {t} : flight'[u] = flight[u]
        /\ flight' \in [Tab -> [Flights -> FlightRecords]]
    BY <1>0, LandedType
  <1>6. FlightsSane'
    <2>1. ASSUME NEW u \in Tab, NEW j \in {"i", "s"}
          PROVE  /\ flight'[u][j].st \in RequestStates
                 /\ flight'[u][j].st = "persist" => flight'[u][j].acct \in Account
      BY <1>5, LandedType DEF FlightsSane, Flights, RequestStates
    <2>2. ASSUME NEW u \in Tab
          PROVE  /\ flight'[u]["i"].st # "none" => flight'[u]["i"].shown
                 /\ flight'[u]["e"].st \in RefreshStates
                 /\ flight'[u]["e"].st \in {"post", "setEnvelope", "setToken"} =>
                      flight'[u]["e"].acct \in Account
                 /\ ~exchange => flight'[u]["e"] = Landed
      BY <1>5, LandedType DEF FlightsSane, Flights, RefreshStates
    <2>3. QED
      BY <1>0, <1>5, <2>1, <2>2 DEF FlightsSane
  <1>7. Waited'
    <2> SUFFICES ASSUME NEW d \in Call, call'[d].pc = "wait"
                 PROVE  (flight[call[d].tab][FlightOf(call[d])].st # "none")'
      BY DEF Waited
    <2>1. call[d].tab # t /\ call'[d] = call[d]
      BY <1>1, <1>2
    <2>2. FlightOf(call[d])' = FlightOf(call[d]) /\ call[d].tab \in Tab
      BY <1>0, <2>1 DEF FlightOf, CallsSane, Sane
    <2>3. QED
      BY <1>5, <2>1, <2>2 DEF Waited
  <1>8. QED
    BY <1>1, <1>2, <1>3, <1>4, <1>5, <1>6, <1>7 DEF Flights

-----------------------------------------------------------------------------
(* The types                                                               *)

\* A Google account is stored only with the records of a call or a flight that has one.
LEMMA SecretType ==
  ASSUME NEW a \in Account, NEW f \in BOOLEAN
  PROVE  Secret(a, f) \in Secrets
  BY DEF Secret, Secrets

\* A record is written with an account, and an envelope only where there is an exchange.
LEMMA StepRecords ==
  ASSUME TypeIInv, Step
  PROVE  RecordsSane' /\ exchange' = exchange
  <1> USE DEF records, TypeIInv
  <1>0. RecordsSane /\ CallsSane /\ FlightsSane /\ Waited
    OBVIOUS
  <1>1. CASE UNCHANGED <<exchange, records>>
    BY <1>0, <1>1 DEF RecordsSane
  <1>2. ASSUME NEW c \in Call, SetEnvelope(c) \/ SetToken(c) \/ SetConn(c)
        PROVE  RecordsSane' /\ exchange' = exchange
    <2>1. /\ call[c].acct \in Account
          /\ SetEnvelope(c) \/ SetToken(c) => exchange
      BY <1>0, <1>2 DEF SetEnvelope, SetToken, SetConn, CallsSane, Sane, Placed
    <2>2. QED
      BY <1>0, <1>2, <2>1, SecretType DEF SetEnvelope, SetToken, SetConn, RecordsSane
  <1>3. ASSUME NEW c \in Call,
               DropToken(c) \/ ClearConn(c) \/ ClearToken(c) \/ ClearEnvelope(c) \/ DeleteDatabase(c)
        PROVE  RecordsSane' /\ exchange' = exchange
    BY <1>0, <1>3 DEF DropToken, ClearConn, ClearToken, ClearEnvelope, DeleteDatabase, RecordsSane
  <1>4. ASSUME NEW t \in Tab, NEW k \in {"i", "s"}, PersistToken(t, k)
        PROVE  RecordsSane' /\ exchange' = exchange
    <2>1. flight[t][k].acct \in Account
      BY <1>0, <1>4 DEF PersistToken, FlightsSane
    <2>2. QED
      BY <1>0, <1>4, <2>1, SecretType DEF PersistToken, RecordsSane
  <1>5. ASSUME NEW t \in Tab, RefreshStep(t)
        PROVE  RecordsSane' /\ exchange' = exchange
    <2>1. /\ exchange /\ (StoreEnvelope(t) => flight[t]["e"].acct \in Account)
          /\ StoreEnvelopeToken(t) => flight[t]["e"].acct \in Account
      BY <1>0, <1>5, RefreshMoves
    <2>2. QED
      BY <1>0, <1>5, <2>1, SecretType
         DEF RefreshStep, ReadEnvelope, PostEnvelope, StoreEnvelope, StoreEnvelopeToken, WipeConn,
             WipeToken, WipeEnvelope, RecordsSane
  <1>6. CASE Expire
    <2>1. ASSUME NEW s \in Secrets PROVE [s EXCEPT !.fresh = FALSE] \in Secrets
      BY DEF Secrets
    <2>2. token' \in Secrets \cup {None} /\ envelope' \in Secrets \cup {None}
          /\ (envelope = None => envelope' = None) /\ UNCHANGED <<exchange, conn>>
      BY <1>0, <1>6, <2>1 DEF Expire, RecordsSane
    <2>3. QED
      BY <1>0, <2>2 DEF RecordsSane
  <1>7. ASSUME NEW c \in Call, CallStep(c) \/ CodeAnswered(c)
        PROVE  RecordsSane' /\ exchange' = exchange
    <2>1. \/ UNCHANGED <<exchange, records>>
          \/ SetEnvelope(c) \/ SetToken(c) \/ SetConn(c)
          \/ DropToken(c) \/ ClearConn(c) \/ ClearToken(c) \/ ClearEnvelope(c) \/ DeleteDatabase(c)
      BY <1>7 DEF CallStep, Cached, Gate, GetConn, Acquire, Stored, Send, Email, WarmedUp, CodeClient,
                  CodeAnswered, CodeTimeout, PostCode, Revoke
    <2>2. QED
      BY <1>1, <1>2, <1>3, <2>1
  <1>8. ASSUME NEW t \in Tab, NEW k \in {"i", "s"}, RequestStep(t, k)
        PROVE  RecordsSane' /\ exchange' = exchange
    <2>1. UNCHANGED <<exchange, records>> \/ PersistToken(t, k)
      BY <1>8 DEF RequestStep, TokenClient, GisCallback, GisErrorCallback, GisTimeout
    <2>2. QED
      BY <1>1, <1>4, <2>1
  <1>9. ASSUME \/ \E c \in Call, t \in Tab, kind \in Kinds, inter \in BOOLEAN : Start(c, t, kind, inter)
               \/ \E t \in Tab : ReadStep(t) \/ Reload(t)
               \/ \E t \in Tab, msg \in {"token", "logout"} : Hear(t, msg)
        PROVE  UNCHANGED <<exchange, records>>
    BY <1>9 DEF Start, ReadStep, ReadConn, CommitRead, Reload, Hear
  <1>10. QED
    BY <1>1, <1>5, <1>6, <1>7, <1>8, <1>9 DEF Step, FlightStep, RequestStep, RefreshStep

\* Every step leaves calls and flights in order.
LEMMA StepCalls ==
  ASSUME TypeIInv, Step
  PROVE  CallsSane' /\ FlightsSane' /\ Waited' /\ (QuietStep => AllGo)
  <1> USE DEF TypeIInv
  <1>1. CASE QuietStep
    <2>1. AllGo /\ FlightsSane' /\ Waited' /\ exchange' = exchange
      BY <1>1, QuietMoves, StepRecords
    <2>2. CallsSane'
      <3>1. ASSUME NEW d \in Call
            PROVE  Sane(call[d])'
        <4>1. Sane(call'[d])
          BY <2>1 DEF AllGo, Goes
        <4>2. QED
          BY <2>1, <4>1 DEF Sane, Placed
      <3>2. QED
        BY <2>1, <3>1 DEF CallsSane, AllGo
    <2>3. QED
      BY <2>1, <2>2
  <1>2. CASE LoudStep /\ ~QuietStep
    <2>1. ASSUME NEW c \in Call, SetEnvelope(c) \/ SetConn(c) \/ ClearConn(c)
          PROVE  CallsSane' /\ FlightsSane' /\ Waited'
      BY <2>1, SetEnvelopeCalls, SetConnCalls, ClearConnCalls
    <2>2. ASSUME NEW c \in Call, ClearEnvelope(c), call[c].kind = "disconnect"
          PROVE  CallsSane' /\ FlightsSane' /\ Waited'
      BY <2>2, LogoutCalls
    <2>3. ASSUME NEW t \in Tab, NEW r \in reads[t], CommitRead(t, r)
          PROVE  CallsSane' /\ FlightsSane' /\ Waited'
      BY <2>3, CommitCalls
    <2>4. ASSUME NEW t \in Tab, Reload(t)
          PROVE  CallsSane' /\ FlightsSane' /\ Waited'
      BY <2>4, ReloadCalls
    <2>5. QED
      BY <1>2, <2>1, <2>2, <2>3, <2>4 DEF LoudStep
  <1>3. QED
    BY <1>1, <1>2, StepKinds

\* The calls that wait for a read go on waiting for it.
ReadersStay ==
  /\ \A d \in Call : call[d].pc = "rereading" =>
       call'[d].pc = "rereading" /\ call'[d].tab = call[d].tab /\ call'[d].kind = call[d].kind
  /\ Announced \subseteq Announced'

\* The steps that leave the other calls alone end no wait.
LEMMA MovesReaders == CallsSane /\ AllGo => ReadersStay
  <1> SUFFICES ASSUME CallsSane, AllGo PROVE ReadersStay
    OBVIOUS
  <1>1. ASSUME NEW d \in Call, call[d].pc = "rereading"
        PROVE  call'[d].pc = "rereading" /\ call'[d].tab = call[d].tab
    BY <1>1 DEF AllGo, Goes
  <1>2. ASSUME NEW d \in Call, call[d].pc = "rereading" \/ call[d].kind = "disconnect"
        PROVE  call'[d].kind = call[d].kind
    <2>1. call[d].kind # "none"
      BY <1>2 DEF CallsSane, Sane, Placed
    <2>2. QED
      BY <2>1 DEF AllGo, Goes
  <1>3. ASSUME NEW d \in Announced
        PROVE  d \in Announced'
    <2>1. d \in Call /\ call[d].kind = "disconnect" /\ call[d].pc \in {"rereading", "settled"}
      BY DEF Announced
    <2>2. call'[d].pc \in {"rereading", "settled"} /\ call'[d].kind = "disconnect"
      BY <1>1, <1>2, <2>1 DEF AllGo, Goes
    <2>3. QED
      BY <2>1, <2>2 DEF Announced
  <1>4. QED
    BY <1>1, <1>2, <1>3 DEF ReadersStay

\* There are finitely many calls.
LEMMA CallFinite == IsFiniteSet(Call)
  BY Assumed, FS_Interval DEF Call

\* The disconnect()s that have announced a logout are counted.
LEMMA AnnouncedGrow ==
  ASSUME Announced \subseteq Announced'
  PROVE  /\ Cardinality(Announced) \in Nat /\ Cardinality(Announced') \in Nat
         /\ Cardinality(Announced) <= Cardinality(Announced')
         /\ Announced # Announced' => Cardinality(Announced) < Cardinality(Announced')
  <1>1. Announced' \subseteq Call /\ Announced \subseteq Call
    BY DEF Announced
  <1>2. IsFiniteSet(Announced') /\ IsFiniteSet(Announced)
    BY <1>1, CallFinite, FS_Subset
  <1>3. QED
    BY <1>2, FS_Subset, FS_CardinalityType

\* The reads stay as they are.
LEMMA ReadsStay ==
  ASSUME ReadsSane, ReadersStay, UNCHANGED <<generation, reads, snapshot>>, signedOut' \subseteq Tab
  PROVE  ReadsSane'
  <1>1. \A t \in Tab : generation'[t] <= Cardinality(Announced')
    BY AnnouncedGrow DEF ReadsSane, ReadersStay
  <1>2. ASSUME NEW t \in Tab, NEW r \in reads'[t]
        PROVE  /\ r.gen <= generation'[t]
               /\ r.for \in Call => /\ call'[r.for].pc = "rereading" /\ call'[r.for].tab = t
                                    /\ \A s \in reads'[t] : s.for = r.for => s = r
    BY DEF ReadsSane, ReadersStay
  <1>3. QED
    BY <1>1, <1>2 DEF ReadsSane

\* A read that starts carries the generation of its tab.
LEMMA ReReadType ==
  ASSUME RecordsSane, ReadsSane, NEW t \in Tab, NEW for \in Call \cup {None}
  PROVE  /\ ReRead(t, for) \in ReadRecords /\ ReRead(t, for).for = for
         /\ ReRead(t, for).gen = generation[t]
         /\ ReRead(t, for).val = IF for = None THEN conn ELSE Unread
  BY DEF RecordsSane, ReadsSane, ReRead, ReadRecords

\* A read starts, which a call may wait for from now on.
LEMMA ReadStarts ==
  ASSUME ReadsSane, ReadersStay, UNCHANGED <<generation, snapshot>>, signedOut' \subseteq Tab,
         NEW t \in Tab, NEW q \in ReadRecords, reads' = [reads EXCEPT ![t] = @ \cup {q}],
         q.gen = generation[t],
         q.for \in Call => /\ call[q.for].pc # "rereading"
                           /\ call'[q.for].pc = "rereading" /\ call'[q.for].tab = t
  PROVE  ReadsSane'
  <1>0. reads \in [Tab -> SUBSET ReadRecords] /\ generation \in [Tab -> Nat]
    BY DEF ReadsSane
  <1>1. \A u \in Tab : generation'[u] <= Cardinality(Announced')
    BY AnnouncedGrow DEF ReadsSane, ReadersStay
  <1>2. /\ reads'[t] = reads[t] \cup {q} /\ \A u \in Tab \ {t} : reads'[u] = reads[u]
        /\ reads' \in [Tab -> SUBSET ReadRecords]
    BY <1>0
  <1>3. ASSUME NEW u \in Tab, NEW r \in reads[u], r.for \in Call
        PROVE  /\ call'[r.for].pc = "rereading" /\ call'[r.for].tab = u /\ r.for # q.for
               /\ \A s \in reads[u] : s.for = r.for => s = r
    BY <1>3 DEF ReadsSane, ReadersStay
  <1>4. ASSUME NEW u \in Tab, NEW r \in reads'[u]
        PROVE  /\ r.gen <= generation'[u]
               /\ r.for \in Call => /\ call'[r.for].pc = "rereading" /\ call'[r.for].tab = u
                                    /\ \A s \in reads'[u] : s.for = r.for => s = r
    <2>1. CASE r \in reads[u]
      <3>1. r.gen <= generation'[u]
        BY <2>1 DEF ReadsSane
      <3>2. QED
        BY <1>2, <1>3, <2>1, <3>1
    <2>2. CASE r \notin reads[u]
      <3>1. u = t /\ r = q
        BY <1>2, <2>2
      <3>2. r.gen <= generation'[u]
        BY <1>0, <3>1
      <3>3. QED
        BY <1>2, <1>3, <3>1, <3>2
    <2>3. QED
      BY <2>1, <2>2
  <1>5. QED
    BY <1>0, <1>1, <1>2, <1>4 DEF ReadsSane

\* What the steps that leave the other calls alone do to the snapshots and the connection.
LEMMA QuietEffects ==
  ASSUME TypeIInv, QuietStep
  PROVE  /\ UNCHANGED <<generation, snapshot, signedOut>> /\ conn' \in {conn, None}
         /\ \/ UNCHANGED reads
            \/ \E t \in Tab : reads' = [reads EXCEPT ![t] = @ \cup {ReRead(t, None)}]
            \/ \E t \in Tab : \E r \in reads[t] : ReadConn(t, r)
  <1> DEFINE Goal == /\ UNCHANGED <<generation, snapshot, signedOut>> /\ conn' \in {conn, None}
                     /\ \/ UNCHANGED reads
                        \/ \E t \in Tab : reads' = [reads EXCEPT ![t] = @ \cup {ReRead(t, None)}]
                        \/ \E t \in Tab : \E r \in reads[t] : ReadConn(t, r)
  <1> USE DEF TypeIInv
  <1>1. ASSUME NEW c \in Call, WarmedUp(c)
        PROVE  Goal
    <2>1. call[c].tab \in Tab
      BY <1>1 DEF WarmedUp, CallsSane, Sane
    <2>2. QED
      BY <1>1, <2>1 DEF WarmedUp, records, history
  <1>2. ASSUME NEW t \in Tab, NEW msg \in {"token", "logout"}, Hear(t, msg)
        PROVE  Goal
    BY <1>2 DEF Hear, records, history
  <1>3. ASSUME NEW c \in Call, OwnStep(c) \/ Acquire(c) \/ Stored(c)
        PROVE  Goal
    <2>1. WarmedUp(c) \/ (UNCHANGED <<generation, reads, snapshot, signedOut>> /\ conn' \in {conn, None})
      BY <1>3 DEF OwnStep, Cached, Gate, GetConn, Send, DropToken, Email, CodeClient, Acquire, Stored,
                  CodeAnswered, CodeTimeout, PostCode, SetToken, Revoke, ClearToken, ClearEnvelope,
                  DeleteDatabase, records, tabVars, history
    <2>2. QED
      BY <1>1, <2>1
  <1>4. ASSUME NEW t \in Tab, RefreshStep(t) \/ (\E k \in {"i", "s"} : RequestStep(t, k))
        PROVE  UNCHANGED <<generation, reads, snapshot, signedOut>> /\ conn' \in {conn, None}
    BY <1>4 DEF RequestStep, TokenClient, GisCallback, GisErrorCallback, GisTimeout, PersistToken,
                RefreshStep, ReadEnvelope, PostEnvelope, StoreEnvelope, StoreEnvelopeToken, WipeConn,
                WipeToken, WipeEnvelope, records, tabVars, history
  <1>5. ASSUME Expire \/ \E c \in Call, t \in Tab, kind \in Kinds, inter \in BOOLEAN : Start(c, t, kind, inter)
        PROVE  UNCHANGED <<generation, reads, snapshot, signedOut>> /\ conn' \in {conn, None}
    BY <1>5 DEF Expire, Start, records, tabVars, history
  <1>6. ASSUME NEW t \in Tab, NEW r \in reads[t], ReadConn(t, r)
        PROVE  Goal
    BY <1>6 DEF ReadConn, records, history
  <1>7. Goal
    BY <1>2, <1>3, <1>4, <1>5, <1>6 DEF QuietStep
  <1>8. QED
    BY <1>7

\* The steps that read the connection and those that leave the reads alone.
LEMMA QuietReads ==
  ASSUME TypeIInv, Step, QuietStep
  PROVE  ReadsSane'
  <1> USE DEF TypeIInv
  <1>0. /\ ReadersStay /\ reads \in [Tab -> SUBSET ReadRecords] /\ generation \in [Tab -> Nat]
        /\ signedOut \subseteq Tab /\ None \notin Call
    BY StepCalls, MovesReaders, Assumed DEF ReadsSane
  <1>1. CASE UNCHANGED <<generation, reads, snapshot, signedOut>>
    BY <1>0, <1>1, ReadsStay
  <1>2. ASSUME NEW t \in Tab, UNCHANGED <<generation, snapshot, signedOut>>,
               reads' = [reads EXCEPT ![t] = @ \cup {ReRead(t, None)}]
        PROVE  ReadsSane'
    <2> DEFINE q == ReRead(t, None)
    <2>1. q \in ReadRecords /\ q.gen = generation[t] /\ q.for = None
      BY ReReadType
    <2>2. reads' = [reads EXCEPT ![t] = @ \cup {q}]
      BY <1>2
    <2> HIDE DEF q
    <2>3. signedOut' \subseteq Tab
      BY <1>0, <1>2
    <2>4. QED
      BY <1>0, <1>2, <2>1, <2>2, <2>3, ReadStarts
  <1>3. ASSUME NEW t \in Tab, NEW r \in reads[t], ReadConn(t, r)
        PROVE  ReadsSane'
    <2> DEFINE q == [r EXCEPT !.val = conn]
    <2>1. r \in ReadRecords
      BY <1>0
    <2>2. q \in ReadRecords /\ q.gen = r.gen /\ q.for = r.for
      BY <2>1 DEF ReadRecords, RecordsSane
    <2>3. /\ reads' = [reads EXCEPT ![t] = (@ \ {r}) \cup {q}]
          /\ UNCHANGED <<generation, snapshot, call, signedOut>>
      BY <1>3 DEF ReadConn, history
    <2> HIDE DEF q
    <2>4. /\ reads'[t] = (reads[t] \ {r}) \cup {q} /\ \A u \in Tab \ {t} : reads'[u] = reads[u]
          /\ reads' \in [Tab -> SUBSET ReadRecords]
      BY <1>0, <2>2, <2>3
    <2>5. ASSUME NEW u \in Tab, NEW p \in reads'[u]
          PROVE  /\ p.gen <= generation[u]
                 /\ p.for \in Call => /\ call[p.for].pc = "rereading" /\ call[p.for].tab = u
                                      /\ \A o \in reads'[u] : o.for = p.for => o = p
      <3>1. CASE u # t
        <4>1. reads'[u] = reads[u]
          BY <2>4, <3>1
        <4>2. QED
          BY <4>1 DEF ReadsSane
      <3>2. CASE u = t /\ p = q
        <4>1. /\ p.gen <= generation[u]
              /\ p.for \in Call => call[p.for].pc = "rereading" /\ call[p.for].tab = u
          BY <2>2, <3>2 DEF ReadsSane
        <4>2. ASSUME p.for \in Call, NEW o \in reads'[u], o.for = p.for
              PROVE  o = p
          BY <2>2, <2>4, <3>2, <4>2 DEF ReadsSane
        <4>3. QED
          BY <4>1, <4>2
      <3>3. CASE u = t /\ p \in reads[t] /\ p # r
        <4>1. /\ p.gen <= generation[u]
              /\ p.for \in Call => call[p.for].pc = "rereading" /\ call[p.for].tab = u
          BY <3>3 DEF ReadsSane
        <4>2. ASSUME p.for \in Call, NEW o \in reads'[u], o.for = p.for
              PROVE  o = p
          <5>1. o = q \/ o \in reads[t]
            BY <2>4, <3>3, <4>2
          <5>2. r.for # p.for
            BY <3>3, <4>2 DEF ReadsSane
          <5>3. QED
            BY <2>2, <3>3, <4>2, <5>1, <5>2 DEF ReadsSane
        <4>3. QED
          BY <4>1, <4>2
      <3>4. QED
        BY <2>4, <3>1, <3>2, <3>3
    <2>6. \A u \in Tab : generation'[u] <= Cardinality(Announced')
      BY <1>0, <2>3, AnnouncedGrow DEF ReadsSane, ReadersStay
    <2>7. QED
      BY <2>3, <2>4, <2>5, <2>6 DEF ReadsSane
  <1>4. QED
    BY <1>1, <1>2, <1>3, QuietEffects

\* The read of a logout is newer than every other of its tab.
LEMMA LogoutReads ==
  ASSUME TypeIInv, NEW c \in Call, ClearEnvelope(c), call[c].kind = "disconnect"
  PROVE  /\ ReadsSane' /\ call[c].tab \in Tab
         /\ UNCHANGED <<snapshot, signedOut>>
         /\ \E q : /\ q \in ReadRecords /\ q.for = c /\ q.val = Unread
                   /\ q.gen = generation'[call[c].tab]
                   /\ reads'[call[c].tab] = reads[call[c].tab] \cup {q}
                   /\ generation'[call[c].tab] = generation[call[c].tab] + 1
         /\ \A u \in Tab : u # call[c].tab => reads'[u] = reads[u] /\ generation'[u] = generation[u]
  <1> USE DEF TypeIInv
  <1> DEFINE t == call[c].tab
             q == [ReRead(t, c) EXCEPT !.gen = generation'[t]]
  <1>0. /\ reads \in [Tab -> SUBSET ReadRecords] /\ generation \in [Tab -> Nat] /\ t \in Tab
        /\ UNCHANGED <<snapshot, signedOut>> /\ snapshot \in [Tab -> Account \cup {None}]
        /\ signedOut \subseteq Tab
    BY LogoutCalls DEF ReadsSane, ClearEnvelope, history
  <1>c. /\ call[c].pc = "clearEnvelope"
        /\ call'[c].kind = "disconnect" /\ call'[c].pc = "rereading" /\ call'[c].tab = t
        /\ \A d \in Call \ {c} : call'[d] = call[d]
    BY LogoutCalls
  <1>1. /\ generation' = [generation EXCEPT ![t] = @ + 1]
        /\ reads' = [reads EXCEPT ![t] = @ \cup {q}]
    BY DEF ClearEnvelope, InvalidateReads
  <1>2. /\ generation'[t] = generation[t] + 1 /\ generation' \in [Tab -> Nat]
        /\ \A u \in Tab : u # t => generation'[u] = generation[u]
    BY <1>0, <1>1
  <1>3. q \in ReadRecords /\ q.for = c /\ q.val = Unread /\ q.gen = generation'[t]
    <2>1. c # None
      BY Assumed
    <2>2. /\ ReRead(t, c) \in ReadRecords /\ ReRead(t, c).for = c /\ ReRead(t, c).val = Unread
      BY <1>0, <2>1, ReReadType
    <2>3. QED
      BY <1>0, <1>2, <2>2 DEF ReadRecords
  <1> HIDE DEF q
  <1>4. /\ reads'[t] = reads[t] \cup {q} /\ \A u \in Tab : u # t => reads'[u] = reads[u]
        /\ reads' \in [Tab -> SUBSET ReadRecords]
    BY <1>0, <1>1, <1>3
  <1>5. Announced \subseteq Announced' /\ c \in Announced' /\ c \notin Announced
    BY <1>c DEF Announced
  <1>6. /\ Cardinality(Announced) \in Nat /\ Cardinality(Announced') \in Nat
        /\ Cardinality(Announced) < Cardinality(Announced')
    BY <1>5, AnnouncedGrow
  <1>7. \A u \in Tab : generation'[u] <= Cardinality(Announced')
    <2>1. \A u \in Tab : generation[u] <= Cardinality(Announced) /\ generation[u] \in Nat
      BY <1>0 DEF ReadsSane
    <2>2. \A u \in Tab : generation'[u] = generation[u] \/ generation'[u] = generation[u] + 1
      BY <1>2
    <2> HIDE DEF t
    <2>3. QED
      BY <1>6, <2>1, <2>2
  <1>8. ASSUME NEW u \in Tab, NEW r \in reads'[u]
        PROVE  /\ r.gen <= generation'[u]
               /\ r.for \in Call => /\ call'[r.for].pc = "rereading" /\ call'[r.for].tab = u
                                    /\ \A s \in reads'[u] : s.for = r.for => s = r
    <2>1. CASE r \in reads[u]
      <3>1. r.gen <= generation[u] /\ r \in ReadRecords
        BY <1>0, <2>1 DEF ReadsSane
      <3>2. r.gen <= generation'[u]
        <4>1. r.gen \in Nat /\ generation[u] \in Nat
          BY <1>0, <3>1 DEF ReadRecords
        <4>2. generation'[u] = generation[u] \/ generation'[u] = generation[u] + 1
          BY <1>2
        <4>3. QED
          BY <3>1, <4>1, <4>2
      <3>3. r.for \in Call => r.for # c /\ call[r.for].pc = "rereading" /\ call[r.for].tab = u
        BY <1>c, <2>1 DEF ReadsSane
      <3>4. ASSUME r.for \in Call, NEW s \in reads'[u], s.for = r.for
            PROVE  s = r
        BY <1>3, <1>4, <2>1, <3>3, <3>4 DEF ReadsSane
      <3>5. QED
        BY <1>c, <3>2, <3>3, <3>4
    <2>2. CASE r \notin reads[u]
      <3>1. u = t /\ r = q
        BY <1>4, <2>2
      <3>2. r.gen <= generation'[u]
        BY <1>2, <1>3, <3>1
      <3>3. ASSUME NEW s \in reads[t]
            PROVE  s.for # c
        BY <1>0, <1>c DEF ReadsSane
      <3>4. QED
        BY <1>c, <1>3, <1>4, <3>1, <3>2, <3>3
    <2>3. QED
      BY <2>1, <2>2
  <1>9. ReadsSane'
    BY <1>0, <1>2, <1>4, <1>7, <1>8 DEF ReadsSane
  <1>10. QED
    BY <1>0, <1>2, <1>3, <1>4, <1>9

\* A read commits.
LEMMA CommitReads ==
  ASSUME TypeIInv, NEW t \in Tab, NEW r \in reads[t], CommitRead(t, r)
  PROVE  ReadsSane'
  <1> USE DEF TypeIInv
  <1>0. /\ reads \in [Tab -> SUBSET ReadRecords] /\ generation' = generation
        /\ r \in ReadRecords /\ r.val # Unread /\ snapshot \in [Tab -> Account \cup {None}]
        /\ signedOut \subseteq Tab
    BY DEF ReadsSane, CommitRead
  <1>c. /\ r.for \in Call => /\ call[r.for].pc = "rereading" /\ call[r.for].tab = t
                             /\ call'[r.for].kind = call[r.for].kind
                             /\ call'[r.for].pc = "settled"
        /\ \A d \in Call : d # r.for => call'[d] = call[d]
    BY CommitCalls
  <1>1. /\ reads'[t] = reads[t] \ {r} /\ \A u \in Tab : u # t => reads'[u] = reads[u]
        /\ reads' \in [Tab -> SUBSET ReadRecords]
    BY <1>0 DEF CommitRead
  <1>2. Announced \subseteq Announced'
    BY <1>c DEF Announced
  <1>3. \A u \in Tab : generation'[u] <= Cardinality(Announced')
    BY <1>0, <1>2, AnnouncedGrow DEF ReadsSane
  <1>4. ASSUME NEW u \in Tab, NEW p \in reads'[u]
        PROVE  /\ p.gen <= generation'[u]
               /\ p.for \in Call => /\ call'[p.for].pc = "rereading" /\ call'[p.for].tab = u
                                    /\ \A s \in reads'[u] : s.for = p.for => s = p
    <2>1. p \in reads[u] /\ reads'[u] \subseteq reads[u]
      BY <1>1
    <2>2. /\ p.gen <= generation[u]
          /\ p.for \in Call => /\ call[p.for].pc = "rereading" /\ call[p.for].tab = u
                               /\ \A s \in reads[u] : s.for = p.for => s = p
      BY <2>1 DEF ReadsSane
    <2>3. ASSUME p.for \in Call PROVE p.for # r.for
      <3> SUFFICES ASSUME p.for = r.for PROVE FALSE
        OBVIOUS
      <3>1. u = t
        BY <1>c, <2>2, <2>3
      <3>2. p = r
        BY <2>2, <2>3, <3>1
      <3>3. QED
        BY <1>1, <3>1, <3>2
    <2>4. QED
      BY <1>0, <1>c, <2>1, <2>2, <2>3
  <1>5. snapshot' \in [Tab -> Account \cup {None}] /\ signedOut' \subseteq Tab
    <2>1. r.val \in Account \cup {None}
      BY <1>0 DEF ReadRecords
    <2>2. snapshot' = IF r.gen = generation[t] THEN [snapshot EXCEPT ![t] = r.val] ELSE snapshot
      BY DEF CommitRead
    <2>3. signedOut' = signedOut \/ signedOut' = signedOut \cup {t}
      BY DEF CommitRead
    <2>4. QED
      BY <1>0, <2>1, <2>2, <2>3
  <1>6. QED
    BY <1>0, <1>1, <1>3, <1>4, <1>5 DEF ReadsSane

\* A new page reads the connection.
LEMMA ReloadReads ==
  ASSUME TypeIInv, NEW t \in Tab, Reload(t)
  PROVE  ReadsSane'
  <1> USE DEF TypeIInv
  <1> DEFINE q == [gen |-> 0, val |-> conn, for |-> None]
  <1>0. /\ reads \in [Tab -> SUBSET ReadRecords] /\ generation \in [Tab -> Nat]
        /\ snapshot \in [Tab -> Account \cup {None}] /\ signedOut \subseteq Tab
        /\ reads' = [reads EXCEPT ![t] = {q}] /\ generation' = [generation EXCEPT ![t] = 0]
        /\ snapshot' = [snapshot EXCEPT ![t] = None] /\ signedOut' = signedOut \ {t}
    BY DEF ReadsSane, Reload
  <1>1. q \in ReadRecords /\ q.gen = 0 /\ q.for = None /\ None \notin Call
    BY Assumed DEF ReadRecords, RecordsSane
  <1> HIDE DEF q
  <1>2. /\ reads'[t] = {q} /\ \A u \in Tab : u # t => reads'[u] = reads[u]
        /\ reads' \in [Tab -> SUBSET ReadRecords]
    BY <1>0, <1>1
  <1>3. /\ generation'[t] = 0 /\ generation' \in [Tab -> Nat]
        /\ \A u \in Tab : u # t => generation'[u] = generation[u]
    BY <1>0
  <1>4. Announced \subseteq Announced'
    BY ReloadCalls DEF Announced
  <1>5. \A u \in Tab : generation'[u] <= Cardinality(Announced')
    <2>1. /\ Cardinality(Announced) \in Nat /\ Cardinality(Announced') \in Nat
          /\ Cardinality(Announced) <= Cardinality(Announced')
      BY <1>4, AnnouncedGrow
    <2>2. \A u \in Tab : generation[u] <= Cardinality(Announced) /\ generation[u] \in Nat
      BY <1>0 DEF ReadsSane
    <2>3. QED
      BY <1>3, <2>1, <2>2
  <1>6. ASSUME NEW u \in Tab, NEW p \in reads'[u]
        PROVE  /\ p.gen <= generation'[u]
               /\ p.for \in Call => /\ call'[p.for].pc = "rereading" /\ call'[p.for].tab = u
                                    /\ \A s \in reads'[u] : s.for = p.for => s = p
    <2>1. CASE u = t
      BY <1>1, <1>2, <1>3, <2>1
    <2>2. CASE u # t
      <3>1. p \in reads[u] /\ reads'[u] = reads[u] /\ generation'[u] = generation[u]
        BY <1>2, <1>3, <2>2
      <3>2. /\ p.gen <= generation[u]
            /\ p.for \in Call => /\ call[p.for].pc = "rereading" /\ call[p.for].tab = u
                                 /\ \A s \in reads[u] : s.for = p.for => s = p
        BY <3>1 DEF ReadsSane
      <3>3. p.for \in Call => call'[p.for] = call[p.for]
        BY <2>2, <3>2, ReloadCalls
      <3>4. QED
        BY <3>1, <3>2, <3>3
    <2>3. QED
      BY <2>1, <2>2
  <1>7. snapshot' \in [Tab -> Account \cup {None}] /\ signedOut' \subseteq Tab
    BY <1>0
  <1>8. QED
    BY <1>2, <1>3, <1>5, <1>6, <1>7 DEF ReadsSane

\* Every step leaves the types, and the ways of calls, flights and reads.
LEMMA StepTypes ==
  ASSUME TypeIInv, Step
  PROVE  TypeIInv'
  <1>0. RecordsSane' /\ CallsSane' /\ FlightsSane' /\ Waited'
    BY StepRecords, StepCalls
  <1> SUFFICES ReadsSane'
    BY <1>0 DEF TypeIInv
  <1> USE DEF TypeIInv
  <1>1. ASSUME NEW c \in Call, SetEnvelope(c) \/ ClearConn(c)
        PROVE  ReadsSane'
    <2>1. /\ \A d \in Call \ {c} : call'[d] = call[d]
          /\ call[c].pc \notin {"rereading", "settled"}
      BY <1>1, SetEnvelopeCalls, ClearConnCalls
    <2>2. ReadersStay
      BY <2>1 DEF ReadersStay, Announced
    <2>3. UNCHANGED <<generation, reads, snapshot, signedOut>>
      BY <1>1 DEF SetEnvelope, ClearConn, tabVars, history
    <2>4. signedOut' \subseteq Tab
      BY <2>3 DEF ReadsSane
    <2>5. QED
      BY <2>2, <2>3, <2>4, ReadsStay
  <1>2. ASSUME NEW c \in Call, SetConn(c)
        PROVE  ReadsSane'
    <2> DEFINE t == call[c].tab
               q == ReRead(t, c)
    <2>1. /\ \A d \in Call \ {c} : /\ call'[d].kind = call[d].kind /\ call'[d].pc = call[d].pc
                                   /\ call'[d].tab = call[d].tab
          /\ call[c].pc = "setConn" /\ t \in Tab
          /\ call'[c].pc = "rereading" /\ call'[c].tab = t
      BY <1>2, SetConnCalls
    <2>2. ReadersStay
      BY <2>1 DEF ReadersStay, Announced
    <2>3. q \in ReadRecords /\ q.gen = generation[t] /\ q.for = c
      BY <2>1, ReReadType
    <2>4. /\ reads' = [reads EXCEPT ![t] = @ \cup {q}] /\ UNCHANGED <<generation, snapshot>>
          /\ signedOut' \subseteq Tab
      BY <1>2 DEF SetConn
    <2> HIDE DEF q
    <2>5. QED
      BY <2>1, <2>2, <2>3, <2>4, ReadStarts
  <1>3. QED
    BY <1>1, <1>2, StepKinds, QuietReads, LogoutReads, CommitReads, ReloadReads DEF LoudStep

\* So does a step in which nothing happens.
LEMMA StutterTypes == TypeIInv /\ UNCHANGED vars => TypeIInv'
  <1> SUFFICES ASSUME TypeIInv, UNCHANGED vars PROVE TypeIInv'
    OBVIOUS
  <1>1. UNCHANGED <<exchange, conn, token, envelope, snapshot, generation, reads, flight, call, signedOut>>
    BY DEF vars, records, tabVars, history
  <1>2. RecordsSane' /\ FlightsSane' /\ Waited'
    BY <1>1 DEF TypeIInv, RecordsSane, FlightsSane, Waited, FlightOf
  <1>3. CallsSane'
    BY <1>1 DEF TypeIInv, CallsSane, Sane, Placed
  <1>4. Announced' = Announced
    BY <1>1 DEF Announced
  <1>5. ReadsSane'
    BY <1>1, <1>4 DEF TypeIInv, ReadsSane
  <1>6. QED
    BY <1>2, <1>3, <1>5 DEF TypeIInv

-----------------------------------------------------------------------------
(* Whoever finds a connection finds the envelope                           *)

\* What a step does to the connects under way and to the wipes.
NoneArms == \A c \in Call : Armed(call'[c]) => Armed(call[c])
NoneWipes ==
  /\ \A c \in Call : Wiped(call'[c]) => Wiped(call[c])
  /\ \A t \in Tab : flight'[t]["e"].st \in {"clearToken", "clearEnvelope"} =>
                      flight[t]["e"].st \in {"clearToken", "clearEnvelope"}

\* The steps that leave the other calls alone arm no connect() and begin no wipe.
LEMMA GoArms == AllGo /\ exchange => NoneArms /\ \A c \in Call : Wiped(call'[c]) => Wiped(call[c])
  BY DEF AllGo, Goes, NoneArms

\* A connect() that is armed is one that connects.
LEMMA ArmedConnects == \A c \in Call : Armed(call[c]) => Connecting
  BY DEF Armed, Connecting

\* A call or a flight that has removed the connection is one that wipes.
LEMMA WipedWipes ==
  /\ \A c \in Call : Wiped(call[c]) => Wiping
  /\ \A t \in Tab : flight[t]["e"].st \in {"clearToken", "clearEnvelope"} => Wiping
  BY DEF Wiped, Wiping

\* A step keeps the two when it leaves both records, when it removes the connection, and when it
\* removes both in a wipe.
Leaves == conn' = conn /\ (envelope # None => envelope' # None) /\ NoneArms /\ NoneWipes
Removes == conn' = None /\ (envelope # None => envelope' # None) /\ NoneArms
Wipes == conn' = None /\ Wiping /\ NoneArms

Backing ==
  /\ ~(Connecting /\ Wiping)
  /\ conn # None => envelope # None
  /\ \A c \in Call : Armed(call[c]) => envelope # None
  /\ \A c \in Call : Wiped(call[c]) => conn = None
  /\ \A t \in Tab : flight[t]["e"].st \in {"clearToken", "clearEnvelope"} => conn = None

\* Each of the three is enough.
LEMMA BackingStays ==
  ASSUME Backing, ~(Connecting' /\ Wiping'), Leaves \/ Removes \/ Wipes
  PROVE  Backing'
  <1>1. conn' # None => envelope' # None
    BY DEF Backing, Leaves, Removes, Wipes
  <1>2. \A c \in Call : Armed(call'[c]) => envelope' # None
    <2>1. CASE Leaves \/ Removes
      BY <2>1 DEF Backing, Leaves, Removes, NoneArms
    <2>2. CASE Wipes
      <3>1. \A c \in Call : ~Armed(call[c])
        BY <2>2, ArmedConnects DEF Backing, Wipes
      <3>2. QED
        BY <2>2, <3>1 DEF Wipes, NoneArms
    <2>3. QED
      BY <2>1, <2>2
  <1>3. \A c \in Call : Wiped(call'[c]) => conn' = None
    BY DEF Backing, Leaves, Removes, Wipes, NoneWipes
  <1>4. \A t \in Tab : flight'[t]["e"].st \in {"clearToken", "clearEnvelope"} => conn' = None
    BY DEF Backing, Leaves, Removes, Wipes, NoneWipes
  <1>5. (\A c \in Call : Armed(call[c]) => envelope # None)'
    BY <1>2 DEF Armed
  <1>6. (\A c \in Call : Wiped(call[c]) => conn = None)'
    BY <1>3 DEF Wiped
  <1>7. QED
    BY <1>1, <1>4, <1>5, <1>6 DEF Backing

\* What keeps the records in the steps that leave the other calls alone.
LEMMA QuietBacks ==
  ASSUME TypeIInv, Step, QuietStep, exchange, Backing
  PROVE  Leaves \/ Removes \/ Wipes
  <1> USE DEF TypeIInv
  <1>0. NoneArms /\ \A c \in Call : Wiped(call'[c]) => Wiped(call[c])
    BY StepCalls, GoArms
  <1>1. ASSUME conn' = conn, envelope # None => envelope' # None,
               \A t \in Tab : flight'[t]["e"].st \in {"clearToken", "clearEnvelope"} =>
                                flight[t]["e"].st \in {"clearToken", "clearEnvelope"}
        PROVE  Leaves
    BY <1>0, <1>1 DEF Leaves, NoneWipes
  <1>2. ASSUME NEW c \in Call, OwnStep(c)
        PROVE  Leaves \/ Removes \/ Wipes
    <2>1. CASE ClearEnvelope(c) \/ DeleteDatabase(c)
      <3>1. Wiping /\ (ClearEnvelope(c) => Wiped(call[c]))
        BY <2>1 DEF ClearEnvelope, DeleteDatabase, Wiping, Wiped
      <3>2. conn' = None
        BY <2>1, <3>1 DEF ClearEnvelope, DeleteDatabase, Backing
      <3>3. QED
        BY <1>0, <3>1, <3>2 DEF Wipes
    <2>2. CASE ~(ClearEnvelope(c) \/ DeleteDatabase(c))
      <3>1. UNCHANGED <<conn, envelope, flight>>
        BY <1>2, <2>2
           DEF OwnStep, Cached, Gate, GetConn, Send, DropToken, Email, WarmedUp, CodeClient,
               CodeAnswered, CodeTimeout, PostCode, SetToken, Revoke, ClearToken, records
      <3>2. QED
        BY <1>1, <3>1
    <2>3. QED
      BY <2>1, <2>2
  <1>3. ASSUME NEW c \in Call, Acquire(c) \/ Stored(c)
        PROVE  Leaves
    <2>1. UNCHANGED <<conn, envelope>>
      BY <1>3 DEF Acquire, Stored, records
    <2>2. QED
      BY <1>1, <1>3, <2>1, AcquireGoes
  <1>4. ASSUME NEW t \in Tab, NEW k \in {"i", "s"}, RequestStep(t, k)
        PROVE  Leaves
    <2>1. UNCHANGED <<conn, envelope>>
      BY <1>4 DEF RequestStep, TokenClient, GisCallback, GisErrorCallback, GisTimeout, PersistToken,
                  records
    <2>2. QED
      BY <1>1, <1>4, <2>1, RequestMoves
  <1>5. ASSUME NEW t \in Tab, RefreshStep(t)
        PROVE  Leaves \/ Removes \/ Wipes
    <2>0. /\ \A u \in Tab \ {t} : flight'[u]["e"] = flight[u]["e"]
          /\ flight'[t]["e"].st \in {"clearToken", "clearEnvelope"} =>
               WipeConn(t) \/ flight[t]["e"].st \in {"clearToken", "clearEnvelope"}
          /\ StoreEnvelope(t) => flight[t]["e"].acct \in Account
      BY <1>5, RefreshMoves
    <2>1. CASE WipeConn(t)
      BY <1>0, <2>1 DEF WipeConn, Removes
    <2>2. CASE WipeEnvelope(t)
      <3>1. Wiping /\ conn' = None
        BY <2>2 DEF WipeEnvelope, Wiping, Backing
      <3>2. QED
        BY <1>0, <3>1 DEF Wipes
    <2>3. CASE StoreEnvelope(t) /\ ~WipeConn(t)
      <3>1. conn' = conn /\ envelope' # None
        <4>1. Secret(flight[t]["e"].acct, TRUE) \in Secrets
          BY <2>0, <2>3, SecretType
        <4>2. QED
          BY <2>3, <4>1, Assumed DEF StoreEnvelope
      <3>2. QED
        BY <1>1, <2>0, <2>3, <3>1
    <2>4. CASE ~(WipeConn(t) \/ WipeEnvelope(t) \/ StoreEnvelope(t))
      <3>1. UNCHANGED <<conn, envelope>>
        BY <1>5, <2>4
           DEF RefreshStep, ReadEnvelope, PostEnvelope, StoreEnvelopeToken, WipeToken, records
      <3>2. QED
        BY <1>1, <2>0, <2>4, <3>1
    <2>5. QED
      BY <2>1, <2>2, <2>3, <2>4
  <1>6. CASE Expire
    <2>1. envelope # None => envelope' # None
      <3>1. ASSUME NEW s \in Secrets PROVE [s EXCEPT !.fresh = FALSE] \in Secrets
        BY DEF Secrets
      <3>2. QED
        BY <1>6, <3>1, Assumed DEF Expire, RecordsSane
    <2>2. QED
      BY <1>1, <1>6, <2>1 DEF Expire
  <1>7. ASSUME \/ \E c \in Call, t \in Tab, kind \in Kinds, inter \in BOOLEAN : Start(c, t, kind, inter)
               \/ \E t \in Tab : \E r \in reads[t] : ReadConn(t, r)
               \/ \E t \in Tab, msg \in {"token", "logout"} : Hear(t, msg)
        PROVE  UNCHANGED <<conn, envelope, flight>>
    BY <1>7 DEF Start, ReadConn, Hear, records
  <1>8. QED
    BY <1>1, <1>2, <1>3, <1>4, <1>5, <1>6, <1>7 DEF QuietStep

\* Every step that does not let a connect() overlap a wipe keeps the envelope with the connection.
LEMMA StepBacks ==
  ASSUME TypeIInv, Step, Backed, overlapped' = (overlapped \/ (Connecting' /\ Wiping'))
  PROVE  Backed'
  <1> USE DEF TypeIInv
  <1> SUFFICES ASSUME exchange', ~overlapped' PROVE Backing'
    BY DEF Backed, Backing
  <1>0. /\ exchange /\ Backing /\ ~(Connecting' /\ Wiping')
    <2>1. exchange' = exchange
      BY StepRecords
    <2>2. ~overlapped /\ ~(Connecting' /\ Wiping')
      BY Zenon
    <2>3. QED
      BY <2>1, <2>2 DEF Backed, Backing
  <1>1. CASE QuietStep
    BY <1>0, <1>1, QuietBacks, BackingStays
  <1>2. ASSUME NEW c \in Call, SetEnvelope(c)
        PROVE  Backing'
    <2>1. conn' = conn /\ UNCHANGED flight /\ envelope' # None
      <3>1. call[c].acct \in Account
        BY <1>2 DEF SetEnvelope, CallsSane, Sane, Placed
      <3>2. QED
        BY <1>2, <3>1, SecretType, Assumed DEF SetEnvelope
    <2>2. \A d \in Call : Wiped(call'[d]) => Wiped(call[d])
      BY <1>2, SetEnvelopeCalls DEF Wiped
    <2>3. /\ \A d \in Call : Wiped(call'[d]) => conn' = None
          /\ \A t \in Tab : flight'[t]["e"].st \in {"clearToken", "clearEnvelope"} => conn' = None
      BY <1>0, <2>1, <2>2 DEF Backing
    <2>4. (\A d \in Call : Wiped(call[d]) => conn = None)'
      BY <2>3 DEF Wiped
    <2>5. QED
      BY <1>0, <2>1, <2>3, <2>4 DEF Backing
  <1>3. ASSUME NEW c \in Call, SetConn(c)
        PROVE  Backing'
    <2>1. UNCHANGED <<envelope, flight>>
      BY <1>3 DEF SetConn
    <2>2. /\ call[c].pc = "setConn" /\ call[c].kind = "connect" /\ call'[c].pc = "rereading"
          /\ \A d \in Call \ {c} : call'[d].pc = call[d].pc
      BY <1>3, SetConnCalls
    <2>3. Connecting /\ Armed(call[c])
      BY <2>2 DEF Connecting, Armed
    <2>4. envelope' # None /\ ~Wiping
      BY <1>0, <2>1, <2>3 DEF Backing
    <2>5. /\ \A d \in Call : ~Wiped(call'[d])
          /\ \A t \in Tab : flight'[t]["e"].st \notin {"clearToken", "clearEnvelope"}
      BY <2>1, <2>2, <2>4, WipedWipes DEF Wiped
    <2>6. (\A d \in Call : Wiped(call[d]) => conn = None)'
      BY <2>5 DEF Wiped
    <2>7. QED
      BY <1>0, <2>4, <2>5, <2>6 DEF Backing
  <1>4. ASSUME NEW c \in Call, ClearConn(c)
        PROVE  Backing'
    <2>1. NoneArms
      BY <1>4, ClearConnCalls DEF NoneArms, Armed
    <2>2. Removes
      BY <1>4, <2>1 DEF ClearConn, Removes
    <2>3. QED
      BY <1>0, <2>2, BackingStays
  <1>5. ASSUME NEW c \in Call, ClearEnvelope(c), call[c].kind = "disconnect"
        PROVE  Backing'
    <2>1. NoneArms /\ call[c].pc = "clearEnvelope"
      BY <1>5, LogoutCalls DEF NoneArms, Armed
    <2>2. Wiping /\ Wiped(call[c])
      BY <2>1 DEF Wiping, Wiped
    <2>3. Wipes
      BY <1>0, <1>5, <2>1, <2>2 DEF Wipes, ClearEnvelope, Backing
    <2>4. QED
      BY <1>0, <2>3, BackingStays
  <1>6. ASSUME NEW t \in Tab, NEW r \in reads[t], CommitRead(t, r)
        PROVE  Backing'
    <2>1. UNCHANGED <<conn, envelope, flight>>
      BY <1>6 DEF CommitRead, records
    <2>2. \A d \in Call : call'[d] = call[d] \/ call'[d].pc = "settled"
      BY <1>6, CommitCalls
    <2>3. Leaves
      BY <2>1, <2>2 DEF Leaves, NoneArms, NoneWipes, Armed, Wiped
    <2>4. QED
      BY <1>0, <2>3, BackingStays
  <1>7. ASSUME NEW t \in Tab, Reload(t)
        PROVE  Backing'
    <2>1. UNCHANGED <<conn, envelope>>
      BY <1>7 DEF Reload, records
    <2>2. \A d \in Call : call'[d] = call[d] \/ call'[d].pc = "settled"
      BY <1>7, ReloadCalls
    <2>3. \A u \in Tab : flight'[u]["e"] = flight[u]["e"] \/ flight'[u]["e"].st = "none"
      BY <1>7, ReloadCalls, LandedType
    <2>4. Leaves
      BY <2>1, <2>2, <2>3 DEF Leaves, NoneArms, NoneWipes, Armed, Wiped
    <2>5. QED
      BY <1>0, <2>4, BackingStays
  <1>8. QED
    BY <1>1, <1>2, <1>3, <1>4, <1>5, <1>6, <1>7, StepKinds DEF LoudStep

-----------------------------------------------------------------------------
(* A logout prevails                                                       *)

KindsStay == \A d \in Call : call[d].kind # "none" => call'[d].kind = call[d].kind

\* The reads of the tab that may still commit find no account, and the ones the calls wait for
\* are still there.
ReadsHushed(t) ==
  /\ \A r \in reads'[t] : r.gen = generation'[t] => r.val \in {None, Unread}
  /\ \A r \in reads[t] : r.for \in Call =>
       \E s \in reads'[t] : s.gen = r.gen /\ s.for = r.for

\* Then the logout prevails as before.
LEMMA HushKept ==
  ASSUME TypeIInv, NEW t \in Tab, Hushed(t), conn' = None, generation'[t] = generation[t],
         snapshot'[t] = snapshot[t], KindsStay, ReadsHushed(t)
  PROVE  Hushed(t)'
  <1>1. CASE snapshot[t] = None
    BY <1>1 DEF Hushed, ReadsHushed
  <1>2. CASE snapshot[t] # None
    <2>1. PICK r \in reads[t] : /\ r.gen = generation[t] /\ r.for \in Call
                                /\ call[r.for].kind = "disconnect"
      BY <1>2 DEF Hushed
    <2>2. PICK s \in reads'[t] : s.gen = r.gen /\ s.for = r.for
      BY <2>1 DEF ReadsHushed
    <2>3. call'[s.for].kind = "disconnect"
      BY <2>1, <2>2 DEF KindsStay
    <2>4. QED
      BY <2>1, <2>2, <2>3 DEF Hushed, ReadsHushed
  <1>3. QED
    BY <1>1, <1>2

\* What a tab in which the logout prevails may see.
HushStep(t) ==
  \/ QuietStep
  \/ \E c \in Call : SetEnvelope(c) \/ ClearConn(c)
  \/ \E c \in Call : ClearEnvelope(c) /\ call[c].kind = "disconnect"
  \/ \E u \in Tab : \E r \in reads[u] : CommitRead(u, r)
  \/ \E u \in Tab \ {t} : Reload(u)

\* The steps that leave the other calls alone change the kind of none.
LEMMA GoKinds == AllGo => KindsStay
  BY DEF AllGo, Goes, KindsStay

\* A logout leaves its tab without a read that finds an account.
LEMMA LogoutHushes ==
  ASSUME TypeIInv, NEW c \in Call, ClearEnvelope(c), call[c].kind = "disconnect", conn = None
  PROVE  Hushed(call[c].tab)'
  <1> DEFINE t == call[c].tab
  <1>0. t \in Tab /\ conn' = None /\ t' = t /\ call'[c].kind = "disconnect"
    BY LogoutCalls DEF TypeIInv, ClearEnvelope
  <1>1. PICK q : /\ q \in ReadRecords /\ q.for = c /\ q.val = Unread /\ q.gen = generation'[t]
                 /\ reads'[t] = reads[t] \cup {q} /\ generation'[t] = generation[t] + 1
    BY LogoutReads
  <1>2. ASSUME NEW r \in reads[t]
        PROVE  r.gen # generation'[t]
    <2>1. /\ r.gen <= generation[t] /\ r.gen \in Nat /\ generation[t] \in Nat
      BY <1>0 DEF TypeIInv, ReadsSane, ReadRecords
    <2>2. QED
      BY <1>1, <2>1
  <1>3. \A r \in reads'[t] : r.gen = generation'[t] => r.val \in {None, Unread}
    BY <1>1, <1>2
  <1>4. \E r \in reads'[t] : r.gen = generation'[t] /\ r.for \in Call /\ call'[r.for].kind = "disconnect"
    BY <1>0, <1>1
  <1>5. QED
    BY <1>0, <1>3, <1>4 DEF Hushed

\* Nothing but a connection that is stored, or a new page, ends the silence of a tab.
LEMMA HushStays ==
  ASSUME TypeIInv, Step, NEW t \in Tab, Hushed(t), HushStep(t)
  PROVE  Hushed(t)'
  <1>0. /\ conn = None /\ reads \in [Tab -> SUBSET ReadRecords]
        /\ \A r \in reads[t] : r.gen = generation[t] => r.val \in {None, Unread}
    BY DEF Hushed, TypeIInv, ReadsSane
  <1>1. CASE QuietStep
    <2>0. /\ KindsStay /\ UNCHANGED <<generation, snapshot>> /\ conn' = None
      BY <1>0, <1>1, StepCalls, GoKinds, QuietEffects
    <2>1. CASE UNCHANGED reads
      BY <1>0, <2>0, <2>1, HushKept DEF ReadsHushed
    <2>2. ASSUME NEW u \in Tab, reads' = [reads EXCEPT ![u] = @ \cup {ReRead(u, None)}]
          PROVE  Hushed(t)'
      <3> DEFINE q == ReRead(u, None)
      <3>1. q.val = None
        BY <1>0, ReReadType DEF TypeIInv
      <3>2. reads' = [reads EXCEPT ![u] = @ \cup {q}]
        BY <2>2
      <3> HIDE DEF q
      <3>3. reads[t] \subseteq reads'[t] /\ reads'[t] \subseteq reads[t] \cup {q}
        BY <1>0, <3>2
      <3>4. ReadsHushed(t)
        BY <1>0, <2>0, <3>1, <3>3 DEF ReadsHushed
      <3>5. QED
        BY <2>0, <3>4, HushKept
    <2>3. ASSUME NEW u \in Tab, NEW r \in reads[u], ReadConn(u, r)
          PROVE  Hushed(t)'
      <3> DEFINE q == [r EXCEPT !.val = conn]
      <3>1. r \in ReadRecords
        BY <1>0
      <3>2. q.val = None /\ q.gen = r.gen /\ q.for = r.for
        BY <1>0, <3>1 DEF ReadRecords
      <3>3. reads' = [reads EXCEPT ![u] = (@ \ {r}) \cup {q}]
        BY <2>3 DEF ReadConn
      <3> HIDE DEF q
      <3>4. \/ reads'[t] = reads[t]
            \/ reads'[t] = (reads[t] \ {r}) \cup {q}
        BY <1>0, <3>3
      <3>5. ReadsHushed(t)
        BY <1>0, <2>0, <3>2, <3>4 DEF ReadsHushed
      <3>6. QED
        BY <2>0, <3>5, HushKept
    <2>4. QED
      BY <1>1, <2>1, <2>2, <2>3, QuietEffects
  <1>2. ASSUME NEW c \in Call, SetEnvelope(c) \/ ClearConn(c)
        PROVE  Hushed(t)'
    <2>1. UNCHANGED <<generation, reads, snapshot>> /\ conn' = None
      BY <1>0, <1>2 DEF SetEnvelope, ClearConn, tabVars
    <2>2. KindsStay
      BY <1>2, SetEnvelopeCalls, ClearConnCalls DEF TypeIInv, KindsStay
    <2>3. ReadsHushed(t)
      BY <1>0, <2>1 DEF ReadsHushed
    <2>4. QED
      BY <2>1, <2>2, <2>3, HushKept
  <1>3. ASSUME NEW c \in Call, ClearEnvelope(c), call[c].kind = "disconnect"
        PROVE  Hushed(t)'
    <2>1. CASE call[c].tab = t
      <3>1. Hushed(call[c].tab)' /\ call'[c].tab = call[c].tab
        BY <1>0, <1>3, LogoutHushes, LogoutCalls DEF TypeIInv
      <3>2. QED
        BY <2>1, <3>1 DEF Hushed
    <2>2. CASE call[c].tab # t
      <3>1. /\ reads'[t] = reads[t] /\ generation'[t] = generation[t] /\ snapshot' = snapshot
            /\ conn' = None
        BY <1>0, <1>3, <2>2, LogoutReads DEF ClearEnvelope
      <3>2. KindsStay
        BY <1>3, LogoutCalls DEF TypeIInv, KindsStay
      <3>3. ReadsHushed(t)
        BY <1>0, <3>1 DEF ReadsHushed
      <3>4. QED
        BY <3>1, <3>2, <3>3, HushKept
    <2>3. QED
      BY <2>1, <2>2
  <1>4. ASSUME NEW u \in Tab, NEW r \in reads[u], CommitRead(u, r)
        PROVE  Hushed(t)'
    <2>0. KindsStay
      BY <1>4, CommitCalls DEF TypeIInv, KindsStay
    <2>1. /\ conn' = None /\ generation' = generation /\ r.val # Unread
          /\ reads' = [reads EXCEPT ![u] = @ \ {r}]
          /\ snapshot' = IF r.gen = generation[u] THEN [snapshot EXCEPT ![u] = r.val] ELSE snapshot
          /\ snapshot \in [Tab -> Account \cup {None}]
      BY <1>0, <1>4 DEF CommitRead, records, TypeIInv, ReadsSane
    <2>2. /\ reads'[t] = IF u = t THEN reads[t] \ {r} ELSE reads[t]
          /\ \A p \in reads'[t] : p.gen = generation'[t] => p.val \in {None, Unread}
      BY <1>0, <2>1
    <2>3. CASE u = t /\ r.gen = generation[t]
      <3>1. r.val = None
        BY <1>0, <1>4, <2>1, <2>3
      <3>2. snapshot'[t] = None
        BY <2>1, <2>3, <3>1
      <3>3. QED
        BY <2>1, <2>2, <3>2 DEF Hushed
    <2>4. CASE u # t \/ r.gen # generation[t]
      <3>1. snapshot'[t] = snapshot[t]
        BY <2>1, <2>4
      <3>2. CASE snapshot[t] = None
        BY <2>1, <2>2, <3>1, <3>2 DEF Hushed
      <3>3. ASSUME NEW p \in reads[t], p.gen = generation[t], p.for \in Call,
                   call[p.for].kind = "disconnect"
            PROVE  Hushed(t)'
        <4>1. p \in reads'[t]
          BY <2>2, <2>4, <3>3
        <4>2. call'[p.for].kind = "disconnect"
          BY <2>0, <3>3 DEF KindsStay
        <4>3. QED
          BY <2>1, <2>2, <3>3, <4>1, <4>2 DEF Hushed
      <3>4. QED
        BY <3>2, <3>3 DEF Hushed
    <2>5. QED
      BY <2>3, <2>4
  <1>5. ASSUME NEW u \in Tab \ {t}, Reload(u)
        PROVE  Hushed(t)'
    <2>1. KindsStay
      BY <1>5, ReloadCalls DEF TypeIInv, KindsStay
    <2>2. /\ conn' = None /\ generation'[t] = generation[t] /\ snapshot'[t] = snapshot[t]
          /\ reads'[t] = reads[t]
      BY <1>0, <1>5 DEF Reload, records, TypeIInv, ReadsSane
    <2>3. ReadsHushed(t)
      BY <1>0, <2>2 DEF ReadsHushed
    <2>4. QED
      BY <2>1, <2>2, <2>3, HushKept
  <1>6. QED
    BY <1>1, <1>2, <1>3, <1>4, <1>5 DEF HushStep

\* Every step keeps the logouts, those announced and those settled.
LEMMA StepLogout ==
  ASSUME TypeIInv, Step, LogoutKept
  PROVE  LogoutKept'
  <1> DEFINE Clean == \A c \in Call : call'[c].clean => conn' = None
             Out == \A t \in signedOut' : Hushed(t)'
             Due == \A c \in Call : call'[c].clean /\ call'[c].pc = "rereading" => Hushed(call[c].tab)'
  <1> SUFFICES Clean /\ Out /\ Due
    BY DEF LogoutKept
  <1>h. /\ signedOut \subseteq Tab
        /\ \A c \in Call : call[c].pc = "rereading" => call[c].tab \in Tab
    BY DEF TypeIInv, ReadsSane, CallsSane, Sane
  <1>d. ASSUME NEW c \in Call, call'[c].pc = "rereading", call[c].pc = "rereading", call[c].clean,
               call'[c].tab = call[c].tab, HushStep(call[c].tab)
        PROVE  Hushed(call[c].tab)'
    <2> DEFINE t == call[c].tab
    <2>1. t \in Tab /\ Hushed(t)
      BY <1>d, <1>h DEF LogoutKept
    <2>2. ASSUME NEW u, u = t PROVE Hushed(u)'
      BY <1>d, <2>1, <2>2, HushStays
    <2>3. QED
      BY <1>d, <2>2 DEF Hushed
  <1>1. CASE QuietStep
    <2>1. /\ AllGo /\ conn' \in {conn, None} /\ signedOut' = signedOut
      BY <1>1, StepCalls, QuietEffects
    <2>2. \A c \in Call : call'[c].clean => call[c].clean
      BY <2>1 DEF AllGo, Goes
    <2>3. Clean
      BY <2>1, <2>2 DEF LogoutKept
    <2>4. Out
      BY <1>1, <1>h, <2>1, HushStays DEF LogoutKept, HushStep
    <2>5. \A c \in Call : call'[c].pc = "rereading" => call[c].pc = "rereading" /\ call'[c].tab = call[c].tab
      BY <2>1 DEF AllGo, Goes
    <2>6. Due
      BY <1>1, <1>d, <2>2, <2>5 DEF HushStep
    <2>7. QED
      BY <2>3, <2>4, <2>6
  <1>2. ASSUME NEW c \in Call, SetEnvelope(c) \/ ClearConn(c)
        PROVE  Clean /\ Out /\ Due
    <2>1. /\ SetEnvelope(c) => ~call'[c].clean /\ conn' = conn
          /\ ClearConn(c) => conn' = None
          /\ call'[c].pc = "setToken" \/ call'[c].pc = "clearToken"
          /\ \A d \in Call \ {c} : call'[d] = call[d]
          /\ signedOut' = signedOut
      BY <1>2, SetEnvelopeCalls, ClearConnCalls DEF SetEnvelope, ClearConn, TypeIInv, history
    <2>2. Clean
      BY <1>2, <2>1 DEF LogoutKept
    <2>3. Out
      BY <1>2, <1>h, <2>1, HushStays DEF LogoutKept, HushStep
    <2>4. Due
      BY <1>2, <1>d, <2>1 DEF HushStep
    <2>5. QED
      BY <2>2, <2>3, <2>4
  <1>3. ASSUME NEW c \in Call, SetConn(c)
        PROVE  Clean /\ Out /\ Due
    <2>1. signedOut' = {} /\ \A d \in Call : ~call'[d].clean
      BY <1>3, SetConnCalls DEF SetConn, TypeIInv
    <2>2. QED
      BY <2>1
  <1>4. ASSUME NEW c \in Call, ClearEnvelope(c), call[c].kind = "disconnect"
        PROVE  Clean /\ Out /\ Due
    <2>1. /\ conn' = conn /\ signedOut' = signedOut /\ call'[c].clean = call[c].clean
          /\ \A d \in Call \ {c} : call'[d] = call[d]
      BY <1>4, LogoutCalls DEF ClearEnvelope, TypeIInv, history
    <2>2. Clean
      BY <2>1 DEF LogoutKept
    <2>3. Out
      BY <1>4, <1>h, <2>1, HushStays DEF LogoutKept, HushStep
    <2>4. ASSUME NEW d \in Call, call'[d].clean, call'[d].pc = "rereading"
          PROVE  Hushed(call[d].tab)'
      <3>1. CASE d = c
        <4>1. conn = None
          BY <2>1, <2>4, <3>1 DEF LogoutKept
        <4>2. QED
          BY <1>4, <3>1, <4>1, LogoutHushes
      <3>2. CASE d # c
        BY <1>4, <1>d, <2>1, <2>4, <3>2 DEF HushStep
      <3>3. QED
        BY <3>1, <3>2
    <2>5. QED
      BY <2>2, <2>3, <2>4
  <1>5. ASSUME NEW t \in Tab, NEW r \in reads[t], CommitRead(t, r)
        PROVE  Clean /\ Out /\ Due
    <2>1. /\ r.for \in Call => /\ call[r.for].pc = "rereading" /\ call[r.for].tab = t
                               /\ call'[r.for].pc = "settled" /\ ~call'[r.for].clean
          /\ r.for \notin Call => r.for = None
          /\ \A d \in Call : d # r.for => call'[d] = call[d]
      BY <1>5, CommitCalls DEF TypeIInv
    <2>2. conn' = conn
      BY <1>5 DEF CommitRead, records
    <2>3. Clean
      BY <2>1, <2>2 DEF LogoutKept
    <2>4. ASSUME NEW u \in signedOut'
          PROVE  Hushed(u)'
      <3>1. u \in Tab /\ Hushed(u)
        <4>1. CASE u \in signedOut
          BY <1>h, <4>1 DEF LogoutKept
        <4>2. CASE u \notin signedOut
          <5>1. r.for \in Call /\ u = t /\ call[r.for].clean
            BY <1>5, <2>1, <4>2 DEF CommitRead
          <5>2. QED
            BY <2>1, <5>1 DEF LogoutKept
        <4>3. QED
          BY <4>1, <4>2
      <3>2. HushStep(u)
        BY <1>5 DEF HushStep
      <3>3. QED
        BY <3>1, <3>2, HushStays
    <2>5. Due
      BY <1>5, <1>d, <2>1 DEF HushStep
    <2>6. QED
      BY <2>3, <2>4, <2>5
  <1>6. ASSUME NEW t \in Tab, Reload(t)
        PROVE  Clean /\ Out /\ Due
    <2>1. /\ \A d \in Call : call[d].tab = t => call'[d].pc = "settled" /\ ~call'[d].clean
          /\ \A d \in Call : call[d].tab # t => call'[d] = call[d]
      BY <1>6, ReloadCalls DEF TypeIInv
    <2>2. conn' = conn /\ signedOut' = signedOut \ {t}
      BY <1>6 DEF Reload, records
    <2>3. Clean
      BY <2>1, <2>2 DEF LogoutKept
    <2>4. Out
      BY <1>6, <1>h, <2>2, HushStays DEF LogoutKept, HushStep
    <2>5. Due
      BY <1>6, <1>d, <2>1 DEF HushStep
    <2>6. QED
      BY <2>3, <2>4, <2>5
  <1>7. QED
    BY <1>1, <1>2, <1>3, <1>4, <1>5, <1>6, StepKinds DEF LoudStep

-----------------------------------------------------------------------------
(* The theorems                                                            *)

\* A step in which nothing happens keeps the invariant.
LEMMA CredStutter == CredIInv /\ UNCHANGED vars => CredIInv'
  <1> SUFFICES ASSUME CredIInv, UNCHANGED vars PROVE CredIInv'
    OBVIOUS
  <1>1. UNCHANGED <<exchange, conn, envelope, snapshot, generation, reads, flight, call, signedOut,
                    overlapped>>
    BY DEF vars, records, tabVars, history
  <1>2. TypeIInv'
    BY StutterTypes DEF CredIInv
  <1>3. Backed'
    BY <1>1 DEF CredIInv, Backed, Connecting, Wiping, Armed, Wiped
  <1>4. LogoutKept'
    BY <1>1 DEF CredIInv, LogoutKept, Hushed
  <1>5. QED
    BY <1>2, <1>3, <1>4 DEF CredIInv

\* The inductive invariant: the way of every call, flight and read of the connection, with what
\* each carries and who waits for whom; the records a connect() and a wipe leave behind; and the
\* tabs in which a logout prevails.
THEOREM CredInvariant == Spec => []CredIInv
  <1>1. Init => CredIInv
    BY CredInit
  <1>2. CredIInv /\ [Next]_vars => CredIInv'
    <2> SUFFICES ASSUME CredIInv, Next PROVE CredIInv'
      BY CredStutter
    <2>1. Step /\ overlapped' = (overlapped \/ (Connecting' /\ Wiping'))
      BY DEF Next
    <2>2. TypeIInv' /\ Backed' /\ LogoutKept'
      BY <2>1, StepTypes, StepBacks, StepLogout DEF CredIInv
    <2>3. QED
      BY <2>2 DEF CredIInv
  <1>3. QED
    BY <1>1, <1>2, PTL DEF Spec

\* The records, the reads, and the flights that calls wait for are what the code takes them for.
THEOREM CredTypeCorrect == Spec => []TypeOK
  <1>1. CredIInv => TypeOK
    <2> SUFFICES ASSUME TypeIInv PROVE TypeOK
      BY DEF CredIInv
    <2>1. Cardinality(Announced) \in 0..MaxCalls
      <3>1. Cardinality(Call) = MaxCalls
        <4>1. Cardinality(1..MaxCalls) = IF 1 > MaxCalls THEN 0 ELSE MaxCalls - 1 + 1
          BY Assumed, FS_Interval
        <4>2. QED
          BY <4>1, Assumed DEF Call
      <3>2. Announced \subseteq Call
        BY DEF Announced
      <3>3. Cardinality(Announced) \in Nat /\ Cardinality(Announced) <= Cardinality(Call)
        BY <3>2, CallFinite, FS_Subset, FS_CardinalityType
      <3>4. QED
        BY <3>1, <3>3, Assumed
    <2>2. \A t \in Tab : generation[t] \in 0..MaxCalls /\ \A r \in reads[t] : r.gen <= generation[t]
      <3>1. ASSUME NEW n \in Nat, n <= Cardinality(Announced) PROVE n \in 0..MaxCalls
        BY <2>1, <3>1, Assumed
      <3>2. \A t \in Tab : generation[t] \in Nat /\ generation[t] <= Cardinality(Announced)
        BY DEF TypeIInv, ReadsSane
      <3>3. \A t \in Tab : generation[t] \in 0..MaxCalls
        BY <3>1, <3>2
      <3>4. \A t \in Tab : \A r \in reads[t] : r.gen <= generation[t]
        BY DEF TypeIInv, ReadsSane
      <3>5. QED
        BY <3>3, <3>4
    <2>3. conn \in Account \cup {None} /\ {token, envelope} \subseteq Secrets \cup {None}
      BY DEF TypeIInv, RecordsSane
    <2>4. ~exchange => envelope = None /\ \A t \in Tab : flight[t]["e"] = Landed
      BY DEF TypeIInv, RecordsSane, FlightsSane
    <2>5. QED
      BY <2>2, <2>3, <2>4 DEF TypeIInv, TypeOK, Waited
  <1>2. QED
    BY <1>1, CredInvariant, PTL

\* A tab that has been signed out stays so until somebody connects, whichever reads of the
\* connection were still on their way.
THEOREM LogoutSticksHolds == Spec => []LogoutSticks
  <1>1. CredIInv => LogoutSticks
    <2> SUFFICES ASSUME CredIInv, NEW t \in signedOut, snapshot[t] # None
                 PROVE  \E c \in Call : /\ call[c].tab = t /\ call[c].kind = "disconnect"
                                        /\ call[c].pc = "rereading"
      BY DEF LogoutSticks
    <2>1. t \in Tab /\ Hushed(t)
      BY DEF CredIInv, TypeIInv, ReadsSane, LogoutKept
    <2>2. PICK r \in reads[t] : r.for \in Call /\ call[r.for].kind = "disconnect"
      BY <2>1 DEF Hushed
    <2>3. call[r.for].pc = "rereading" /\ call[r.for].tab = t
      BY <2>1, <2>2 DEF CredIInv, TypeIInv, ReadsSane
    <2>4. QED
      BY <2>2, <2>3
  <1>2. QED
    BY <1>1, CredInvariant, PTL

\* Unless a connect() overlaps a wipe, no connection is ever found without its envelope.
THEOREM ConnBackedByEnvelopeHolds == Spec => []ConnBackedByEnvelope
  <1>1. CredIInv => ConnBackedByEnvelope
    BY DEF CredIInv, Backed, ConnBackedByEnvelope
  <1>2. QED
    BY <1>1, CredInvariant, PTL

\* Every connect() that goes to the account has shown Google's window.
THEOREM ConnectShowsFlowHolds == Spec => []ConnectShowsFlow
  <1>1. CredIInv => ConnectShowsFlow
    BY DEF CredIInv, TypeIInv, CallsSane, Sane, ConnectShowsFlow
  <1>2. QED
    BY <1>1, CredInvariant, PTL
===============================================================================
