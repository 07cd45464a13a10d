----------------------------- MODULE DriveAuth -----------------------------
(***************************************************************************)
(* Connecting from the user interface: the drive-connect handle on top of  *)
(* drive-sync's connect() in one page, down to the timers and callbacks of *)
(* a request to Google Identity Services (GIS).                            *)
(*                                                                         *)
(* The handle folds connect() calls into connectInFlight and races         *)
(* drive-sync's connect() against ten seconds; a connect() that loses the  *)
(* race goes on unobserved.  Attempt i is the i-th connect() of drive-sync.*)
(* With access tokens (exchange = FALSE) attempts share the request in     *)
(* flight; with a token exchange each asks for a code of its own.  A       *)
(* request settles by GIS's callback, its error_callback, the grace period *)
(* after a closed popup or its own timer, whichever is first.              *)
(***************************************************************************)
EXTENDS Naturals, FiniteSets

CONSTANTS
  MaxConnects,     \* bounds the attempts of a page
  MaxDisconnects   \* bounds the disconnect() calls

ASSUME AuthAssumption == MaxConnects \in Nat /\ MaxDisconnects \in Nat

Attempt == 1..MaxConnects

VARIABLES
  exchange,    \* a tokenExchangeUrl is configured
  outcome,     \* per request: "idle", "pending", "ok" or "failed"
  stage,       \* per request: "none", "load", "asked" (GIS has been called)
  timer,       \* per request: its timeout is armed
  grace,       \* per request: the timer of the grace period is armed
  current,     \* the request in the coalescing map or 0
  waits,       \* per attempt: the request it awaits or 0
  attempt,     \* per attempt: "none", "waiting", "finishing", "ok", "failed"
  inFlight,    \* connectInFlight: the attempt whose race is on, or 0
  overlay,     \* the overlay store: connecting, error
  leaving,     \* disconnect() calls of the handle that have not settled
  left         \* how many it has made

request == <<outcome, stage, timer, grace, current>>
widget == <<inFlight, overlay, leaving, left>>
authVars == <<exchange, request, waits, attempt, widget>>

AuthInit ==
  /\ exchange \in BOOLEAN
  /\ outcome = [i \in Attempt |-> "idle"]
  /\ stage = [i \in Attempt |-> "none"]
  /\ timer = [i \in Attempt |-> FALSE]
  /\ grace = [i \in Attempt |-> FALSE]
  /\ current = 0
  /\ waits = [i \in Attempt |-> 0]
  /\ attempt = [i \in Attempt |-> "none"]
  /\ inFlight = 0
  /\ overlay = [connecting |-> FALSE, error |-> FALSE]
  /\ leaving = 0 /\ left = 0

-----------------------------------------------------------------------------
(* The handle                                                               *)

Patch(connecting, error) == overlay' = [connecting |-> connecting, error |-> error]

\* connect(), by the button or by ensureFresh() without a usable token; it
\* returns the flow in flight, if any.
JoinsNothing == 0
Joins == IF exchange THEN 0 ELSE current

Connect(i) ==
  /\ inFlight = 0
  /\ attempt[i] = "none" /\ \A j \in 1..i - 1 : attempt[j] # "none"
  /\ inFlight' = i
  /\ Patch(TRUE, FALSE)
  /\ attempt' = [attempt EXCEPT ![i] = "waiting"]
  /\ waits' = [waits EXCEPT ![i] = IF Joins = 0 THEN i ELSE Joins]
  /\ IF Joins # 0 THEN UNCHANGED <<outcome, stage, current>>
     ELSE /\ outcome' = [outcome EXCEPT ![i] = "pending"]
          /\ stage' = [stage EXCEPT ![i] = "load"]
          /\ current' = IF exchange THEN 0 ELSE i
  /\ UNCHANGED <<exchange, timer, grace, leaving, left>>

\* The race is won by drive-sync's connect() ...
RaceSettled ==
  /\ inFlight # 0 /\ attempt[inFlight] \in {"ok", "failed"}
  /\ Patch(FALSE, attempt[inFlight] = "failed")
  /\ inFlight' = 0
  /\ UNCHANGED <<exchange, request, waits, attempt, leaving, left>>

\* ... or by the ten seconds.
RaceTimeout ==
  /\ inFlight # 0 /\ attempt[inFlight] \notin {"ok", "failed"}
  /\ Patch(FALSE, TRUE)
  /\ inFlight' = 0
  /\ UNCHANGED <<exchange, request, waits, attempt, leaving, left>>

Disconnect ==
  /\ left < MaxDisconnects
  /\ left' = left + 1 /\ leaving' = leaving + 1
  /\ Patch(TRUE, FALSE)
  /\ UNCHANGED <<exchange, request, waits, attempt, inFlight>>

\* drive-sync's disconnect() has re-read its snapshot, or has thrown.
PatchFailedLax == overlay' = [overlay EXCEPT !.error = TRUE]
PatchFailed == Patch(FALSE, TRUE)

DisconnectSettled(ok) ==
  /\ leaving > 0
  /\ leaving' = leaving - 1
  /\ IF ok THEN Patch(FALSE, FALSE) ELSE PatchFailed
  /\ UNCHANGED <<exchange, request, waits, attempt, inFlight, left>>

-----------------------------------------------------------------------------
(* drive-sync's connect()                                                   *)

\* The request has settled: its entry is released, its attempts go on.
Resume(i) ==
  /\ attempt[i] = "waiting" /\ outcome[waits[i]] \in {"ok", "failed"}
  /\ attempt' = [attempt EXCEPT ![i] = IF outcome[waits[i]] = "ok" THEN "finishing" ELSE "failed"]
  /\ current' = IF current = waits[i] THEN 0 ELSE current
  /\ UNCHANGED <<exchange, outcome, stage, timer, grace, waits, widget>>

\* The exchange, fetchEmail(), the records and the awaited re-read.
Finish(i, ok) ==
  /\ attempt[i] = "finishing"
  /\ attempt' = [attempt EXCEPT ![i] = IF ok THEN "ok" ELSE "failed"]
  /\ UNCHANGED <<exchange, request, waits, widget>>

-----------------------------------------------------------------------------
(* A request to GIS: requestGisToken(), acquireAuthCode()                   *)

SettleWith(i, result) ==
  /\ outcome' = [outcome EXCEPT ![i] = result]
  /\ timer' = [timer EXCEPT ![i] = FALSE]

\* waitForGoogleIdentityServices() and waitForGisCodeClient() poll for ten
\* seconds; then the timer is armed and GIS called.
Load(i) ==
  /\ stage[i] = "load"
  /\ \/ /\ stage' = [stage EXCEPT ![i] = "asked"]
        /\ timer' = [timer EXCEPT ![i] = TRUE]
        /\ UNCHANGED outcome
     \/ /\ stage' = [stage EXCEPT ![i] = "none"]
        /\ SettleWith(i, "failed")
  /\ UNCHANGED <<exchange, grace, current, waits, attempt, widget>>

\* GIS may use its channels in any order, more than once, or never.

\* callback, with a result or an error; ignored once settled.
Callback(i, result) ==
  /\ stage[i] = "asked"
  /\ IF outcome[i] = "pending" THEN SettleWith(i, result) ELSE UNCHANGED <<outcome, timer>>
  /\ UNCHANGED <<exchange, stage, grace, current, waits, attempt, widget>>

\* error_callback: a closed popup opens the grace period of a token request,
\* everything else fails the request; ignored once settled.
ErrorCallback(i, popupClosed) ==
  /\ stage[i] = "asked"
  /\ CASE outcome[i] # "pending" -> UNCHANGED <<outcome, timer, grace>>
       [] outcome[i] = "pending" /\ popupClosed /\ ~exchange ->
            grace' = [grace EXCEPT ![i] = TRUE] /\ UNCHANGED <<outcome, timer>>
       [] OTHER -> SettleWith(i, "failed") /\ UNCHANGED grace
  /\ UNCHANGED <<exchange, stage, current, waits, attempt, widget>>

GraceFires(i) ==
  /\ grace[i]
  /\ grace' = [grace EXCEPT ![i] = FALSE]
  /\ IF outcome[i] = "pending" THEN SettleWith(i, "failed") ELSE UNCHANGED <<outcome, timer>>
  /\ UNCHANGED <<exchange, stage, current, waits, attempt, widget>>

TimerFiresUnheard(i) ==
  /\ timer[i]
  /\ timer' = [timer EXCEPT ![i] = FALSE]
  /\ UNCHANGED <<exchange, outcome, stage, grace, current, waits, attempt, widget>>

TimerFires(i) ==
  /\ timer[i]
  /\ SettleWith(i, "failed")
  /\ UNCHANGED <<exchange, stage, grace, current, waits, attempt, widget>>

-----------------------------------------------------------------------------

AuthNext ==
  \/ RaceSettled \/ RaceTimeout
  \/ Disconnect \/ \E ok \in BOOLEAN : DisconnectSettled(ok)
  \/ \E i \in Attempt :
       \/ Connect(i) \/ Resume(i) \/ Load(i)
       \/ \E ok \in BOOLEAN : Finish(i, ok) \/ ErrorCallback(i, ok)
       \/ \E result \in {"ok", "failed"} : Callback(i, result)
       \/ GraceFires(i) \/ TimerFires(i)

\* The timers fire, and what drive-sync awaits besides GIS is answered.  GIS
\* itself may stay silent for ever.
AuthFairness ==
  /\ WF_authVars(RaceSettled \/ RaceTimeout)
  /\ WF_authVars(\E ok \in BOOLEAN : DisconnectSettled(ok))
  /\ \A i \in Attempt :
       /\ WF_authVars(Resume(i)) /\ WF_authVars(Load(i)) /\ WF_authVars(\E ok \in BOOLEAN : Finish(i, ok))
       /\ WF_authVars(GraceFires(i)) /\ WF_authVars(TimerFires(i))

AuthSpec == AuthInit /\ [][AuthNext]_authVars /\ AuthFairness

-----------------------------------------------------------------------------
(* Properties                                                               *)

\* A pending request holds an armed timer once GIS was called; a race is on
\* for an attempt that exists.
AuthTypeOK ==
  /\ \A i \in Attempt : stage[i] = "asked" => (timer[i] <=> outcome[i] = "pending")
  /\ \A i \in Attempt : attempt[i] = "waiting" => outcome[waits[i]] # "idle"
  /\ inFlight # 0 => attempt[inFlight] # "none"
  /\ leaving \in 0..left /\ left <= MaxDisconnects

\* The promise of a request keeps the contract of SettleOnce, whatever GIS does and
\* whichever of callbacks and timers come late.  Stated of the first request, which
\* lives through whatever the other attempts do.
Promise == INSTANCE SettleOnce WITH outcome <- outcome[1]
RequestsSettle == Promise!Spec

\* Without an exchange no second popup opens beside the first, although the
\* handle forgets a connect() after ten seconds and drive-sync does not.
OneWindow ==
  ~exchange => Cardinality({i \in Attempt : outcome[i] = "pending"}) <= 1

\* "Connecting" is not shown for ever: whatever is awaited fails or is given up, and
\* the overlay is told.
SpinnerStops == overlay.connecting ~> ~overlay.connecting
=============================================================================
