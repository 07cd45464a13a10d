----------------------------- MODULE Migrations -----------------------------
(***************************************************************************)
(* runOnce() of packages/project-sync (migrations.ts) for one migration:   *)
(* tabs of one profile share the marker in IndexedDB, each has a           *)
(* single-flight map of its own.                                           *)
(*                                                                         *)
(* IndexedDB serves the transactions of the store one after the other and  *)
(* delivers each result before the next one starts, so that a call goes on  *)
(* from hasRun() in the same step that reads the marker.                    *)
(***************************************************************************)
EXTENDS Naturals, FiniteSets

CONSTANTS
  MigTab,      \* the tabs
  MaxMigCalls  \* bounds the calls of runOnce()

ASSUME MigAssumption == MaxMigCalls \in Nat

MigCall == 1..MaxMigCalls
NoTab == 0

VARIABLES
  marked,      \* the marker's record exists
  flight,      \* per tab: the call whose executeOnce() is in flight, or 0
  migPc,       \* per call: "idle", "asked", "fn", "mark", "stored", "joined", "ok", "failed"
  migTab,      \* per call: its tab, or NoTab
  joined,      \* per call: the call it awaits, or 0
  \* history
  runs,        \* how often fn has succeeded
  excused      \* two tabs have overlapped, a mark has failed, or a tab was closed

migVars == <<marked, flight, migPc, migTab, joined, runs, excused>>

MigInit ==
  /\ marked = FALSE
  /\ flight = [t \in MigTab |-> 0]
  /\ migPc = [c \in MigCall |-> "idle"]
  /\ migTab = [c \in MigCall |-> NoTab]
  /\ joined = [c \in MigCall |-> 0]
  /\ runs = 0
  /\ excused = FALSE

Executing == {c \in MigCall : migPc[c] \in {"fn", "mark", "stored"}}

runOnce(c, t) ==
  /\ migPc[c] = "idle" /\ \A d \in 1..c - 1 : migPc[d] # "idle"
  /\ migPc' = [migPc EXCEPT ![c] = "asked"]
  /\ migTab' = [migTab EXCEPT ![c] = t]
  /\ UNCHANGED <<marked, flight, joined, runs, excused>>

NoneInFlight(t) == 0
InFlight(t) == flight[t]

\* hasRun(): done; joins the flight of its tab; or takes off.
hasRun(c) ==
  LET t == migTab[c] IN
  /\ migPc[c] = "asked"
  /\ migPc' = [migPc EXCEPT ![c] =
       IF marked THEN "ok" ELSE IF InFlight(t) # 0 THEN "joined" ELSE "fn"]
  /\ joined' = [joined EXCEPT ![c] = IF marked THEN 0 ELSE InFlight(t)]
  /\ flight' = [flight EXCEPT ![t] = IF marked \/ InFlight(t) # 0 THEN @ ELSE c]
  /\ excused' = (excused \/ \E d \in Executing : migPc'[c] = "fn" /\ migTab[d] # t)
  /\ UNCHANGED <<marked, migTab, runs>>

FnSucceeds(c) ==
  /\ migPc[c] = "fn"
  /\ migPc' = [migPc EXCEPT ![c] = "mark"]
  /\ runs' = runs + 1
  /\ UNCHANGED <<marked, flight, migTab, joined, excused>>

\* markRun(): the put commits, or is refused.
MarkCommits(c) ==
  /\ migPc[c] = "mark"
  /\ migPc' = [migPc EXCEPT ![c] = "stored"]
  /\ marked' = TRUE
  /\ UNCHANGED <<flight, migTab, joined, runs, excused>>

\* The flight settles: the map entry goes, the calls that await it settle too.
Landed(c, result) ==
  /\ migPc' = [d \in MigCall |->
       IF d = c \/ (migPc[d] = "joined" /\ joined[d] = c) THEN result ELSE migPc[d]]
  /\ flight' = [t \in MigTab |-> IF flight[t] = c THEN 0 ELSE flight[t]]

FnFails(c) ==
  /\ migPc[c] = "fn"
  /\ Landed(c, "failed")
  /\ UNCHANGED <<marked, migTab, joined, runs, excused>>

MarkFails(c) ==
  /\ migPc[c] = "mark"
  /\ Landed(c, "failed")
  /\ excused' = TRUE
  /\ UNCHANGED <<marked, migTab, joined, runs>>

Lands(c) ==
  /\ migPc[c] = "stored"
  /\ Landed(c, "ok")
  /\ UNCHANGED <<marked, migTab, joined, runs, excused>>

\* A tab is closed or reloaded with whatever it was doing.
CloseTab(t) ==
  /\ \E c \in MigCall : migTab[c] = t /\ migPc[c] \notin {"idle", "ok", "failed"}
  /\ migPc' = [c \in MigCall |-> IF migTab[c] = t /\ migPc[c] # "ok" THEN "failed" ELSE migPc[c]]
  /\ flight' = [flight EXCEPT ![t] = 0]
  /\ excused' = (excused \/ \E c \in MigCall : migTab[c] = t /\ migPc[c] = "mark")
  /\ UNCHANGED <<marked, migTab, joined, runs>>

MigNext ==
  \/ \E c \in MigCall :
       \/ \E t \in MigTab : runOnce(c, t)
       \/ hasRun(c) \/ FnSucceeds(c) \/ FnFails(c)
       \/ MarkCommits(c) \/ MarkFails(c) \/ Lands(c)
  \/ \E t \in MigTab : CloseTab(t)

MigSpec == MigInit /\ [][MigNext]_migVars

-----------------------------------------------------------------------------

MigTypeOK ==
  /\ marked \in BOOLEAN /\ excused \in BOOLEAN
  /\ flight \in [MigTab -> 0..MaxMigCalls]
  /\ migPc \in [MigCall -> {"idle", "asked", "fn", "mark", "stored", "joined", "ok", "failed"}]
  /\ migTab \in [MigCall -> MigTab \cup {NoTab}]
  /\ joined \in [MigCall -> 0..MaxMigCalls]
  /\ runs \in Nat

\* Whoever is told that the migration has run finds its effects and its marker.
ResolvedMeansRan == \A c \in MigCall : migPc[c] = "ok" => marked /\ runs > 0

\* fn runs to its end twice only if two tabs overlapped or a mark was lost: the
\* flights of one tab, and a tab that starts later, never repeat it.
OnceUnlessExcused == runs > 1 => excused
=============================================================================
