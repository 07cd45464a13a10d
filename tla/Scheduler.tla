------------------------------ MODULE Scheduler ------------------------------
(***************************************************************************)
(* The sync scheduler of packages/project-sync (scheduler.ts), one per     *)
(* tab: what starts a sync (the leader's interval, the debounce of         *)
(* markDirty(), the tab becoming visible, syncNow()) and the single-flight *)
(* map that lets callers join a run.  The tabs share one profile, so the   *)
(* documents they sync are the same.                                       *)
(***************************************************************************)
EXTENDS LeaderElection

CONSTANTS
    Projects,
    All,          \* the single-flight key of a sync of all projects
    MaxEdits,     \* bound: how many edits users make
    MaxFaults     \* bound: how many syncs fail and tabs are closed

ASSUME AllIsNoProject == All \notin Projects
ASSUME BoundsNat == MaxEdits \in Nat /\ MaxFaults \in Nat

VARIABLES
    dirty,        \* dirty[t]: the projects with a debounce timer (dirtyProjects)
    wasHidden,    \* wasHiddenLastCheck
    inFlight,     \* inFlight[t]: the keys of inFlightSyncs
    seen,         \* seen[t][k]: the projects the run of key k has read so far
    unsynced,     \* the projects with an edit that no run has read
    edits,        \* the counter of MaxEdits
    faults        \* the counter of MaxFaults

syncVars == <<dirty, wasHidden, inFlight, seen, unsynced, edits, faults>>
vars == <<electionVars, syncVars>>

Keys == Projects \cup {All}
Scope(k) == IF k = All THEN Projects ELSE {k}

SchedTypeOK ==
    /\ ElectionTypeOK
    /\ dirty \in [Tabs -> SUBSET Projects]
    /\ wasHidden \in [Tabs -> BOOLEAN]
    /\ inFlight \in [Tabs -> SUBSET Keys]
    /\ seen \in [Tabs -> [Keys -> SUBSET Projects]]
    /\ unsynced \subseteq Projects
    /\ edits \in 0..MaxEdits
    /\ faults \in 0..MaxFaults
    \* a closed tab has neither timers nor runs
    /\ \A t \in Tabs : ~alive[t] => dirty[t] = {} /\ inFlight[t] = {}

SchedInit ==
    /\ ElectionInit
    /\ dirty = [t \in Tabs |-> {}]
    /\ wasHidden = [t \in Tabs |-> FALSE]
    /\ inFlight = [t \in Tabs |-> {}]
    /\ seen = [t \in Tabs |-> [k \in Keys |-> {}]]
    /\ unsynced = {}
    /\ edits = 0
    /\ faults = 0

-----------------------------------------------------------------------------
(* The election, with what its steps do to the syncs of a tab *)

Fault ==
    /\ faults < MaxFaults
    /\ faults' = faults + 1

\* stop(), and disconnect() of a started tab, clear the debounce timers; the
\* runs in flight go on.
KeepDirty(t) == UNCHANGED dirty
ForgetDirty(t) == dirty' = [dirty EXCEPT ![t] = {}]

StopSyncs(t) ==
    /\ Stop(t)
    /\ ForgetDirty(t)
    /\ UNCHANGED <<wasHidden, inFlight, seen, unsynced, edits, faults>>

DisconnectSyncs(t) ==
    /\ Disconnect(t)
    /\ IF isStarted[t] THEN ForgetDirty(t) ELSE UNCHANGED dirty
    /\ UNCHANGED <<wasHidden, inFlight, seen, unsynced, edits, faults>>

\* The runs of a closed tab end with it: what they had read is not synced.
CloseSyncs(t) ==
    /\ Close(t)
    /\ Fault
    /\ ForgetDirty(t)
    /\ inFlight' = [inFlight EXCEPT ![t] = {}]
    /\ unsynced' = unsynced \cup UNION {seen[t][k] : k \in inFlight[t]}
    /\ seen' = [seen EXCEPT ![t] = [k \in Keys |-> {}]]
    /\ UNCHANGED <<wasHidden, edits>>

Elect(t) ==
    /\ Start(t) \/ (\E s \in Tabs : HandleMessage(s, t))
    /\ UNCHANGED syncVars

-----------------------------------------------------------------------------
(* Syncs *)

\* syncNow(): join the run of this key, or start one.
Join(t, k) ==
    \/ /\ k \in inFlight[t]
       /\ UNCHANGED <<inFlight, seen>>
    \/ /\ k \notin inFlight[t]
       /\ inFlight' = [inFlight EXCEPT ![t] = @ \cup {k}]
       /\ seen' = [seen EXCEPT ![t][k] = {}]

SyncNow(t, k) ==
    /\ alive[t]
    /\ Join(t, k)
    /\ UNCHANGED <<electionVars, dirty, wasHidden, unsynced, edits, faults>>

IntervalFires(t) ==
    /\ timer[t]
    /\ Join(t, All)
    /\ UNCHANGED <<electionVars, dirty, wasHidden, unsynced, edits, faults>>

Hide(t) ==
    /\ alive[t]
    /\ connected[t]
    /\ wasHidden' = [wasHidden EXCEPT ![t] = TRUE]
    /\ UNCHANGED <<electionVars, dirty, inFlight, seen, unsynced, edits, faults>>

\* Visibility regained: a sync, whether or not the scheduler is started.
Show(t) ==
    /\ alive[t]
    /\ connected[t]
    /\ wasHidden[t]
    /\ wasHidden' = [wasHidden EXCEPT ![t] = FALSE]
    /\ Join(t, All)
    /\ UNCHANGED <<electionVars, dirty, unsynced, edits, faults>>

\* A user edits project p in tab t and the application calls markDirty(p).
MarkDirty(t, p) ==
    /\ alive[t]
    /\ edits < MaxEdits
    /\ edits' = edits + 1
    /\ unsynced' = unsynced \cup {p}
    /\ dirty' = [dirty EXCEPT ![t] = @ \cup {p}]
    /\ UNCHANGED <<electionVars, wasHidden, inFlight, seen, faults>>

DebounceFires(t, p) ==
    /\ p \in dirty[t]
    /\ dirty' = [dirty EXCEPT ![t] = @ \ {p}]
    /\ Join(t, p)
    /\ UNCHANGED <<electionVars, wasHidden, unsynced, edits, faults>>

\* The sync function reads the documents of one project.
SyncReads(t, k, p) ==
    /\ k \in inFlight[t]
    /\ p \in Scope(k) \ seen[t][k]
    /\ seen' = [seen EXCEPT ![t][k] = @ \cup {p}]
    /\ unsynced' = unsynced \ {p}
    /\ UNCHANGED <<electionVars, dirty, wasHidden, inFlight, edits, faults>>

\* The run settles and leaves inFlightSyncs.
Leave(t, k) ==
    /\ k \in inFlight[t]
    /\ inFlight' = [inFlight EXCEPT ![t] = @ \ {k}]
    /\ seen' = [seen EXCEPT ![t][k] = {}]
    /\ UNCHANGED <<electionVars, dirty, wasHidden, edits>>

SyncSettles(t, k) ==
    /\ seen[t][k] = Scope(k)
    /\ Leave(t, k)
    /\ UNCHANGED <<unsynced, faults>>

\* What a failed run had read is not synced.
SyncFails(t, k) ==
    /\ Fault
    /\ unsynced' = unsynced \cup seen[t][k]
    /\ Leave(t, k)

SyncStep(t) ==
    \/ IntervalFires(t) \/ Hide(t) \/ Show(t)
    \/ \E k \in Keys : SyncNow(t, k) \/ SyncSettles(t, k) \/ SyncFails(t, k)
    \/ \E p \in Projects : MarkDirty(t, p) \/ DebounceFires(t, p)
    \/ \E k \in Keys, p \in Projects : SyncReads(t, k, p)

SchedNext ==
    \E t \in Tabs :
        \/ Elect(t) \/ StopSyncs(t) \/ DisconnectSyncs(t) \/ CloseSyncs(t)
        \/ SyncStep(t)

SchedSpec == SchedInit /\ [][SchedNext]_vars

\* A run goes on: it reads its next project, or settles.
RunStep(t, k) == SyncSettles(t, k) \/ \E p \in Projects : SyncReads(t, k, p)

\* The browser delivers messages and fires intervals, and a sync that has been
\* started reads its projects and settles: as fair as this to each tab, which is
\* less than fair to each channel and run.  Nothing makes users act.
Fairness ==
    \A t \in Tabs :
        /\ WF_vars(\E s \in Tabs \ {t} : HandleMessage(s, t) /\ UNCHANGED syncVars)
        /\ WF_vars(IntervalFires(t))
        /\ WF_vars(\E k \in Keys : RunStep(t, k))

FairSchedSpec == SchedSpec /\ Fairness

-----------------------------------------------------------------------------
(* Properties *)

\* A started tab is served by a leader's interval, its own or another's, unless a
\* smaller tab was closed without stop(): if that one led, nobody learns of it.
Served ==
    \E t \in Tabs : isStarted[t] /\ \A s \in Tabs : s < t => alive[s]

\* An edit is synced in the end, even if the debounced sync missed it or failed
\* or its tab was stopped: the leader's interval catches up.
IntervalCatchesUp ==
    \A p \in Projects : p \in unsynced ~> (p \notin unsynced \/ ~Served)

\* types.ts: markDirty() triggers a sync after the debounce period: when the
\* debounce of an edit fires, a run that has yet to read the edit is in flight.
DebounceReachesEdit ==
    [][\A t \in Tabs, p \in Projects :
          /\ p \in dirty[t] /\ p \notin dirty'[t] /\ isStarted'[t]
          /\ p \in unsynced
          => p \in inFlight'[t] /\ p \notin seen'[t][p]]_vars
==============================================================================
