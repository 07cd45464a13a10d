---------------------------- MODULE LeaderElection ----------------------------
(***************************************************************************)
(* The cross-tab leader election of packages/project-sync (scheduler.ts):  *)
(* which of the tabs of one profile runs the interval timer.               *)
(*                                                                         *)
(* A tab's instanceId is the tab itself, a number.  BroadcastChannel       *)
(* delivers the messages of one sender to one receiver in order, and those *)
(* of different senders in any order.  `election-announce', which start()  *)
(* also posts, is left out: no receiver has a case for it.                 *)
(***************************************************************************)
EXTENDS Naturals, Sequences

CONSTANTS
    Tabs,         \* the tabs, numbered by their instanceId
    WithInterval, \* whether an interval is configured (null = manual only)
    Closable,     \* bound: the tabs the user may close
    MaxStarts     \* bound: how often one tab calls start()

ASSUME TabsAreNumbers == Tabs \subseteq Nat
ASSUME IntervalOrNot == WithInterval \in BOOLEAN
ASSUME MaxStartsNat == MaxStarts \in Nat

VARIABLES
    alive,        \* the tab exists
    connected,    \* its broadcast channel is open and its visibility listener set
    isStarted,
    isLeader,
    timer,        \* intervalTimerId # null
    inbox,        \* inbox[s][t]: posted by s, not yet handled by t
    starts        \* starts[t]: the counter of MaxStarts

electionVars == <<alive, connected, isStarted, isLeader, timer, inbox, starts>>

Messages == {"instance-start", "instance-stop"}

ElectionTypeOK ==
    /\ alive \in [Tabs -> BOOLEAN]
    /\ connected \in [Tabs -> BOOLEAN]
    /\ isStarted \in [Tabs -> BOOLEAN]
    /\ isLeader \in [Tabs -> BOOLEAN]
    /\ timer \in [Tabs -> BOOLEAN]
    /\ inbox \in [Tabs -> [Tabs -> Seq(Messages)]]
    /\ starts \in [Tabs -> 0..MaxStarts]
    \* a channel delivers neither to its own tab nor once it is closed
    /\ \A s, t \in Tabs : s = t \/ ~connected[t] => inbox[s][t] = <<>>

ElectionInit ==
    /\ alive = [t \in Tabs |-> TRUE]
    /\ connected = [t \in Tabs |-> TRUE]
    /\ isStarted = [t \in Tabs |-> FALSE]
    /\ isLeader = [t \in Tabs |-> FALSE]
    /\ timer = [t \in Tabs |-> FALSE]
    /\ inbox = [s \in Tabs |-> [t \in Tabs |-> <<>>]]
    /\ starts = [t \in Tabs |-> 0]

-----------------------------------------------------------------------------
(* Announcements *)

\* A channel does not deliver to the tab that posts.
Posted(t, m) ==
    [inbox EXCEPT ![t] =
        [r \in Tabs |-> IF r # t /\ connected[t] /\ connected[r]
                        THEN Append(@[r], m) ELSE @[r]]]

\* What is left in transit once tab t has closed its channel.
Deaf(box, t) == [s \in Tabs |-> [box[s] EXCEPT ![t] = <<>>]]

-----------------------------------------------------------------------------
(* The life of a tab *)

\* start(): assume leadership, tell the others, start the timer.
Start(t) ==
    /\ alive[t]
    /\ ~isStarted[t]
    /\ starts[t] < MaxStarts
    /\ starts' = [starts EXCEPT ![t] = @ + 1]
    /\ isStarted' = [isStarted EXCEPT ![t] = TRUE]
    /\ isLeader' = [isLeader EXCEPT ![t] = TRUE]
    /\ timer' = [timer EXCEPT ![t] = @ \/ WithInterval]
    /\ inbox' = Posted(t, "instance-start")
    /\ UNCHANGED <<alive, connected>>

Halt(t) ==
    /\ isStarted' = [isStarted EXCEPT ![t] = FALSE]
    /\ isLeader' = [isLeader EXCEPT ![t] = FALSE]
    /\ timer' = [timer EXCEPT ![t] = FALSE]

Stop(t) ==
    /\ isStarted[t]
    /\ Halt(t)
    /\ inbox' = Posted(t, "instance-stop")
    /\ UNCHANGED <<alive, connected, starts>>

\* disconnect(): stop if started, then close the channel.
Disconnect(t) ==
    /\ alive[t]
    /\ connected[t]
    /\ connected' = [connected EXCEPT ![t] = FALSE]
    /\ \/ /\ isStarted[t]
          /\ Halt(t)
          /\ inbox' = Deaf(Posted(t, "instance-stop"), t)
       \/ /\ ~isStarted[t]
          /\ inbox' = Deaf(inbox, t)
          /\ UNCHANGED <<isStarted, isLeader, timer>>
    /\ UNCHANGED <<alive, starts>>

\* The tab is closed: no handler of the scheduler runs, nothing is announced.
Close(t) ==
    /\ t \in Closable
    /\ alive[t]
    /\ alive' = [alive EXCEPT ![t] = FALSE]
    /\ connected' = [connected EXCEPT ![t] = FALSE]
    /\ Halt(t)
    /\ inbox' = Deaf(inbox, t)
    /\ UNCHANGED starts

-----------------------------------------------------------------------------
(* handleBroadcastMessage() *)

BecomeLeader(t) ==
    /\ isLeader' = [isLeader EXCEPT ![t] = TRUE]
    /\ timer' = [timer EXCEPT ![t] = @ \/ (isStarted[t] /\ WithInterval)]

KeepTimer(t) == UNCHANGED timer
DropTimer(t) == timer' = [timer EXCEPT ![t] = FALSE]

CedeLeadership(t) ==
    /\ isLeader' = [isLeader EXCEPT ![t] = FALSE]
    /\ DropTimer(t)

\* Whether tab t takes over when it hears that another tab stopped.
NeverTakesOver(t) == FALSE
TakesOver(t) == ~isLeader[t] /\ isStarted[t] /\ WithInterval

HandleMessage(s, t) ==
    /\ inbox[s][t] # <<>>
    /\ LET m == Head(inbox[s][t]) IN
       \/ m = "instance-start" /\ s < t /\ isLeader[t] /\ CedeLeadership(t)
       \/ m = "instance-start" /\ s > t /\ ~isLeader[t] /\ BecomeLeader(t)
       \/ m = "instance-start" /\ (s < t) # isLeader[t] /\ UNCHANGED <<isLeader, timer>>
       \/ m = "instance-stop" /\ TakesOver(t) /\ BecomeLeader(t)
       \/ m = "instance-stop" /\ ~TakesOver(t) /\ UNCHANGED <<isLeader, timer>>
    /\ inbox' = [inbox EXCEPT ![s][t] = Tail(@)]
    /\ UNCHANGED <<alive, connected, isStarted, starts>>

ElectionStep(t) ==
    \/ Start(t) \/ Stop(t) \/ Disconnect(t) \/ Close(t)
    \/ \E s \in Tabs : HandleMessage(s, t)

ElectionNext == \E t \in Tabs : ElectionStep(t)

ElectionSpec == ElectionInit /\ [][ElectionNext]_electionVars

-----------------------------------------------------------------------------
(* Properties *)

\* With an interval, a tab has the interval timer exactly while it is started
\* and leads: stopping, ceding and being promoted before start() leave neither
\* a zombie timer nor a leader that never syncs.
TimerFollowsLeadership ==
    WithInterval => \A t \in Tabs : timer[t] <=> isStarted[t] /\ isLeader[t]

NothingInTransit == \A s, t \in Tabs : inbox[s][t] = <<>>
Leaders == {t \in Tabs : isStarted[t] /\ isLeader[t]}

\* A tab that others have heard start and not stop.
Up(t) == connected[t] /\ isStarted[t]

\* With an interval: once every announcement is delivered, a started tab that does
\* not lead has ceded to a smaller one, which is up or was closed without stop(),
\* whatever the order of starts, stops, disconnects and closings and of the
\* announcements' delivery.  So no exchange makes two tabs cede to each other: the
\* smallest started tab leads, and a tab that crashes leaves only larger ones
\* without a leader.  (Without an interval a tab that hears a stop does not take over.)
CededToSmaller ==
    /\ WithInterval
    /\ NothingInTransit
    => \A t \in Tabs : isStarted[t] /\ ~isLeader[t] =>
          \E s \in Tabs : s < t /\ (Up(s) \/ ~alive[s])

\* scheduler.ts: "Cross-tab leader election via BroadcastChannel so only one tab
\* runs interval syncs": when every announcement is delivered, of the tabs whose
\* channel is open one leads.  (A tab that starts after disconnect() leads unheard.)
OneLeader ==
    NothingInTransit => \A s, t \in Leaders : connected[s] /\ connected[t] => s = t
==============================================================================
