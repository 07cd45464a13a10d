---------------------------- MODULE SchedulerProofs ----------------------------
(* The scheduler of one profile's tabs, for every set of tabs, of projects and *)
(* every number of restarts: type correctness, that the interval timer follows *)
(* leadership, that some started tab leads once every announcement has arrived, *)
(* and that the scheduler is the election with syncs beside it.                *)
EXTENDS Scheduler, SequenceTheorems, WellFoundedInduction, TLAPS

-----------------------------------------------------------------------------
(* Type correctness *)

\* What posting and closing a channel do to the messages in transit.
LEMMA PostedType ==
    ASSUME ElectionTypeOK, NEW t \in Tabs, NEW m \in Messages
    PROVE  /\ Posted(t, m) \in [Tabs -> [Tabs -> Seq(Messages)]]
           /\ \A r, s \in Tabs : r = s \/ ~connected[s] => Posted(t, m)[r][s] = <<>>
<1>1. \A r \in Tabs : Append(inbox[t][r], m) \in Seq(Messages)
  BY DEF ElectionTypeOK
<1>2. QED
  BY <1>1 DEF ElectionTypeOK, Posted

LEMMA DeafType ==
    ASSUME NEW box \in [Tabs -> [Tabs -> Seq(Messages)]], NEW t \in Tabs
    PROVE  /\ Deaf(box, t) \in [Tabs -> [Tabs -> Seq(Messages)]]
           /\ \A r \in Tabs : Deaf(box, t)[r][t] = <<>>
           /\ \A r, s \in Tabs : box[r][s] = <<>> => Deaf(box, t)[r][s] = <<>>
<1>1. <<>> \in Seq(Messages)
  OBVIOUS
<1>2. QED
  BY <1>1 DEF Deaf

LEMMA TypeInit == ElectionInit => ElectionTypeOK
<1>1. 0 \in 0..MaxStarts
  BY MaxStartsNat
<1>2. <<>> \in Seq(Messages)
  OBVIOUS
<1>3. QED
  BY <1>1, <1>2 DEF ElectionInit, ElectionTypeOK

LEMMA HandleMessageType ==
    ASSUME ElectionTypeOK, NEW s \in Tabs, NEW t \in Tabs, HandleMessage(s, t)
    PROVE  ElectionTypeOK'
<1>1. inbox[s][t] \in Seq(Messages) /\ inbox[s][t] # <<>>
  BY DEF ElectionTypeOK, HandleMessage
<1>2. Tail(inbox[s][t]) \in Seq(Messages)
  BY <1>1
<1>3. inbox' \in [Tabs -> [Tabs -> Seq(Messages)]]
  BY <1>2 DEF ElectionTypeOK, HandleMessage
<1>4. \A r, u \in Tabs : r = u \/ ~connected'[u] => inbox'[r][u] = <<>>
  BY <1>1 DEF ElectionTypeOK, HandleMessage
<1>5. isLeader' \in [Tabs -> BOOLEAN] /\ timer' \in [Tabs -> BOOLEAN]
  BY IntervalOrNot
  DEF ElectionTypeOK, HandleMessage, BecomeLeader, CedeLeadership, DropTimer
<1>6. UNCHANGED <<alive, connected, isStarted, starts>>
  BY DEF HandleMessage
<1>7. QED
  BY <1>3, <1>4, <1>5, <1>6 DEF ElectionTypeOK

LEMMA TypeStep == ElectionTypeOK /\ [ElectionNext]_electionVars => ElectionTypeOK'
<1> SUFFICES ASSUME ElectionTypeOK, [ElectionNext]_electionVars
             PROVE  ElectionTypeOK'
  OBVIOUS
<1>1. CASE UNCHANGED electionVars
  BY <1>1 DEF electionVars, ElectionTypeOK
<1>2. ASSUME NEW t \in Tabs, Start(t)
      PROVE  ElectionTypeOK'
  <2>1. inbox' = Posted(t, "instance-start") /\ connected' = connected
    BY <1>2 DEF Start
  <2>2. /\ inbox' \in [Tabs -> [Tabs -> Seq(Messages)]]
        /\ \A r, s \in Tabs : r = s \/ ~connected'[s] => inbox'[r][s] = <<>>
    BY <2>1, PostedType DEF Messages
  <2>3. starts' \in [Tabs -> 0..MaxStarts]
    BY <1>2, MaxStartsNat DEF Start, ElectionTypeOK
  <2>4. QED
    BY <1>2, <2>2, <2>3, IntervalOrNot DEF Start, ElectionTypeOK
<1>3. ASSUME NEW t \in Tabs, Stop(t)
      PROVE  ElectionTypeOK'
  <2>1. inbox' = Posted(t, "instance-stop") /\ connected' = connected
    BY <1>3 DEF Stop
  <2>2. /\ inbox' \in [Tabs -> [Tabs -> Seq(Messages)]]
        /\ \A r, s \in Tabs : r = s \/ ~connected'[s] => inbox'[r][s] = <<>>
    BY <2>1, PostedType DEF Messages
  <2>3. QED
    BY <1>3, <2>2 DEF Stop, Halt, ElectionTypeOK
<1>4. ASSUME NEW t \in Tabs, NEW box \in [Tabs -> [Tabs -> Seq(Messages)]],
             \A r, s \in Tabs : r = s \/ ~connected[s] => box[r][s] = <<>>,
             inbox' = Deaf(box, t),
             connected' = [connected EXCEPT ![t] = FALSE]
      PROVE  /\ inbox' \in [Tabs -> [Tabs -> Seq(Messages)]]
             /\ \A r, s \in Tabs : r = s \/ ~connected'[s] => inbox'[r][s] = <<>>
  <2>1. /\ inbox' \in [Tabs -> [Tabs -> Seq(Messages)]]
        /\ \A r \in Tabs : inbox'[r][t] = <<>>
        /\ \A r, s \in Tabs : box[r][s] = <<>> => inbox'[r][s] = <<>>
    BY <1>4, DeafType
  <2>2. \A s \in Tabs : s # t => connected'[s] = connected[s]
    BY <1>4 DEF ElectionTypeOK
  <2>3. ASSUME NEW r \in Tabs, NEW s \in Tabs, r = s \/ ~connected'[s]
        PROVE  inbox'[r][s] = <<>>
    BY <1>4, <2>1, <2>2, <2>3
  <2>4. QED
    BY <2>1, <2>3
<1>5. ASSUME NEW t \in Tabs, Disconnect(t)
      PROVE  ElectionTypeOK'
  <2>1. PICK box \in {inbox, Posted(t, "instance-stop")} : inbox' = Deaf(box, t)
    BY <1>5 DEF Disconnect
  <2>2. /\ box \in [Tabs -> [Tabs -> Seq(Messages)]]
        /\ \A r, s \in Tabs : r = s \/ ~connected[s] => box[r][s] = <<>>
    <3>1. CASE box = inbox
      BY <3>1 DEF ElectionTypeOK
    <3>2. CASE box = Posted(t, "instance-stop")
      BY <3>2, PostedType DEF Messages
    <3>3. QED
      BY <2>1, <3>1, <3>2
  <2>3. connected' = [connected EXCEPT ![t] = FALSE]
    BY <1>5 DEF Disconnect
  <2>4. QED
    BY <1>4, <1>5, <2>1, <2>2, <2>3 DEF Disconnect, Halt, ElectionTypeOK
<1>6. ASSUME NEW t \in Tabs, Close(t)
      PROVE  ElectionTypeOK'
  <2>1. inbox' = Deaf(inbox, t) /\ connected' = [connected EXCEPT ![t] = FALSE]
    BY <1>6 DEF Close
  <2>2. QED
    BY <1>4, <1>6, <2>1 DEF Close, Halt, ElectionTypeOK
<1>7. QED
  BY <1>1, <1>2, <1>3, <1>5, <1>6, HandleMessageType DEF ElectionNext, ElectionStep

\* Every variable of the election stays in its type, and no announcement is in
\* transit to the tab that posted it or to a closed channel.
THEOREM ElectionTypeCorrect == ElectionSpec => []ElectionTypeOK
  BY TypeInit, TypeStep, PTL DEF ElectionSpec

-----------------------------------------------------------------------------
(* The timer *)

\* With an interval or without, a timer needs a started tab that leads.
TimerInv ==
    \A t \in Tabs : timer[t] <=> WithInterval /\ isStarted[t] /\ isLeader[t]

LEMMA TimerStep ==
    ElectionTypeOK /\ TimerInv /\ [ElectionNext]_electionVars => TimerInv'
<1> SUFFICES ASSUME ElectionTypeOK, TimerInv, [ElectionNext]_electionVars
             PROVE  TimerInv'
  OBVIOUS
<1>1. CASE UNCHANGED electionVars
  BY <1>1 DEF electionVars, TimerInv
<1>2. ASSUME NEW t \in Tabs, Start(t)
      PROVE  TimerInv'
  BY <1>2 DEF Start, TimerInv, ElectionTypeOK
<1>3. ASSUME NEW t \in Tabs, Stop(t)
      PROVE  TimerInv'
  BY <1>3 DEF Stop, Halt, TimerInv, ElectionTypeOK
<1>4. ASSUME NEW t \in Tabs, Disconnect(t)
      PROVE  TimerInv'
  BY <1>4 DEF Disconnect, Halt, TimerInv, ElectionTypeOK
<1>5. ASSUME NEW t \in Tabs, Close(t)
      PROVE  TimerInv'
  BY <1>5 DEF Close, Halt, TimerInv, ElectionTypeOK
<1>6. ASSUME NEW t \in Tabs, NEW s \in Tabs, HandleMessage(s, t)
      PROVE  TimerInv'
  <2>1. isStarted' = isStarted
    BY <1>6 DEF HandleMessage
  <2>2. CASE UNCHANGED <<isLeader, timer>>
    BY <2>1, <2>2 DEF TimerInv
  <2>3. CASE CedeLeadership(t)
    BY <2>1, <2>3 DEF CedeLeadership, DropTimer, TimerInv, ElectionTypeOK
  <2>4. CASE BecomeLeader(t) /\ ~isLeader[t]
    BY <2>1, <2>4 DEF BecomeLeader, TimerInv, ElectionTypeOK
  <2>5. QED
    BY <1>6, <2>2, <2>3, <2>4 DEF HandleMessage, TakesOver
<1>7. QED
  BY <1>1, <1>2, <1>3, <1>4, <1>5, <1>6 DEF ElectionNext, ElectionStep

\* Whatever tabs start, stop, disconnect, close and announce, in whatever
\* order: a tab has the interval timer exactly while it is started and leads.
THEOREM TimerFollowsLeadershipHolds == ElectionSpec => []TimerFollowsLeadership
<1>1. ElectionInit => TimerInv
  BY DEF ElectionInit, TimerInv
<1>2. TimerInv => TimerFollowsLeadership
  BY DEF TimerInv, TimerFollowsLeadership
<1>3. QED
  BY <1>1, <1>2, TypeInit, TypeStep, TimerStep, PTL DEF ElectionSpec

-----------------------------------------------------------------------------
(* The smallest started tab leads *)

\* A tab that has ceded, and one that is up or of whose end nobody learns.
Cedes(t) == isStarted[t] /\ ~isLeader[t]
UpOrGone(s) == Up(s) \/ ~alive[s]

LastPosted(q) == q[Len(q)]
Holds(q, m) == \E i \in 1..Len(q) : q[i] = m

\* The last announcement in transit from a tab is its present state, unless the tab
\* was closed.
LastWord ==
    \A s, t \in Tabs :
        inbox[s][t] # <<>> /\ LastPosted(inbox[s][t]) = "instance-start" => UpOrGone(s)

\* A started tab that does not lead has ceded to a smaller one, which is still up,
\* was closed or whose stop is on its way.
Outranked ==
    \A t \in Tabs :
        Cedes(t) =>
            /\ connected[t]
            /\ \E s \in Tabs : s < t /\ (UpOrGone(s) \/ Holds(inbox[s][t], "instance-stop"))

QuietIInv == WithInterval => LastWord /\ Outranked

LEMMA PostedAt ==
    ASSUME ElectionTypeOK, NEW t \in Tabs, NEW m \in Messages, NEW s \in Tabs, NEW r \in Tabs
    PROVE  Posted(t, m)[s][r] =
             IF s = t /\ r # t /\ connected[t] /\ connected[r]
             THEN Append(inbox[s][r], m) ELSE inbox[s][r]
  BY DEF ElectionTypeOK, Posted

\* What an appended announcement, and the delivery of the first one, change.
LEMMA AppendedLast ==
    ASSUME NEW q \in Seq(Messages), NEW m \in Messages
    PROVE  /\ LastPosted(Append(q, m)) = m
           /\ Holds(Append(q, m), m)
           /\ \A x : Holds(q, x) => Holds(Append(q, m), x)
  <1>1. /\ Len(q) \in Nat
        /\ Len(Append(q, m)) = Len(q) + 1
        /\ \A i \in 1..Len(q) : Append(q, m)[i] = q[i]
        /\ Append(q, m)[Len(q) + 1] = m
    BY AppendProperties, LenProperties
  <1> DEFINE a == Append(q, m)
  <1> HIDE DEF a
  <1>2. /\ Len(q) \in Nat /\ Len(a) = Len(q) + 1
        /\ \A i \in 1..Len(q) : a[i] = q[i]
        /\ a[Len(q) + 1] = m
    BY <1>1 DEF a
  <1>3. LastPosted(a) = m /\ Holds(a, m) /\ \A x : Holds(q, x) => Holds(a, x)
    BY <1>2 DEF LastPosted, Holds
  <1>4. QED
    BY <1>3 DEF a

LEMMA DeliveredFirst ==
    ASSUME NEW q \in Seq(Messages), q # <<>>
    PROVE  /\ \A x : Holds(q, x) => x = Head(q) \/ Holds(Tail(q), x)
           /\ Tail(q) # <<>> => LastPosted(Tail(q)) = LastPosted(q)
           /\ Tail(q) = <<>> => LastPosted(q) = Head(q)
           /\ Tail(q) # <<>> =>
                 Holds(Tail(q), "instance-stop") \/ LastPosted(Tail(q)) = "instance-start"
           /\ Head(q) \in Messages
  <1>1. /\ Head(q) \in Messages /\ Tail(q) \in Seq(Messages)
        /\ Len(Tail(q)) = Len(q) - 1
        /\ \A i \in 1..Len(Tail(q)) : Tail(q)[i] = q[i + 1]
    BY HeadTailProperties
  <1>2. Len(q) \in Nat \ {0} /\ Head(q) = q[1]
    BY EmptySeq
  <1> DEFINE u == Tail(q)
             h == Head(q)
  <1>3. u = <<>> => Len(u) = 0
    BY EmptySeq
  <1>4. u # <<>> => Len(u) \in Nat \ {0}
    BY <1>1, EmptySeq
  <1>5. \A i \in 1..Len(u) : u[i] \in Messages
    BY <1>1, ElementOfSeq
  <1>6. h \in Messages /\ Len(u) = Len(q) - 1 /\ \A i \in 1..Len(u) : u[i] = q[i + 1]
    BY <1>1
  <1>7. h = q[1]
    BY <1>2
  <1> HIDE DEF u, h
  <1>8. \A x : Holds(q, x) => x = h \/ Holds(u, x)
    <2> SUFFICES ASSUME NEW i \in 1..Len(q), i # 1 PROVE Holds(u, q[i])
      BY <1>7 DEF Holds
    <2>1. i - 1 \in 1..Len(u) /\ (i - 1) + 1 = i
      BY <1>2, <1>6
    <2>2. QED
      BY <2>1, <1>6 DEF Holds
  <1>9. u # <<>> => LastPosted(u) = LastPosted(q)
    <2> SUFFICES ASSUME u # <<>> PROVE u[Len(u)] = q[Len(q)]
      BY DEF LastPosted
    <2>1. Len(u) \in 1..Len(u) /\ Len(u) + 1 = Len(q)
      BY <1>2, <1>4, <1>6
    <2>2. QED
      BY <2>1, <1>6
  <1>10. u = <<>> => LastPosted(q) = h
    <2> SUFFICES ASSUME u = <<>> PROVE q[Len(q)] = h
      BY DEF LastPosted
    <2>1. Len(q) = 1
      BY <1>2, <1>3, <1>6
    <2>2. QED
      BY <1>7, <2>1
  <1>11. u # <<>> => Holds(u, "instance-stop") \/ LastPosted(u) = "instance-start"
    <2> SUFFICES ASSUME u # <<>> PROVE Holds(u, "instance-stop") \/ LastPosted(u) = "instance-start"
      OBVIOUS
    <2>1. Len(u) \in 1..Len(u)
      BY <1>4
    <2>2. QED
      BY <2>1, <1>5 DEF Holds, LastPosted, Messages
  <1>12. QED
    BY <1>6, <1>8, <1>9, <1>10, <1>11 DEF u, h

\* A tab announces its start, or its stop, to the tabs that can hear it.
LEMMA StartQuiet ==
    ASSUME ElectionTypeOK, WithInterval, LastWord, Outranked, NEW t \in Tabs, Start(t)
    PROVE  LastWord' /\ Outranked'
  <1>1. \A s, r \in Tabs :
           inbox'[s][r] = IF s = t /\ r # t /\ connected[t] /\ connected[r]
                          THEN Append(inbox[s][r], "instance-start") ELSE inbox[s][r]
    BY PostedAt DEF Start, Messages
  <1>2. \A s, r \in Tabs : inbox[s][r] \in Seq(Messages)
    BY DEF ElectionTypeOK
  <1>3. /\ connected' = connected /\ alive' = alive
        /\ \A s \in Tabs : isStarted'[s] = (isStarted[s] \/ s = t)
        /\ \A s \in Tabs : isLeader'[s] = (isLeader[s] \/ s = t)
    BY DEF Start, ElectionTypeOK
  <1>4. LastWord'
    <2> SUFFICES ASSUME NEW s \in Tabs, NEW r \in Tabs, inbox'[s][r] # <<>>,
                        LastPosted(inbox'[s][r]) = "instance-start"
                 PROVE  UpOrGone(s)'
      BY DEF LastWord
    <2>1. CASE inbox'[s][r] = inbox[s][r]
      BY <2>1, <1>3 DEF LastWord, UpOrGone, Up
    <2>2. CASE s = t /\ connected[t]
      BY <2>2, <1>3 DEF UpOrGone, Up
    <2>3. QED
      BY <2>1, <2>2, <1>1
  <1>5. Outranked'
    <2> SUFFICES ASSUME NEW r \in Tabs, Cedes(r)'
                 PROVE  /\ connected'[r]
                        /\ \E s \in Tabs : s < r /\ (UpOrGone(s)' \/ Holds(inbox'[s][r], "instance-stop"))
      BY DEF Outranked
    <2>1. Cedes(r) /\ r # t
      BY <1>3 DEF Cedes
    <2>2. PICK s \in Tabs : s < r /\ (UpOrGone(s) \/ Holds(inbox[s][r], "instance-stop"))
      BY <2>1 DEF Outranked
    <2>3. UpOrGone(s) => UpOrGone(s)'
      BY <1>3 DEF UpOrGone, Up
    <2>4. Holds(inbox[s][r], "instance-stop") => Holds(inbox'[s][r], "instance-stop")
      BY <1>1, <1>2, AppendedLast DEF Messages
    <2>5. QED
      BY <1>3, <2>1, <2>2, <2>3, <2>4 DEF Outranked
  <1>6. QED
    BY <1>4, <1>5

\* What a stop and a disconnect of a started tab have in common.
LEMMA HaltQuiet ==
    ASSUME ElectionTypeOK, WithInterval, LastWord, Outranked, NEW t \in Tabs, isStarted[t], Halt(t),
           UNCHANGED alive,
           \A s \in Tabs : connected'[s] = connected[s] \/ (s = t /\ ~connected'[s]),
           \A s, r \in Tabs :
              r # t => inbox'[s][r] = Posted(t, "instance-stop")[s][r],
           \A s \in Tabs : inbox'[s][t] = inbox[s][t] \/ inbox'[s][t] = <<>>
    PROVE  LastWord' /\ Outranked'
  <1>1. \A s, r \in Tabs :
           r # t => inbox'[s][r] = IF s = t /\ connected[t] /\ connected[r]
                                   THEN Append(inbox[s][r], "instance-stop") ELSE inbox[s][r]
    BY PostedAt DEF Messages
  <1>2. /\ \A s, r \in Tabs : inbox[s][r] \in Seq(Messages)
        /\ \A s, r \in Tabs : s = r \/ ~connected[r] => inbox[s][r] = <<>>
    BY DEF ElectionTypeOK
  <1>3. /\ \A s \in Tabs : s # t => isStarted'[s] = isStarted[s] /\ isLeader'[s] = isLeader[s]
        /\ ~isStarted'[t]
    BY DEF Halt, ElectionTypeOK
  <1>4. LastWord'
    <2> SUFFICES ASSUME NEW s \in Tabs, NEW r \in Tabs, inbox'[s][r] # <<>>,
                        LastPosted(inbox'[s][r]) = "instance-start"
                 PROVE  UpOrGone(s)'
      BY DEF LastWord
    <2>1. CASE s # t
      <3>1. inbox'[s][r] = inbox[s][r]
        BY <1>1, <2>1
      <3>2. UpOrGone(s)
        BY <3>1 DEF LastWord
      <3>3. QED
        BY <1>3, <2>1, <3>2 DEF UpOrGone, Up
    <2>2. CASE s = t
      <3>1. r # t
        BY <1>2, <2>2
      <3>2. CASE connected[t] /\ connected[r]
        <4>1. LastPosted(inbox'[s][r]) = "instance-stop"
          BY <1>1, <1>2, <2>2, <3>1, <3>2, AppendedLast DEF Messages
        <4>2. QED
          BY <4>1
      <3>3. CASE ~connected[r]
        BY <1>1, <1>2, <3>1, <3>3
      <3>4. CASE ~connected[t]
        BY <1>1, <2>2, <3>1, <3>4 DEF LastWord, UpOrGone, Up
      <3>5. QED
        BY <3>2, <3>3, <3>4
    <2>3. QED
      BY <2>1, <2>2
  <1>5. Outranked'
    <2> SUFFICES ASSUME NEW r \in Tabs, Cedes(r)'
                 PROVE  /\ connected'[r]
                        /\ \E s \in Tabs : s < r /\ (UpOrGone(s)' \/ Holds(inbox'[s][r], "instance-stop"))
      BY DEF Outranked
    <2>1. Cedes(r) /\ r # t
      BY <1>3 DEF Cedes
    <2>2. connected[r] /\ connected'[r]
      BY <2>1 DEF Outranked
    <2>3. PICK s \in Tabs : s < r /\ (UpOrGone(s) \/ Holds(inbox[s][r], "instance-stop"))
      BY <2>1 DEF Outranked
    <2>4. CASE Holds(inbox[s][r], "instance-stop")
      <3>1. Holds(inbox'[s][r], "instance-stop")
        BY <1>1, <1>2, <2>1, <2>4, AppendedLast DEF Messages
      <3>2. QED
        BY <2>2, <2>3, <3>1
    <2>5. CASE Up(s) /\ s = t
      <3>1. Holds(inbox'[s][r], "instance-stop")
        BY <1>1, <1>2, <2>1, <2>2, <2>5, AppendedLast DEF Messages, Up
      <3>2. QED
        BY <2>2, <2>3, <3>1
    <2>6. CASE ~alive[s] \/ (Up(s) /\ s # t)
      BY <1>3, <2>2, <2>3, <2>6 DEF UpOrGone, Up
    <2>7. QED
      BY <2>3, <2>4, <2>5, <2>6 DEF UpOrGone
  <1>6. QED
    BY <1>4, <1>5

LEMMA DisconnectQuiet ==
    ASSUME ElectionTypeOK, WithInterval, LastWord, Outranked, NEW t \in Tabs, Disconnect(t)
    PROVE  LastWord' /\ Outranked'
  <1>1. \A s \in Tabs : connected'[s] = connected[s] \/ (s = t /\ ~connected'[s])
    BY DEF Disconnect, ElectionTypeOK
  <1>2. CASE isStarted[t]
    <2>1. Halt(t) /\ inbox' = Deaf(Posted(t, "instance-stop"), t) /\ UNCHANGED alive
      BY <1>2 DEF Disconnect
    <2>2. Posted(t, "instance-stop") \in [Tabs -> [Tabs -> Seq(Messages)]]
      BY PostedType DEF Messages
    <2>3. /\ \A s, r \in Tabs : r # t => inbox'[s][r] = Posted(t, "instance-stop")[s][r]
          /\ \A s \in Tabs : inbox'[s][t] = <<>>
      BY <2>1, <2>2 DEF Deaf
    <2>4. QED
      BY <1>1, <1>2, <2>1, <2>3, HaltQuiet
  <1>3. CASE ~isStarted[t]
    <2>1. UNCHANGED <<alive, isStarted, isLeader>> /\ inbox' = Deaf(inbox, t)
      BY <1>3 DEF Disconnect
    <2>2. /\ \A s, r \in Tabs : r # t => inbox'[s][r] = inbox[s][r]
          /\ \A s \in Tabs : inbox'[s][t] = <<>>
      BY <2>1 DEF Deaf, ElectionTypeOK
    <2>3. \A s \in Tabs : UpOrGone(s) => UpOrGone(s)'
      BY <1>1, <1>3, <2>1 DEF UpOrGone, Up
    <2>4. LastWord'
      BY <2>2, <2>3 DEF LastWord
    <2>5. \A r \in Tabs : Cedes(r)' => Cedes(r) /\ r # t
      BY <1>3, <2>1 DEF Cedes
    <2>6. Outranked'
      BY <1>1, <2>2, <2>3, <2>5 DEF Outranked
    <2>7. QED
      BY <2>4, <2>6
  <1>4. QED
    BY <1>2, <1>3

\* A delivered start makes a tab cede only to one that is up, or whose stop follows; a
\* delivered stop makes it lead.
LEMMA HandleQuiet ==
    ASSUME ElectionTypeOK, WithInterval, LastWord, Outranked, NEW s \in Tabs, NEW t \in Tabs,
           HandleMessage(s, t)
    PROVE  LastWord' /\ Outranked'
  <1> DEFINE q == inbox[s][t]
  <1>1. q \in Seq(Messages) /\ q # <<>> /\ connected[t] /\ s # t
    BY DEF HandleMessage, ElectionTypeOK
  <1>2. /\ \A r, u \in Tabs : inbox'[r][u] = IF r = s /\ u = t THEN Tail(q) ELSE inbox[r][u]
        /\ UNCHANGED <<alive, connected, isStarted>>
    BY DEF HandleMessage, ElectionTypeOK
  <1>3. \A u \in Tabs : u # t => isLeader'[u] = isLeader[u]
    BY DEF HandleMessage, BecomeLeader, CedeLeadership, ElectionTypeOK
  <1>4. /\ \A x : Holds(q, x) => x = Head(q) \/ Holds(Tail(q), x)
        /\ Tail(q) # <<>> => LastPosted(Tail(q)) = LastPosted(q)
        /\ Tail(q) = <<>> => LastPosted(q) = Head(q)
        /\ Tail(q) # <<>> =>
              Holds(Tail(q), "instance-stop") \/ LastPosted(Tail(q)) = "instance-start"
    BY <1>1, DeliveredFirst
  <1>5. \/ ~isLeader[t] /\ ~isLeader'[t] /\ Head(q) # "instance-stop"
        \/ isLeader'[t]
        \/ ~isStarted[t]
        \/ isLeader[t] /\ Head(q) = "instance-start" /\ s < t
    <2>1. s \in Nat /\ t \in Nat
      BY TabsAreNumbers
    <2>2. QED
      BY <2>1 DEF HandleMessage, BecomeLeader, CedeLeadership, TakesOver, ElectionTypeOK
  <1> HIDE DEF q
  <1>6. LastWord'
    <2> SUFFICES ASSUME NEW r \in Tabs, NEW u \in Tabs, inbox'[r][u] # <<>>,
                        LastPosted(inbox'[r][u]) = "instance-start"
                 PROVE  UpOrGone(r)'
      BY DEF LastWord
    <2>1. UpOrGone(r)
      BY <1>1, <1>2, <1>4 DEF LastWord, q
    <2>2. QED
      BY <1>2, <2>1 DEF UpOrGone, Up
  <1>7. Outranked'
    <2> SUFFICES ASSUME NEW u \in Tabs, Cedes(u)'
                 PROVE  /\ connected'[u]
                        /\ \E r \in Tabs : r < u /\ (UpOrGone(r)' \/ Holds(inbox'[r][u], "instance-stop"))
      BY DEF Outranked
    <2>1. CASE Cedes(u) /\ (u = t => Head(q) # "instance-stop")
      <3>1. PICK r \in Tabs : r < u /\ (UpOrGone(r) \/ Holds(inbox[r][u], "instance-stop"))
        BY <2>1 DEF Outranked
      <3>2. UpOrGone(r) => UpOrGone(r)'
        BY <1>2 DEF UpOrGone, Up
      <3>3. Holds(inbox[r][u], "instance-stop") => Holds(inbox'[r][u], "instance-stop")
        BY <1>2, <1>4, <2>1 DEF q
      <3>4. QED
        BY <1>2, <2>1, <3>1, <3>2, <3>3 DEF Outranked
    <2>2. CASE u = t /\ isLeader[t] /\ Head(q) = "instance-start" /\ s < t
      <3>1. inbox'[s][t] = Tail(q)
        BY <1>2
      <3>2. CASE Holds(Tail(q), "instance-stop")
        BY <1>1, <1>2, <2>2, <3>1, <3>2
      <3>3. CASE LastPosted(q) = "instance-start"
        <4>1. UpOrGone(s)
          BY <1>1, <3>3 DEF LastWord, q
        <4>2. QED
          BY <1>1, <1>2, <2>2, <4>1 DEF UpOrGone, Up
      <3>4. QED
        BY <1>4, <2>2, <3>2, <3>3
    <2>3. QED
      BY <1>2, <1>3, <1>5, <2>1, <2>2 DEF Cedes
  <1>8. QED
    BY <1>6, <1>7

\* A closed tab announces nothing, and nobody outranks it any more.
LEMMA CloseQuiet ==
    ASSUME ElectionTypeOK, LastWord, Outranked, NEW t \in Tabs, Close(t)
    PROVE  LastWord' /\ Outranked'
  <1>1. /\ \A s, r \in Tabs : r # t => inbox'[s][r] = inbox[s][r]
        /\ \A s \in Tabs : inbox'[s][t] = <<>>
    BY DEF Close, Deaf, ElectionTypeOK
  <1>2. /\ ~isStarted'[t] /\ ~alive'[t]
        /\ \A s \in Tabs : s # t =>
              /\ alive'[s] = alive[s] /\ connected'[s] = connected[s]
              /\ isStarted'[s] = isStarted[s] /\ isLeader'[s] = isLeader[s]
    BY DEF Close, Halt, ElectionTypeOK
  <1>3. \A s \in Tabs : UpOrGone(s) => UpOrGone(s)'
    BY <1>2 DEF UpOrGone, Up
  <1>4. LastWord'
    BY <1>1, <1>3 DEF LastWord
  <1>5. \A r \in Tabs : Cedes(r)' => Cedes(r) /\ r # t
    BY <1>2 DEF Cedes
  <1>6. Outranked'
    BY <1>1, <1>2, <1>3, <1>5 DEF Outranked
  <1>7. QED
    BY <1>4, <1>6

LEMMA QuietStep ==
    ElectionTypeOK /\ QuietIInv /\ [ElectionNext]_electionVars => QuietIInv'
  <1> SUFFICES ASSUME ElectionTypeOK, LastWord, Outranked, [ElectionNext]_electionVars, WithInterval
               PROVE  LastWord' /\ Outranked'
    BY DEF QuietIInv
  <1>1. CASE UNCHANGED electionVars
    BY <1>1 DEF electionVars, LastWord, Outranked, UpOrGone, Up, Cedes
  <1>2. ASSUME NEW t \in Tabs, ElectionStep(t) PROVE LastWord' /\ Outranked'
    <2>1. CASE Start(t)
      BY <2>1, StartQuiet
    <2>2. CASE Stop(t)
      <3>1. /\ isStarted[t] /\ Halt(t) /\ inbox' = Posted(t, "instance-stop")
            /\ connected' = connected /\ UNCHANGED alive
        BY <2>2 DEF Stop
      <3>2. \A s \in Tabs : inbox'[s][t] = inbox[s][t]
        BY <3>1, PostedAt DEF Messages
      <3>3. QED
        BY <3>1, <3>2, HaltQuiet
    <2>3. CASE Disconnect(t)
      BY <2>3, DisconnectQuiet
    <2>4. CASE Close(t)
      BY <2>4, CloseQuiet
    <2>5. CASE \E s \in Tabs : HandleMessage(s, t)
      BY <2>5, HandleQuiet
    <2>6. QED
      BY <1>2, <2>1, <2>2, <2>3, <2>4, <2>5 DEF ElectionStep
  <1>3. QED
    BY <1>1, <1>2 DEF ElectionNext

\* A set of tabs that is not empty has a smallest one.
LEMMA SmallestTab ==
    ASSUME NEW S \in SUBSET Tabs, S # {}
    PROVE  \E t \in S : \A s \in S : ~(s < t)
  <1>1. S \subseteq Nat
    BY TabsAreNumbers
  <1>2. PICK t \in S : \A s \in S : ~(<<s, t>> \in OpToRel(<, Nat))
    BY <1>1, NatLessThanWellFounded, WFMin
  <1>3. QED
    BY <1>1, <1>2 DEF OpToRel

\* With an interval: once every announcement is delivered, a started tab that does not
\* lead has ceded to a smaller one, which is up or was closed without stop().
THEOREM CededToSmallerHolds == ElectionSpec => []CededToSmaller
  <1>1. ElectionInit => QuietIInv
    BY DEF ElectionInit, QuietIInv, LastWord, Outranked, Cedes
  <1>2. QuietIInv => CededToSmaller
    <2> SUFFICES ASSUME QuietIInv, WithInterval, NothingInTransit, NEW t \in Tabs, Cedes(t)
                 PROVE  \E s \in Tabs : s < t /\ (Up(s) \/ ~alive[s])
      BY DEF CededToSmaller, Cedes
    <2>1. \A s \in Tabs : ~Holds(inbox[s][t], "instance-stop")
      <3>1. Len(<<>>) = 0
        OBVIOUS
      <3>2. ~Holds(<<>>, "instance-stop")
        BY <3>1 DEF Holds
      <3>3. QED
        BY <3>2 DEF NothingInTransit
    <2>2. QED
      BY <2>1 DEF QuietIInv, Outranked, UpOrGone
  <1>3. QED
    BY <1>1, <1>2, TypeInit, TypeStep, QuietStep, PTL DEF ElectionSpec

\* With an interval: once every announcement is delivered, the smallest of the started
\* tabs leads, unless a smaller tab was closed without stop().
SmallestLeads ==
    \A t \in Tabs :
        /\ WithInterval /\ NothingInTransit
        /\ isStarted[t]
        /\ \A s \in Tabs : s < t => alive[s] /\ ~isStarted[s]
        => isLeader[t]

\* So some started tab leads, as long as no tab is closed without stop().
SomeTabLeads ==
    /\ WithInterval /\ NothingInTransit
    /\ \A t \in Tabs : alive[t]
    /\ \E t \in Tabs : isStarted[t]
    => Leaders # {}

\* The smallest started tab leads once every announcement is delivered, whatever the
\* number of tabs and the order of their starts, stops and disconnects.
THEOREM SmallestStartedTabLeads == ElectionSpec => [](SmallestLeads /\ SomeTabLeads)
  <1>1. CededToSmaller => SmallestLeads
    BY DEF CededToSmaller, SmallestLeads, Up
  <1>2. SmallestLeads => SomeTabLeads
    <2> SUFFICES ASSUME SmallestLeads, WithInterval, NothingInTransit, \A t \in Tabs : alive[t],
                        NEW u \in Tabs, isStarted[u]
                 PROVE  Leaders # {}
      BY DEF SomeTabLeads
    <2>1. PICK t \in {r \in Tabs : isStarted[r]} :
             \A s \in {r \in Tabs : isStarted[r]} : ~(s < t)
      BY SmallestTab
    <2>2. QED
      BY <2>1 DEF SmallestLeads, Leaders
  <1>3. QED
    BY <1>1, <1>2, CededToSmallerHolds, PTL

-----------------------------------------------------------------------------
(* The scheduler *)

\* A step of the scheduler is a step of the election or leaves it alone.
LEMMA SchedStepElects == [SchedNext]_vars => [ElectionNext]_electionVars
  <1> SUFFICES ASSUME SchedNext PROVE [ElectionNext]_electionVars
    BY DEF vars
  <1>1. PICK t \in Tabs :
           Elect(t) \/ StopSyncs(t) \/ DisconnectSyncs(t) \/ CloseSyncs(t) \/ SyncStep(t)
    BY DEF SchedNext
  <1>2. CASE Elect(t) \/ StopSyncs(t) \/ DisconnectSyncs(t) \/ CloseSyncs(t)
    BY <1>2 DEF Elect, StopSyncs, DisconnectSyncs, CloseSyncs, ElectionNext, ElectionStep
  <1>3. CASE SyncStep(t)
    BY <1>3 DEF SyncStep, IntervalFires, Hide, Show, SyncNow, SyncSettles, SyncFails, Leave,
                MarkDirty, DebounceFires, SyncReads
  <1>4. QED
    BY <1>1, <1>2, <1>3

\* The syncs put no condition on the election and take no part in it: what is proved of
\* the election holds of the scheduler.
THEOREM SchedulerElects == SchedSpec => ElectionSpec
  BY SchedStepElects, PTL DEF SchedSpec, SchedInit, ElectionSpec

\* What the syncs keep.
SyncsTyped ==
    /\ dirty \in [Tabs -> SUBSET Projects]
    /\ wasHidden \in [Tabs -> BOOLEAN]
    /\ inFlight \in [Tabs -> SUBSET Keys]
    /\ seen \in [Tabs -> [Keys -> SUBSET Projects]]
    /\ unsynced \subseteq Projects
    /\ edits \in 0..MaxEdits
    /\ faults \in 0..MaxFaults

\* A closed tab has neither a timer nor a run; one that is started or connected is alive.
Buried ==
    \A t \in Tabs :
        /\ ~alive[t] => dirty[t] = {} /\ inFlight[t] = {} /\ ~connected[t] /\ ~isStarted[t]
        /\ timer[t] => alive[t]

\* Joining a run, or starting one, in a tab that is alive.
LEMMA JoinTyped ==
    ASSUME SyncsTyped, NEW t \in Tabs, NEW k \in Keys, Join(t, k)
    PROVE  /\ inFlight' \in [Tabs -> SUBSET Keys]
           /\ seen' \in [Tabs -> [Keys -> SUBSET Projects]]
           /\ \A s \in Tabs : s # t => inFlight'[s] = inFlight[s]
  <1>1. CASE UNCHANGED <<inFlight, seen>>
    BY <1>1 DEF SyncsTyped
  <1>2. CASE inFlight' = [inFlight EXCEPT ![t] = @ \cup {k}] /\ seen' = [seen EXCEPT ![t][k] = {}]
    <2>1. inFlight' \in [Tabs -> SUBSET Keys] /\ \A s \in Tabs : s # t => inFlight'[s] = inFlight[s]
      BY <1>2 DEF SyncsTyped
    <2>2. seen' \in [Tabs -> [Keys -> SUBSET Projects]]
      BY <1>2 DEF SyncsTyped
    <2>3. QED
      BY <2>1, <2>2
  <1>3. QED
    BY <1>1, <1>2 DEF Join

LEMMA SchedStepTypes ==
    ASSUME ElectionTypeOK, SyncsTyped, Buried, [SchedNext]_vars
    PROVE  SyncsTyped' /\ Buried'
  <1>f. \A x \in 0..MaxFaults : x < MaxFaults => x + 1 \in 0..MaxFaults
    BY BoundsNat
  <1>k. All \in Keys /\ Projects \subseteq Keys
    BY DEF Keys
  <1>1. CASE UNCHANGED vars
    BY <1>1 DEF vars, electionVars, syncVars, SyncsTyped, Buried
  <1>2. ASSUME NEW t \in Tabs, Elect(t) PROVE SyncsTyped' /\ Buried'
    <2>1. SyncsTyped'
      BY <1>2 DEF Elect, syncVars, SyncsTyped
    <2>2. CASE Start(t)
      <3>1. /\ alive[t] /\ UNCHANGED <<alive, connected>>
            /\ \A u \in Tabs : u # t => isStarted'[u] = isStarted[u] /\ timer'[u] = timer[u]
        BY <2>2 DEF Start, ElectionTypeOK
      <3>2. Buried'
        BY <1>2, <3>1 DEF Elect, syncVars, Buried
      <3>3. QED
        BY <2>1, <3>2
    <2>3. ASSUME NEW s \in Tabs, HandleMessage(s, t) PROVE Buried'
      <3>1. UNCHANGED <<alive, connected, isStarted>> /\ connected[t]
        BY <2>3 DEF HandleMessage, ElectionTypeOK
      <3>2. \A u \in Tabs : timer'[u] => timer[u] \/ u = t
        BY <2>3 DEF HandleMessage, BecomeLeader, CedeLeadership, DropTimer, ElectionTypeOK
      <3>3. alive[t]
        BY <3>1 DEF Buried
      <3>4. QED
        BY <1>2, <3>1, <3>2, <3>3 DEF Elect, syncVars, Buried
    <2>4. QED
      BY <1>2, <2>1, <2>2, <2>3 DEF Elect
  <1>3. ASSUME NEW t \in Tabs, StopSyncs(t) \/ DisconnectSyncs(t) PROVE SyncsTyped' /\ Buried'
    <2>1. dirty' = [dirty EXCEPT ![t] = {}] \/ dirty' = dirty
      BY <1>3 DEF StopSyncs, DisconnectSyncs, ForgetDirty
    <2>2. UNCHANGED <<alive, wasHidden, inFlight, seen, unsynced, edits, faults>>
      BY <1>3 DEF StopSyncs, DisconnectSyncs, Stop, Disconnect
    <2>3. \A u \in Tabs :
             /\ connected'[u] => connected[u]
             /\ isStarted'[u] => isStarted[u]
             /\ timer'[u] => timer[u]
      BY <1>3 DEF StopSyncs, DisconnectSyncs, Stop, Disconnect, Halt, ElectionTypeOK
    <2>4. SyncsTyped'
      BY <2>1, <2>2 DEF SyncsTyped
    <2>5. Buried'
      BY <2>1, <2>2, <2>3 DEF SyncsTyped, Buried
    <2>6. QED
      BY <2>4, <2>5
  <1>4. ASSUME NEW t \in Tabs, CloseSyncs(t) PROVE SyncsTyped' /\ Buried'
    <2>1. UNION {seen[t][k] : k \in inFlight[t]} \subseteq Projects
      BY DEF SyncsTyped
    <2>2. /\ dirty' = [dirty EXCEPT ![t] = {}]
          /\ inFlight' = [inFlight EXCEPT ![t] = {}]
          /\ seen' = [seen EXCEPT ![t] = [k \in Keys |-> {}]]
          /\ unsynced' = unsynced \cup UNION {seen[t][k] : k \in inFlight[t]}
          /\ UNCHANGED <<wasHidden, edits>>
          /\ faults < MaxFaults /\ faults' = faults + 1
      BY <1>4 DEF CloseSyncs, ForgetDirty, Fault
    <2>3. \A u \in Tabs :
             /\ alive'[u] <=> alive[u] /\ u # t
             /\ connected'[u] <=> connected[u] /\ u # t
             /\ isStarted'[u] <=> isStarted[u] /\ u # t
             /\ timer'[u] <=> timer[u] /\ u # t
      BY <1>4 DEF CloseSyncs, Close, Halt, ElectionTypeOK
    <2>4. dirty' \in [Tabs -> SUBSET Projects] /\ inFlight' \in [Tabs -> SUBSET Keys]
      BY <2>2 DEF SyncsTyped
    <2>5. seen' \in [Tabs -> [Keys -> SUBSET Projects]]
      BY <2>2 DEF SyncsTyped
    <2>6. SyncsTyped'
      BY <1>f, <2>1, <2>2, <2>4, <2>5 DEF SyncsTyped
    <2>7. Buried'
      BY <2>2, <2>3 DEF SyncsTyped, Buried
    <2>8. QED
      BY <2>6, <2>7
  <1>5. ASSUME NEW t \in Tabs, SyncStep(t), ~(UNCHANGED electionVars) PROVE FALSE
    BY <1>5 DEF SyncStep, IntervalFires, Hide, Show, SyncNow, SyncSettles, SyncFails, Leave,
                MarkDirty, DebounceFires, SyncReads
  <1>6. ASSUME NEW t \in Tabs, NEW k \in Keys, Join(t, k), alive[t], UNCHANGED electionVars,
               UNCHANGED <<unsynced, edits, faults>>,
               wasHidden' \in [Tabs -> BOOLEAN],
               \/ UNCHANGED dirty
               \/ \E p \in Projects : dirty' = [dirty EXCEPT ![t] = @ \ {p}]
        PROVE  SyncsTyped' /\ Buried'
    <2>1. dirty' \in [Tabs -> SUBSET Projects] /\ \A s \in Tabs : dirty'[s] \subseteq dirty[s]
      BY <1>6 DEF SyncsTyped
    <2>2. SyncsTyped'
      BY <1>6, <2>1, JoinTyped DEF SyncsTyped
    <2>3. \A s \in Tabs : s # t => inFlight'[s] = inFlight[s]
      BY <1>6, JoinTyped
    <2>4. Buried'
      BY <1>6, <2>1, <2>3 DEF Buried, electionVars
    <2>5. QED
      BY <2>2, <2>4
  <1>7. ASSUME NEW t \in Tabs, SyncStep(t) PROVE SyncsTyped' /\ Buried'
    <2>0. UNCHANGED electionVars
      BY <1>5, <1>7
    <2>1. CASE IntervalFires(t)
      BY <1>6, <1>k, <2>0, <2>1 DEF IntervalFires, Buried, SyncsTyped
    <2>2. CASE Hide(t)
      BY <2>0, <2>2 DEF Hide, SyncsTyped, Buried, electionVars
    <2>3. CASE Show(t)
      <3>1. wasHidden' \in [Tabs -> BOOLEAN]
        BY <2>3 DEF Show, SyncsTyped
      <3>2. QED
        BY <1>6, <1>k, <2>0, <2>3, <3>1 DEF Show
    <2>4. ASSUME NEW k \in Keys, SyncNow(t, k) PROVE SyncsTyped' /\ Buried'
      BY <1>6, <2>0, <2>4 DEF SyncNow, SyncsTyped
    <2>5. ASSUME NEW k \in Keys, Leave(t, k)
          PROVE  /\ inFlight' \in [Tabs -> SUBSET Keys]
                 /\ seen' \in [Tabs -> [Keys -> SUBSET Projects]]
                 /\ seen[t][k] \subseteq Projects
                 /\ \A s \in Tabs : inFlight'[s] \subseteq inFlight[s]
                 /\ UNCHANGED <<dirty, wasHidden, edits>>
      BY <2>5 DEF Leave, SyncsTyped
    <2>6. ASSUME NEW k \in Keys, SyncSettles(t, k) \/ SyncFails(t, k) PROVE SyncsTyped' /\ Buried'
      <3>1. /\ Leave(t, k)
            /\ unsynced' = unsynced \/ unsynced' = unsynced \cup seen[t][k]
            /\ faults' = faults \/ (faults < MaxFaults /\ faults' = faults + 1)
        BY <2>6 DEF SyncSettles, SyncFails, Fault
      <3>2. SyncsTyped'
        BY <1>f, <2>5, <3>1 DEF SyncsTyped
      <3>3. Buried'
        BY <2>0, <2>5, <3>1 DEF Buried, electionVars
      <3>4. QED
        BY <3>2, <3>3
    <2>7. ASSUME NEW p \in Projects, MarkDirty(t, p) PROVE SyncsTyped' /\ Buried'
      <3>1. edits' \in 0..MaxEdits
        BY <2>7, BoundsNat DEF MarkDirty, SyncsTyped
      <3>2. QED
        BY <2>0, <2>7, <3>1 DEF MarkDirty, SyncsTyped, Buried, electionVars
    <2>8. ASSUME NEW p \in Projects, DebounceFires(t, p) PROVE SyncsTyped' /\ Buried'
      <3>1. alive[t]
        BY <2>8 DEF DebounceFires, Buried
      <3>2. QED
        BY <1>6, <1>k, <2>0, <2>8, <3>1 DEF DebounceFires, SyncsTyped
    <2>9. ASSUME NEW k \in Keys, NEW p \in Projects, SyncReads(t, k, p) PROVE SyncsTyped' /\ Buried'
      <3>1. seen' \in [Tabs -> [Keys -> SUBSET Projects]]
        BY <2>9 DEF SyncReads, SyncsTyped
      <3>2. QED
        BY <2>0, <2>9, <3>1 DEF SyncReads, SyncsTyped, Buried, electionVars
    <2>10. QED
      BY <1>7, <2>1, <2>2, <2>3, <2>4, <2>6, <2>7, <2>8, <2>9 DEF SyncStep
  <1>8. QED
    BY <1>1, <1>2, <1>3, <1>4, <1>7 DEF SchedNext

\* Every variable of the scheduler stays in its type, and no debounce timer or run outlives
\* its tab.
THEOREM SchedTypeCorrect == SchedSpec => []SchedTypeOK
  <1> DEFINE Inv == ElectionTypeOK /\ SyncsTyped /\ Buried
  <1>1. SchedInit => Inv
    <2> SUFFICES ASSUME SchedInit PROVE Inv
      OBVIOUS
    <2>1. ElectionTypeOK
      BY TypeInit DEF SchedInit
    <2>2. SyncsTyped
      BY BoundsNat DEF SchedInit, SyncsTyped
    <2>3. Buried
      BY DEF SchedInit, ElectionInit, Buried
    <2>4. QED
      BY <2>1, <2>2, <2>3
  <1>2. Inv /\ [SchedNext]_vars => Inv'
    BY TypeStep, SchedStepElects, SchedStepTypes
  <1>3. Inv => SchedTypeOK
    BY DEF SchedTypeOK, SyncsTyped, Buried
  <1>4. QED
    BY <1>1, <1>2, <1>3, PTL DEF SchedSpec
==============================================================================
