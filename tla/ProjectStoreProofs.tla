-------------------------- MODULE ProjectStoreProofs --------------------------
(***************************************************************************)
(* Proofs about what a tab keeps of the projects, for any number of tabs,  *)
(* calls, projects and folders: Migrations (the once-only migration of     *)
(* local storage), ProjectRegistry (the list of projects), DataStore (the  *)
(* database that is open) and ProjectFolders (their folders on Drive).     *)
(***************************************************************************)
EXTENDS Migrations, ProjectRegistry, DataStore, ProjectFolders, TLAPS,
        WellFoundedInduction, FiniteSetTheorems

\* A set of numbers that is not empty has a least one.
LEMMA LeastNumber ==
  ASSUME NEW S, S \subseteq Nat, S # {}
  PROVE  \E m \in S : \A n \in S : m <= n
  <1>1. PICK m \in S : \A n \in S : <<n, m>> \notin OpToRel(<, Nat)
    BY NatLessThanWellFounded, WFMin, Zenon
  <1>2. \A n \in S : n \in Nat /\ m \in Nat /\ ~(n < m)
    BY <1>1 DEF OpToRel
  <1>3. QED
    BY <1>2

-----------------------------------------------------------------------------
(* Migrations                                                              *)

\* A call that was made has a tab.
Placed == \A c \in MigCall : migPc[c] # "idle" => migTab[c] \in MigTab

\* A call that executes holds the flight of its tab.
FlightHeld == \A c \in MigCall : c \in Executing => flight[migTab[c]] = c

\* What is marked or about to be has run, and what is stored is marked.
RunBacked ==
  /\ marked => runs > 0
  /\ \A c \in MigCall : migPc[c] = "mark" => runs > 0
  /\ \A c \in MigCall : migPc[c] \in {"stored", "ok"} => marked

\* As long as nothing excuses a second run: one call executes at a time, it enters
\* fn before fn has ever succeeded, and a success is marked or about to be.
OneAtATime ==
  /\ \A c, d \in MigCall : c \in Executing /\ d \in Executing => c = d
  /\ \A c \in MigCall : migPc[c] = "fn" => runs = 0
  /\ runs > 0 => marked \/ \E c \in MigCall : migPc[c] = "mark"
  /\ runs <= 1

MigIInv == MigTypeOK /\ Placed /\ FlightHeld /\ RunBacked /\ (~excused => OneAtATime)

\* The store and the calls start where the invariant holds.
LEMMA MigInitIInv == MigInit => MigIInv
  <1> SUFFICES ASSUME MigInit PROVE MigIInv
    OBVIOUS
  <1>1. MigTypeOK
    <2>1. 0 \in 0..MaxMigCalls /\ 0 \in Nat
      BY MigAssumption
    <2>2. QED
      BY <2>1 DEF MigInit, MigTypeOK
  <1>2. Placed /\ FlightHeld /\ RunBacked /\ OneAtATime
    BY DEF MigInit, Placed, FlightHeld, Executing, RunBacked, OneAtATime
  <1>3. QED
    BY <1>1, <1>2 DEF MigIInv

\* What the landing of a flight does to the calls, whatever its result.
LEMMA LandedTypes ==
  ASSUME MigTypeOK, NEW c \in MigCall, NEW r \in {"ok", "failed"}, Landed(c, r)
  PROVE  /\ migPc' \in [MigCall -> {"idle", "asked", "fn", "mark", "stored", "joined",
                                    "ok", "failed"}]
         /\ flight' \in [MigTab -> 0..MaxMigCalls]
         /\ \A d \in MigCall : \/ migPc'[d] = migPc[d]
                               \/ migPc'[d] = r /\ (migPc[d] # "idle" \/ d = c)
         /\ migPc'[c] = r
         /\ \A d \in MigCall : d # c /\ migPc[d] # "joined" => migPc'[d] = migPc[d]
         /\ \A t \in MigTab : flight'[t] = IF flight[t] = c THEN 0 ELSE flight[t]
  BY MigAssumption DEF MigTypeOK, Landed

\* No step leaves the types.
LEMMA MigStepType == MigTypeOK /\ Placed /\ [MigNext]_migVars => MigTypeOK'
  <1> SUFFICES ASSUME MigTypeOK, Placed, [MigNext]_migVars
               PROVE  MigTypeOK'
    OBVIOUS
  <1> USE MigAssumption
  <1>1. ASSUME NEW c \in MigCall, NEW t \in MigTab, runOnce(c, t)
        PROVE  MigTypeOK'
    BY <1>1 DEF runOnce, MigTypeOK
  <1>2. ASSUME NEW c \in MigCall, hasRun(c)
        PROVE  MigTypeOK'
    <2>1. migTab[c] \in MigTab
      BY <1>2 DEF hasRun, Placed
    <2>2. flight[migTab[c]] \in 0..MaxMigCalls /\ c \in 0..MaxMigCalls
      BY <2>1 DEF MigTypeOK, MigCall
    <2>3. flight' \in [MigTab -> 0..MaxMigCalls] /\ joined' \in [MigCall -> 0..MaxMigCalls]
      BY <1>2, <2>1, <2>2 DEF hasRun, InFlight, MigTypeOK
    <2>4. migPc' \in [MigCall -> {"idle", "asked", "fn", "mark", "stored", "joined", "ok",
                                   "failed"}]
      BY <1>2 DEF hasRun, MigTypeOK
    <2>5. excused' \in BOOLEAN
      BY <1>2 DEF hasRun, MigTypeOK
    <2>6. UNCHANGED <<marked, migTab, runs>>
      BY <1>2 DEF hasRun
    <2>7. QED
      BY <2>3, <2>4, <2>5, <2>6 DEF MigTypeOK
  <1>3. ASSUME NEW c \in MigCall, FnSucceeds(c)
        PROVE  MigTypeOK'
    BY <1>3 DEF FnSucceeds, MigTypeOK
  <1>4. ASSUME NEW c \in MigCall, MarkCommits(c)
        PROVE  MigTypeOK'
    BY <1>4 DEF MarkCommits, MigTypeOK
  <1>5. ASSUME NEW c \in MigCall, FnFails(c)
        PROVE  MigTypeOK'
    BY <1>5, LandedTypes DEF FnFails, MigTypeOK
  <1>6. ASSUME NEW c \in MigCall, MarkFails(c)
        PROVE  MigTypeOK'
    BY <1>6, LandedTypes DEF MarkFails, MigTypeOK
  <1>7. ASSUME NEW c \in MigCall, Lands(c)
        PROVE  MigTypeOK'
    BY <1>7, LandedTypes DEF Lands, MigTypeOK
  <1>8. ASSUME NEW t \in MigTab, CloseTab(t)
        PROVE  MigTypeOK'
    BY <1>8 DEF CloseTab, MigTypeOK
  <1>9. CASE UNCHANGED migVars
    BY <1>9 DEF migVars, MigTypeOK
  <1>10. QED
    BY <1>1, <1>2, <1>3, <1>4, <1>5, <1>6, <1>7, <1>8, <1>9 DEF MigNext

\* Calls keep the tab they were made in.
LEMMA StepPlaced == MigTypeOK /\ Placed /\ [MigNext]_migVars => Placed'
  <1> SUFFICES ASSUME MigTypeOK, Placed, [MigNext]_migVars
               PROVE  Placed'
    OBVIOUS
  <1>1. ASSUME NEW c \in MigCall, NEW t \in MigTab, runOnce(c, t)
        PROVE  Placed'
    BY <1>1 DEF runOnce, MigTypeOK, Placed
  <1>2. ASSUME NEW c \in MigCall, hasRun(c) \/ FnSucceeds(c) \/ MarkCommits(c)
        PROVE  Placed'
    BY <1>2 DEF hasRun, FnSucceeds, MarkCommits, MigTypeOK, Placed
  <1>3. ASSUME NEW c \in MigCall, FnFails(c) \/ MarkFails(c) \/ Lands(c)
        PROVE  Placed'
    <2>1. PICK r \in {"ok", "failed"} : Landed(c, r)
      BY <1>3 DEF FnFails, MarkFails, Lands
    <2>2. migPc[c] # "idle" /\ UNCHANGED migTab
      BY <1>3 DEF FnFails, MarkFails, Lands
    <2>3. QED
      BY <2>1, <2>2, LandedTypes DEF Placed
  <1>4. ASSUME NEW t \in MigTab, CloseTab(t)
        PROVE  Placed'
    BY <1>4 DEF CloseTab, Placed
  <1>5. CASE UNCHANGED migVars
    BY <1>5 DEF migVars, Placed
  <1>6. QED
    BY <1>1, <1>2, <1>3, <1>4, <1>5 DEF MigNext

\* What hasRun() of a call that takes off finds and leaves.
LEMMA TakesOff ==
  ASSUME MigTypeOK, Placed, FlightHeld, NEW c \in MigCall, hasRun(c), migPc'[c] = "fn"
  PROVE  /\ ~marked
         /\ migTab[c] \in MigTab
         /\ flight' = [flight EXCEPT ![migTab[c]] = c]
         /\ \A d \in Executing : migTab[d] # migTab[c]
  <1>1. migTab[c] \in MigTab
    BY DEF hasRun, Placed
  <1>2. ~marked /\ flight[migTab[c]] = 0
    BY DEF hasRun, InFlight, MigTypeOK
  <1>3. \A d \in Executing : migTab[d] # migTab[c]
    BY <1>2, MigAssumption DEF FlightHeld, Executing, MigCall
  <1>4. QED
    BY <1>1, <1>2, <1>3 DEF hasRun, InFlight

\* A migration in flight goes on holding its place.
LEMMA StepFlightHeld ==
  MigTypeOK /\ Placed /\ FlightHeld /\ [MigNext]_migVars => FlightHeld'
  <1> SUFFICES ASSUME MigTypeOK, Placed, FlightHeld, [MigNext]_migVars,
                      NEW d \in MigCall, d \in Executing'
               PROVE  (flight[migTab[d]] = d)'
    BY DEF FlightHeld
  <1> USE DEF Executing, FlightHeld
  <1>1. ASSUME NEW c \in MigCall, NEW t \in MigTab, runOnce(c, t)
        PROVE  (flight[migTab[d]] = d)'
    BY <1>1 DEF runOnce, MigTypeOK
  <1>2. ASSUME NEW c \in MigCall, hasRun(c)
        PROVE  (flight[migTab[d]] = d)'
    <2>1. CASE migPc'[c] = "fn"
      <3>1. CASE d = c
        BY <1>2, <2>1, <3>1, TakesOff DEF hasRun, MigTypeOK
      <3>2. CASE d # c
        <4>1. d \in Executing /\ migTab' = migTab /\ migTab[d] \in MigTab
          BY <1>2, <3>2 DEF hasRun, MigTypeOK, Placed
        <4>2. QED
          BY <1>2, <2>1, <4>1, TakesOff DEF MigTypeOK
      <3>3. QED
        BY <3>1, <3>2
    <2>2. CASE migPc'[c] # "fn"
      <3>1. flight' = flight /\ migTab' = migTab
        BY <1>2, <2>2 DEF hasRun, MigTypeOK
      <3>2. d # c /\ migPc'[d] = migPc[d]
        BY <1>2, <2>2 DEF hasRun, MigTypeOK
      <3>3. QED
        BY <3>1, <3>2
    <2>3. QED
      BY <2>1, <2>2
  <1>3. ASSUME NEW c \in MigCall, FnSucceeds(c) \/ MarkCommits(c)
        PROVE  (flight[migTab[d]] = d)'
    BY <1>3 DEF FnSucceeds, MarkCommits, MigTypeOK
  <1>4. ASSUME NEW c \in MigCall, FnFails(c) \/ MarkFails(c) \/ Lands(c)
        PROVE  (flight[migTab[d]] = d)'
    <2>1. PICK r \in {"ok", "failed"} : Landed(c, r)
      BY <1>4 DEF FnFails, MarkFails, Lands
    <2>2. d # c /\ d \in Executing /\ migTab' = migTab
      BY <1>4, <2>1, LandedTypes DEF FnFails, MarkFails, Lands
    <2>3. migTab[d] \in MigTab
      BY <2>2 DEF Placed
    <2>4. QED
      BY <2>1, <2>2, <2>3, LandedTypes
  <1>5. ASSUME NEW t \in MigTab, CloseTab(t)
        PROVE  (flight[migTab[d]] = d)'
    <2>1. migTab[d] # t /\ d \in Executing /\ migTab' = migTab
      BY <1>5 DEF CloseTab
    <2>2. QED
      BY <1>5, <2>1 DEF CloseTab, MigTypeOK
  <1>6. CASE UNCHANGED migVars
    BY <1>6 DEF migVars
  <1>7. QED
    BY <1>1, <1>2, <1>3, <1>4, <1>5, <1>6 DEF MigNext

\* A run that has been recorded is one that a flight has carried out.
LEMMA StepRunBacked == MigTypeOK /\ RunBacked /\ [MigNext]_migVars => RunBacked'
  <1> SUFFICES ASSUME MigTypeOK, RunBacked, [MigNext]_migVars
               PROVE  RunBacked'
    OBVIOUS
  <1> USE DEF RunBacked
  <1>1. ASSUME NEW c \in MigCall, NEW t \in MigTab, runOnce(c, t)
        PROVE  RunBacked'
    BY <1>1 DEF runOnce, MigTypeOK
  <1>2. ASSUME NEW c \in MigCall, hasRun(c) \/ FnSucceeds(c) \/ MarkCommits(c)
        PROVE  RunBacked'
    BY <1>2 DEF hasRun, FnSucceeds, MarkCommits, MigTypeOK
  <1>3. ASSUME NEW c \in MigCall, FnFails(c) \/ MarkFails(c)
        PROVE  RunBacked'
    <2>1. Landed(c, "failed") /\ UNCHANGED <<marked, runs>>
      BY <1>3 DEF FnFails, MarkFails
    <2>2. QED
      BY <2>1, LandedTypes
  <1>4. ASSUME NEW c \in MigCall, Lands(c)
        PROVE  RunBacked'
    <2>1. Landed(c, "ok") /\ UNCHANGED <<marked, runs>> /\ marked
      BY <1>4 DEF Lands
    <2>2. QED
      BY <2>1, LandedTypes
  <1>5. ASSUME NEW t \in MigTab, CloseTab(t)
        PROVE  RunBacked'
    BY <1>5 DEF CloseTab
  <1>6. CASE UNCHANGED migVars
    BY <1>6 DEF migVars
  <1>7. QED
    BY <1>1, <1>2, <1>3, <1>4, <1>5, <1>6 DEF MigNext

\* While nothing excuses it, no second run starts beside the first.
LEMMA StepOneAtATime == MigIInv /\ [MigNext]_migVars => (~excused => OneAtATime)'
  <1> SUFFICES ASSUME MigIInv, [MigNext]_migVars, ~excused'
               PROVE  OneAtATime'
    OBVIOUS
  <1>0. ~excused /\ OneAtATime
    <2>1. ASSUME NEW c \in MigCall, hasRun(c)
          PROVE  ~excused
      BY <2>1 DEF hasRun
    <2>2. ASSUME NEW t \in MigTab, CloseTab(t)
          PROVE  ~excused
      BY <2>2 DEF CloseTab
    <2>3. ~excused
      BY <2>1, <2>2 DEF MigNext, migVars, runOnce, FnSucceeds, FnFails, MarkCommits, MarkFails,
        Lands
    <2>4. QED
      BY <2>3 DEF MigIInv
  <1> USE <1>0 DEF MigIInv, OneAtATime, Executing
  <1>1. ASSUME NEW c \in MigCall, NEW t \in MigTab, runOnce(c, t)
        PROVE  OneAtATime'
    BY <1>1 DEF runOnce, MigTypeOK
  <1>2. ASSUME NEW c \in MigCall, hasRun(c)
        PROVE  OneAtATime'
    <2>1. CASE migPc'[c] = "fn"
      <3>1. Executing = {} /\ ~marked
        BY <1>2, <2>1, TakesOff DEF hasRun
      <3>2. runs = 0
        BY <3>1 DEF MigTypeOK
      <3>3. QED
        BY <1>2, <3>1, <3>2 DEF hasRun, MigTypeOK
    <2>2. CASE migPc'[c] # "fn"
      BY <1>2, <2>2 DEF hasRun, MigTypeOK
    <2>3. QED
      BY <2>1, <2>2
  <1>3. ASSUME NEW c \in MigCall, FnSucceeds(c)
        PROVE  OneAtATime'
    BY <1>3 DEF FnSucceeds, MigTypeOK
  <1>4. ASSUME NEW c \in MigCall, MarkCommits(c)
        PROVE  OneAtATime'
    BY <1>4 DEF MarkCommits, MigTypeOK
  <1>5. ASSUME NEW c \in MigCall, FnFails(c)
        PROVE  OneAtATime'
    <2>1. Landed(c, "failed") /\ UNCHANGED <<marked, runs>> /\ runs = 0
      BY <1>5 DEF FnFails
    <2>2. QED
      BY <2>1, LandedTypes
  <1>6. ASSUME NEW c \in MigCall, Lands(c)
        PROVE  OneAtATime'
    <2>1. Landed(c, "ok") /\ UNCHANGED <<marked, runs>> /\ marked
      BY <1>6 DEF Lands, RunBacked
    <2>2. QED
      BY <2>1, LandedTypes
  <1>7. ASSUME NEW t \in MigTab, CloseTab(t)
        PROVE  OneAtATime'
    BY <1>7 DEF CloseTab, MigTypeOK
  <1>8. CASE UNCHANGED migVars
    BY <1>8 DEF migVars
  <1>9. QED
    BY <1>1, <1>2, <1>3, <1>4, <1>5, <1>6, <1>7, <1>8, <1>0 DEF MigNext, MarkFails

\* The inductive invariant, of which the theorems below are parts.
THEOREM MigInvariant == MigSpec => []MigIInv
  <1>1. MigIInv /\ [MigNext]_migVars => MigIInv'
    BY MigStepType, StepPlaced, StepFlightHeld, StepRunBacked, StepOneAtATime DEF MigIInv
  <1>2. QED
    BY MigInitIInv, <1>1, PTL DEF MigSpec

\* Every variable of runOnce() stays in its type.
THEOREM MigTypeCorrect == MigSpec => []MigTypeOK
  BY MigInvariant, PTL DEF MigIInv

\* A caller whose runOnce() resolves finds the effects of fn and the marker, whichever
\* call ran it and whatever failed or was closed before.
THEOREM RanBeforeResolved == MigSpec => []ResolvedMeansRan
  <1>1. MigIInv => ResolvedMeansRan
    BY DEF MigIInv, RunBacked, ResolvedMeansRan
  <1>2. QED
    BY MigInvariant, <1>1, PTL

\* fn succeeds twice only if two tabs have overlapped or a success was not marked.
THEOREM OnceUnlessExcusedHolds == MigSpec => []OnceUnlessExcused
  <1>1. MigIInv => OnceUnlessExcused
    BY DEF MigIInv, MigTypeOK, OneAtATime, OnceUnlessExcused
  <1>2. QED
    BY MigInvariant, <1>1, PTL

-----------------------------------------------------------------------------
(* ProjectRegistry                                                         *)

\* The name check finds a holder of the name whenever there is one.
LEMMA ExistingHolds ==
  ASSUME NEW n, Holders(n) # {}
  PROVE  Existing(n) \in Holders(n)
  <1>1. Holders(n) \subseteq Nat
    BY DEF Holders, Project
  <1>2. \E i \in Holders(n) : \A j \in Holders(n) : i <= j
    BY <1>1, LeastNumber
  <1>3. QED
    BY <1>2 DEF Existing

RegPcs == {"idle", "createCheck", "add", "renameGet", "renameCheck", "put", "remove",
           "removeState", "ok", "failed"}

\* What the type invariant leaves out: the shape of the calls and of the history.
RegShape ==
  /\ nextId \in 0..MaxProjects
  /\ regCall \in [RegCall -> [pc : RegPcs, id : 0..MaxProjects, name : ProjectName]]
  /\ writer \in [Project -> 0..MaxRegCalls]
  /\ revivers \in [Project -> SUBSET RegCall]
  /\ \A c \in RegCall :
       regCall[c].pc \in {"renameGet", "renameCheck", "put", "remove", "removeState"}
         => regCall[c].id \in 1..nextId
  /\ \A c \in RegCall : regCall[c].pc \in {"createCheck", "add"} => regCall[c].id = 0

Both(c, d) == <<c, d>> \in met /\ <<d, c>> \in met

\* Calls that are about to write have met.
ClaimersMet == \A c, d \in Claiming : c # d => Both(c, d)

\* A call about to write a name has met whoever gave it to another project, unless
\* that project has shared it with the call's own before.
HoldersMet ==
  \A c \in Claiming : \A j \in Holders(regCall[c].name) \ {regCall[c].id} :
    \/ Both(c, writer[j])
    \/ /\ regCall[c].pc = "put"
       /\ <<{regCall[c].id, j}, normalizeProjectName(regCall[c].name)>> \in shared

\* What is shared is recorded.
SharingKnown ==
  \A i, j \in Project : i # j /\ SameName(i, j) => CommonName(i, j) \in shared

\* A rename under way whose project has been removed had read it by then.
RevivalsKnown ==
  \A c \in RegCall : regCall[c].pc \in {"renameCheck", "put"} /\ projects[regCall[c].id] = Absent
    => c \in revivers[regCall[c].id]

RegIInv == RegTypeOK /\ RegShape /\ ClaimersMet /\ HoldersMet /\ SharingKnown /\ RevivalsKnown

\* The registry starts with the projects it is given and no call under way.
LEMMA RegInitIInv == RegInit => RegIInv
  <1> SUFFICES ASSUME RegInit PROVE RegIInv
    OBVIOUS
  <1> USE RegAssumption DEF RegInit, IdleCall
  <1>1. RegTypeOK
    BY DEF RegTypeOK
  <1>2. RegShape
    BY DEF RegShape, RegPcs
  <1>3. ClaimersMet /\ HoldersMet /\ RevivalsKnown
    BY DEF ClaimersMet, HoldersMet, RevivalsKnown, Claiming
  <1>4. SharingKnown
    BY DEF SharingKnown, SameName
  <1>5. QED
    BY <1>1, <1>2, <1>3, <1>4 DEF RegIInv

\* Calls c that write their name to project i.
Writes(c, i) ==
  /\ c \in Claiming /\ i \in Project
  /\ i = IF regCall[c].pc = "add" THEN nextId + 1 ELSE regCall[c].id
  /\ projects' = [projects EXCEPT ![i] = regCall[c].name]
  /\ writer' = [writer EXCEPT ![i] = c]
  /\ Goto(c, "ok")
  /\ Shares
  /\ UNCHANGED <<met, revivers>>

\* The steps that write a name are those of CreateAdd() and RenamePut().
LEMMA WritersWrite ==
  ASSUME RegShape, NEW c \in RegCall, CreateAdd(c) \/ RenamePut(c)
  PROVE  \E i \in Project : Writes(c, i)
  <1>1. CASE CreateAdd(c)
    <2>1. nextId + 1 \in Project
      BY <1>1, RegAssumption DEF CreateAdd, RegShape, Project
    <2>2. QED
      BY <1>1, <2>1 DEF CreateAdd, Writes, Claiming
  <1>2. CASE RenamePut(c)
    <2>1. regCall[c].id \in Project
      BY <1>2, RegAssumption DEF RenamePut, RegShape, Project
    <2>2. QED
      BY <1>2, <2>1 DEF RenamePut, Writes, Claiming
  <1>3. QED
    BY <1>1, <1>2

\* The name check changes the caller's place and, if it passes, what calls have met.
LEMMA CheckTypes ==
  ASSUME RegTypeOK, RegShape, NEW c \in RegCall,
         CreateCheck(c) \/ RenameCheck(c)
  PROVE  /\ \E pc \in {"add", "put", "failed"} :
              /\ Goto(c, pc)
              /\ regCall[c].pc \in {"createCheck", "renameCheck"}
              /\ pc = "add" => regCall[c].pc = "createCheck"
              /\ pc = "put" => regCall[c].pc = "renameCheck"
              /\ pc # "failed" => /\ Existing(regCall[c].name) \in {0, regCall[c].id}
                                  /\ met' = met \cup ({c} \X Claiming) \cup (Claiming \X {c})
              /\ pc = "failed" => met' = met
         /\ UNCHANGED <<projects, syncRows, nextId, writer, shared, revivers>>
  BY DEF CreateCheck, RenameCheck, Check

\* No step leaves the types or the way of a call.
LEMMA RegStepTypes ==
  RegTypeOK /\ RegShape /\ [RegNext]_regVars => RegTypeOK' /\ RegShape'
  <1> SUFFICES ASSUME RegTypeOK, RegShape, [RegNext]_regVars
               PROVE  RegTypeOK' /\ RegShape'
    OBVIOUS
  <1> USE RegAssumption DEF RegTypeOK, RegShape, RegPcs, Goto
  <1>1. ASSUME NEW c \in RegCall, NEW name \in ProjectName, create(c, name)
        PROVE  RegTypeOK' /\ RegShape'
    BY <1>1 DEF create
  <1>2. ASSUME NEW c \in RegCall, NEW id \in Project, NEW name \in ProjectName,
               rename(c, id, name)
        PROVE  RegTypeOK' /\ RegShape'
    BY <1>2 DEF rename, Project
  <1>3. ASSUME NEW c \in RegCall, NEW id \in Project, remove(c, id)
        PROVE  RegTypeOK' /\ RegShape'
    BY <1>3 DEF remove, Project
  <1>4. ASSUME NEW c \in RegCall, CreateCheck(c) \/ RenameCheck(c)
        PROVE  RegTypeOK' /\ RegShape'
    BY <1>4, CheckTypes
  <1>5. ASSUME NEW c \in RegCall, CreateAdd(c)
        PROVE  RegTypeOK' /\ RegShape'
    <2>1. nextId' = nextId + 1 /\ nextId' \in 0..MaxProjects
      BY <1>5 DEF CreateAdd
    <2>2. projects' \in [Project -> ProjectName \cup {Absent}]
      BY <1>5 DEF CreateAdd
    <2>3. \A i \in Project : i > nextId' => projects'[i] = Absent
      BY <1>5, <2>1 DEF CreateAdd, Project
    <2>4. regCall' = [regCall EXCEPT ![c].pc = "ok"] /\ syncRows' = syncRows /\ revivers' = revivers
      BY <1>5 DEF CreateAdd
    <2>5. c \in 0..MaxRegCalls
      BY DEF RegCall
    <2>6. writer' \in [Project -> 0..MaxRegCalls]
      BY <1>5, <2>5 DEF CreateAdd
    <2>7. RegTypeOK'
      BY <2>1, <2>2, <2>3, <2>4
    <2>8. RegShape'
      BY <2>1, <2>4, <2>6
    <2>9. QED
      BY <2>7, <2>8
  <1>6. ASSUME NEW c \in RegCall, RenamePut(c)
        PROVE  RegTypeOK' /\ RegShape'
    <2>1. regCall[c].id \in 1..nextId /\ nextId' = nextId
      BY <1>6 DEF RenamePut
    <2>2. projects' \in [Project -> ProjectName \cup {Absent}]
      BY <1>6 DEF RenamePut
    <2>3. \A i \in Project : i > nextId' => projects'[i] = Absent
      BY <1>6, <2>1 DEF RenamePut, Project
    <2>4. regCall' = [regCall EXCEPT ![c].pc = "ok"] /\ syncRows' = syncRows /\ revivers' = revivers
      BY <1>6 DEF RenamePut
    <2>5. c \in 0..MaxRegCalls
      BY DEF RegCall
    <2>6. writer' \in [Project -> 0..MaxRegCalls]
      BY <1>6, <2>5 DEF RenamePut
    <2>7. RegTypeOK'
      BY <2>1, <2>2, <2>3, <2>4
    <2>8. RegShape'
      BY <2>1, <2>4, <2>6
    <2>9. QED
      BY <2>7, <2>8
  <1>7. ASSUME NEW c \in RegCall, RenameGet(c) \/ RemoveState(c) \/ CutOff(c)
        PROVE  RegTypeOK' /\ RegShape'
    BY <1>7 DEF RenameGet, RemoveState, CutOff
  <1>8. ASSUME NEW c \in RegCall, RemoveProject(c)
        PROVE  RegTypeOK' /\ RegShape'
    BY <1>8 DEF RemoveProject
  <1>9. ASSUME NEW id \in Project, SaveState(id)
        PROVE  RegTypeOK' /\ RegShape'
    BY <1>9 DEF SaveState, Project
  <1>10. CASE UNCHANGED regVars
    BY <1>10 DEF regVars
  <1>11. QED
    BY <1>1, <1>2, <1>3, <1>4, <1>5, <1>6, <1>7, <1>8, <1>9, <1>10 DEF RegNext

\* Every other step writes no name and lets no call claim one.
LEMMA RegStepKinds ==
  ASSUME RegTypeOK, RegShape, [RegNext]_regVars
  PROVE  \/ \E c \in RegCall : CreateCheck(c) \/ RenameCheck(c)
         \/ \E c \in RegCall, i \in Project : Writes(c, i)
         \/ /\ Claiming' \subseteq Claiming
            /\ \A c \in Claiming' : regCall'[c] = regCall[c]
            /\ \A i \in Project : projects'[i] \in {projects[i], Absent}
            /\ UNCHANGED <<met, writer, shared>>
  <1> DEFINE Quiet ==
        /\ Claiming' \subseteq Claiming
        /\ \A c \in Claiming' : regCall'[c] = regCall[c]
        /\ \A i \in Project : projects'[i] \in {projects[i], Absent}
        /\ UNCHANGED <<met, writer, shared>>
  <1> USE DEF RegShape, Claiming, Goto
  <1>1. ASSUME NEW c \in RegCall, NEW name \in ProjectName, create(c, name)
        PROVE  Quiet
    BY <1>1 DEF create
  <1>2. ASSUME NEW c \in RegCall, NEW id \in Project, NEW name \in ProjectName,
               rename(c, id, name)
        PROVE  Quiet
    BY <1>2 DEF rename
  <1>3. ASSUME NEW c \in RegCall, NEW id \in Project, remove(c, id)
        PROVE  Quiet
    BY <1>3 DEF remove
  <1>4. ASSUME NEW c \in RegCall, RenameGet(c) \/ RemoveState(c) \/ CutOff(c)
        PROVE  Quiet
    BY <1>4 DEF RenameGet, RemoveState, CutOff
  <1>5. ASSUME NEW c \in RegCall, RemoveProject(c)
        PROVE  Quiet
    BY <1>5 DEF RemoveProject, RegTypeOK
  <1>6. ASSUME NEW id \in Project, SaveState(id)
        PROVE  Quiet
    BY <1>6 DEF SaveState
  <1>7. CASE UNCHANGED regVars
    BY <1>7 DEF regVars
  <1>8. QED
    BY <1>1, <1>2, <1>3, <1>4, <1>5, <1>6, <1>7, WritersWrite DEF RegNext

\* Two projects come to share a name only where the history notes it.
LEMMA StepSharingKnown == RegIInv /\ [RegNext]_regVars => SharingKnown'
  <1> SUFFICES ASSUME RegIInv, [RegNext]_regVars,
                      NEW i \in Project, NEW j \in Project, i # j, SameName(i, j)'
               PROVE  CommonName(i, j)' \in shared'
    BY DEF SharingKnown
  <1> USE DEF RegIInv
  <1>1. CASE \E c \in RegCall : CreateCheck(c) \/ RenameCheck(c)
    BY <1>1, CheckTypes DEF SharingKnown, SameName, CommonName
  <1>2. ASSUME NEW c \in RegCall, NEW k \in Project, Writes(c, k)
        PROVE  CommonName(i, j)' \in shared'
    <2>1. CommonName(i, j)' \in Sharing'
      <3>1. <<i, j>> \in {q \in Project \X Project : q[1] # q[2] /\ SameName(q[1], q[2])'}
        OBVIOUS
      <3>2. QED
        BY <3>1 DEF Sharing
    <2>2. QED
      BY <1>2, <2>1 DEF Writes, Shares
  <1>3. CASE /\ \A k \in Project : projects'[k] \in {projects[k], Absent}
             /\ UNCHANGED shared
    BY <1>3 DEF SharingKnown, SameName, CommonName
  <1>4. QED
    BY <1>1, <1>2, <1>3, RegStepKinds

\* Two calls that claim one name have met.
LEMMA StepClaimersMet == RegIInv /\ [RegNext]_regVars => ClaimersMet'
  <1> SUFFICES ASSUME RegIInv, [RegNext]_regVars,
                      NEW c \in Claiming', NEW d \in Claiming', c # d
               PROVE  Both(c, d)'
    BY DEF ClaimersMet
  <1> USE DEF RegIInv, Both, ClaimersMet
  <1>1. ASSUME NEW e \in RegCall, CreateCheck(e) \/ RenameCheck(e)
        PROVE  Both(c, d)'
    <2>1. c \in Claiming \/ c = e
      BY <1>1, CheckTypes DEF Claiming, Goto, RegShape
    <2>2. d \in Claiming \/ d = e
      BY <1>1, CheckTypes DEF Claiming, Goto, RegShape
    <2>3. CASE e \in {c, d}
      <3>1. met' = met \cup ({e} \X Claiming) \cup (Claiming \X {e})
        BY <1>1, <2>3, CheckTypes DEF Claiming, Goto, RegShape
      <3>2. QED
        BY <2>1, <2>2, <2>3, <3>1
    <2>4. CASE e \notin {c, d}
      BY <1>1, <2>1, <2>2, <2>4, CheckTypes
    <2>5. QED
      BY <2>3, <2>4
  <1>2. ASSUME NEW e \in RegCall, NEW k \in Project, Writes(e, k)
        PROVE  Both(c, d)'
    BY <1>2 DEF Writes, Claiming, Goto, RegShape
  <1>3. CASE Claiming' \subseteq Claiming /\ UNCHANGED met
    BY <1>3
  <1>4. QED
    BY <1>1, <1>2, <1>3, RegStepKinds

\* A call that claims the name of a project has met the call that gave it.
LEMMA StepHoldersMet == RegIInv /\ [RegNext]_regVars => HoldersMet'
  <1> SUFFICES ASSUME RegIInv, [RegNext]_regVars, NEW c \in Claiming',
                      NEW j \in Holders(regCall[c].name)', j # regCall'[c].id
               PROVE  \/ Both(c, writer[j])'
                      \/ /\ regCall'[c].pc = "put"
                         /\ <<{regCall'[c].id, j}, normalizeProjectName(regCall'[c].name)>> \in shared'
    BY DEF HoldersMet
  <1> USE DEF RegIInv
  <1> DEFINE Excused == \/ Both(c, writer[j])'
                        \/ /\ regCall'[c].pc = "put"
                           /\ <<{regCall'[c].id, j}, normalizeProjectName(regCall'[c].name)>> \in shared'
  <1>1. ASSUME NEW e \in RegCall, CreateCheck(e) \/ RenameCheck(e)
        PROVE  Excused
    <2>1. regCall'[c].name = regCall[c].name /\ regCall'[c].id = regCall[c].id
      BY <1>1, CheckTypes DEF Goto, RegShape, Claiming
    <2>2. j \in Holders(regCall[c].name)
      BY <1>1, <2>1, CheckTypes DEF Holders
    <2>3. CASE c = e
      <3>1. Existing(regCall[c].name) \in {0, regCall[c].id}
        BY <1>1, <2>3, CheckTypes DEF Goto, RegShape, Claiming
      <3>2. Existing(regCall[c].name) \in Holders(regCall[c].name)
        BY <2>2, ExistingHolds
      <3>3. regCall[c].id \in Holders(regCall[c].name)
        BY <3>1, <3>2 DEF Holders, Project
      <3>4. SameName(regCall[c].id, j) /\ regCall[c].id \in Project /\ j \in Project
        BY <2>2, <3>3 DEF Holders, SameName
      <3>5. CommonName(regCall[c].id, j) \in shared
        BY <2>1, <3>4 DEF SharingKnown
      <3>6. regCall'[c].pc = "put"
        BY <1>1, <2>3, <3>4, CheckTypes DEF Claiming, Goto, RegShape, Project
      <3>7. QED
        BY <1>1, <2>1, <3>3, <3>5, <3>6, CheckTypes DEF CommonName, Holders
    <2>4. CASE c # e
      <3>1. c \in Claiming /\ regCall'[c] = regCall[c]
        BY <1>1, <2>4, CheckTypes DEF Goto, RegShape, Claiming
      <3>2. QED
        BY <1>1, <2>1, <2>2, <3>1, CheckTypes DEF HoldersMet, Both
    <2>5. QED
      BY <2>3, <2>4
  <1>2. ASSUME NEW e \in RegCall, NEW k \in Project, Writes(e, k)
        PROVE  Excused
    <2>1. c # e /\ c \in Claiming /\ regCall'[c] = regCall[c]
      BY <1>2 DEF Writes, Claiming, Goto, RegShape
    <2>2. met' = met /\ shared \subseteq shared'
      BY <1>2 DEF Writes, Shares
    <2>3. CASE j = k
      <3>1. writer'[j] = e
        BY <1>2, <2>3 DEF Writes, RegShape
      <3>2. Both(c, e)
        BY <1>2, <2>1 DEF Writes, ClaimersMet
      <3>3. QED
        BY <2>2, <3>1, <3>2 DEF Both
    <2>4. CASE j # k
      <3>1. j \in Holders(regCall[c].name) /\ writer'[j] = writer[j]
        BY <1>2, <2>1, <2>4 DEF Writes, Holders, RegTypeOK, RegShape
      <3>2. QED
        BY <2>1, <2>2, <3>1 DEF HoldersMet, Both
    <2>5. QED
      BY <2>3, <2>4
  <1>3. CASE /\ Claiming' \subseteq Claiming
             /\ \A d \in Claiming' : regCall'[d] = regCall[d]
             /\ \A i \in Project : projects'[i] \in {projects[i], Absent}
             /\ UNCHANGED <<met, writer, shared>>
    <2>1. j \in Holders(regCall[c].name) /\ c \in Claiming /\ regCall'[c] = regCall[c]
      BY <1>3 DEF Holders
    <2>2. QED
      BY <1>3, <2>1 DEF HoldersMet, Both
  <1>4. QED
    BY <1>1, <1>2, <1>3, RegStepKinds

\* A project comes back only where the history notes it.
LEMMA StepRevivalsKnown == RegIInv /\ [RegNext]_regVars => RevivalsKnown'
  <1> SUFFICES ASSUME RegIInv, [RegNext]_regVars, NEW d \in RegCall,
                      regCall'[d].pc \in {"renameCheck", "put"}, projects'[regCall'[d].id] = Absent
               PROVE  d \in revivers'[regCall'[d].id]
    BY DEF RevivalsKnown
  <1> USE DEF RegIInv, RevivalsKnown, RegShape, Goto
  <1>1. ASSUME NEW c \in RegCall, NEW name \in ProjectName, create(c, name)
        PROVE  d \in revivers'[regCall'[d].id]
    BY <1>1 DEF create
  <1>2. ASSUME NEW c \in RegCall, NEW id \in Project, NEW name \in ProjectName,
               rename(c, id, name)
        PROVE  d \in revivers'[regCall'[d].id]
    BY <1>2 DEF rename
  <1>3. ASSUME NEW c \in RegCall, NEW id \in Project, remove(c, id)
        PROVE  d \in revivers'[regCall'[d].id]
    BY <1>3 DEF remove
  <1>4. ASSUME NEW c \in RegCall, CreateCheck(c) \/ RenameCheck(c)
        PROVE  d \in revivers'[regCall'[d].id]
    BY <1>4, CheckTypes
  <1>5. ASSUME NEW c \in RegCall, NEW i \in Project, Writes(c, i)
        PROVE  d \in revivers'[regCall'[d].id]
    <2>1. d # c /\ regCall'[d] = regCall[d] /\ revivers' = revivers
      BY <1>5 DEF Writes
    <2>2. regCall[d].id \in Project /\ regCall[c].name # Absent
      BY <2>1, RegAssumption DEF Project
    <2>3. projects[regCall[d].id] = Absent
      BY <1>5, <2>1, <2>2 DEF Writes, RegTypeOK
    <2>4. QED
      BY <2>1, <2>3
  <1>6. ASSUME NEW c \in RegCall, RenameGet(c)
        PROVE  d \in revivers'[regCall'[d].id]
    BY <1>6 DEF RenameGet
  <1>7. ASSUME NEW c \in RegCall, RemoveState(c) \/ CutOff(c)
        PROVE  d \in revivers'[regCall'[d].id]
    BY <1>7 DEF RemoveState, CutOff
  <1>8. ASSUME NEW c \in RegCall, RemoveProject(c)
        PROVE  d \in revivers'[regCall'[d].id]
    <2>1. d # c /\ regCall'[d] = regCall[d] /\ regCall[d].id \in Project /\ regCall[c].id \in Project
      BY <1>8, RegAssumption DEF RemoveProject, Project
    <2>2. CASE regCall[d].id = regCall[c].id
      BY <1>8, <2>1, <2>2 DEF RemoveProject
    <2>3. CASE regCall[d].id # regCall[c].id
      BY <1>8, <2>1, <2>3 DEF RemoveProject, RegTypeOK
    <2>4. QED
      BY <2>2, <2>3
  <1>9. ASSUME NEW id \in Project, SaveState(id)
        PROVE  d \in revivers'[regCall'[d].id]
    BY <1>9 DEF SaveState
  <1>10. CASE UNCHANGED regVars
    BY <1>10 DEF regVars
  <1>11. QED
    BY <1>1, <1>2, <1>3, <1>4, <1>5, <1>6, <1>7, <1>8, <1>9, <1>10, WritersWrite DEF RegNext

\* The inductive invariant of the registry: the way of its calls, and which of them had met
\* before two projects could share a name or a removed one come back.
THEOREM RegInvariant == RegSpec => []RegIInv
  <1>1. RegIInv /\ [RegNext]_regVars => RegIInv'
    BY RegStepTypes, StepClaimersMet, StepHoldersMet, StepSharingKnown, StepRevivalsKnown
    DEF RegIInv
  <1>2. QED
    BY RegInitIInv, <1>1, PTL DEF RegSpec

\* Every variable of the registry and of its calls stays in its type.
THEOREM RegTypeCorrect == RegSpec => []RegTypeOK
  BY RegInvariant, PTL DEF RegIInv

\* Two projects come to share a name for the first time only by a race of the calls
\* that gave it to them.
THEOREM NamesSharedByRaceHolds == RegSpec => NamesSharedByRace
  <1> DEFINE FirstShares ==
        \A i, j \in Project :
          i # j /\ SameName(i, j)' /\ CommonName(i, j)' \notin shared
            => <<writer[i], writer[j]>>' \in met'
  <1>1. RegIInv /\ [RegNext]_regVars => FirstShares
    <2> SUFFICES ASSUME RegIInv, [RegNext]_regVars, NEW i \in Project, NEW j \in Project,
                        i # j, SameName(i, j)', CommonName(i, j)' \notin shared
                 PROVE  <<writer'[i], writer'[j]>> \in met'
      OBVIOUS
    <2> USE DEF RegIInv
    <2>1. CASE \E c \in RegCall : CreateCheck(c) \/ RenameCheck(c)
      BY <2>1, CheckTypes DEF SharingKnown, SameName, CommonName
    <2>2. ASSUME NEW c \in RegCall, NEW k \in Project, Writes(c, k)
          PROVE  <<writer'[i], writer'[j]>> \in met'
      <3>1. k \in {i, j}
        BY <2>2 DEF Writes, SharingKnown, SameName, CommonName, RegTypeOK
      <3>2. PICK m \in {i, j} : m # k
        OBVIOUS
      <3>3. projects[m] # Absent /\ projects'[m] = projects[m] /\ projects'[k] = regCall[c].name
        BY <2>2, <3>1, <3>2 DEF Writes, SameName, RegTypeOK
      <3>4. m \in Holders(regCall[c].name)
        BY <3>1, <3>2, <3>3 DEF Holders, SameName
      <3>5. m # regCall[c].id
        BY <2>2, <3>2, RegAssumption DEF Writes, Claiming, RegShape, Project
      <3>6. Both(c, writer[m])
        <4>1. \/ Both(c, writer[m])
              \/ <<{k, m}, normalizeProjectName(regCall[c].name)>> \in shared
          BY <2>2, <3>4, <3>5 DEF Writes, HoldersMet
        <4>2. CommonName(i, j)' = <<{k, m}, normalizeProjectName(regCall[c].name)>>
          BY <3>1, <3>2, <3>3 DEF CommonName, SameName
        <4>3. QED
          BY <4>1, <4>2
      <3>7. writer'[k] = c /\ writer'[m] = writer[m] /\ met' = met
        BY <2>2, <3>1, <3>2 DEF Writes, RegShape
      <3>8. QED
        BY <3>1, <3>2, <3>6, <3>7 DEF Both
    <2>3. CASE /\ \A k \in Project : projects'[k] \in {projects[k], Absent}
               /\ UNCHANGED shared
      BY <2>3 DEF SharingKnown, SameName, CommonName
    <2>4. QED
      BY <2>1, <2>2, <2>3, RegStepKinds
  <1>2. QED
    BY RegInvariant, <1>1, PTL DEF RegSpec, NamesSharedByRace

\* A removed project comes back only by a rename that had read it before.
THEOREM RemovedStaysRemovedHolds == RegSpec => RemovedStaysRemoved
  <1> DEFINE Revived ==
        \A i \in 1..nextId :
          projects[i] = Absent /\ projects'[i] # Absent => writer'[i] \in revivers[i]
  <1>1. RegIInv /\ [RegNext]_regVars => Revived
    <2> SUFFICES ASSUME RegIInv, [RegNext]_regVars, NEW i \in 1..nextId,
                        projects[i] = Absent, projects'[i] # Absent
                 PROVE  writer'[i] \in revivers[i]
      OBVIOUS
    <2> USE DEF RegIInv
    <2>1. i \in Project
      BY RegAssumption DEF RegShape, Project
    <2>2. PICK c \in RegCall, k \in Project : Writes(c, k)
      BY <2>1, CheckTypes, RegStepKinds
    <2>3. k = i /\ writer'[i] = c
      BY <2>1, <2>2 DEF Writes, RegTypeOK, RegShape
    <2>4. regCall[c].pc = "put" /\ regCall[c].id = i
      BY <2>2, <2>3 DEF Writes, Claiming, RegShape
    <2>5. QED
      BY <2>2, <2>3, <2>4 DEF RevivalsKnown, Writes, Claiming
  <1>2. QED
    BY RegInvariant, <1>1, PTL DEF RegSpec, RemovedStaysRemoved

-----------------------------------------------------------------------------
(* DataStore                                                               *)

\* What the type invariant leaves out: the shape of the calls and of the queues.
DataShape ==
  /\ requests \in [DataProject -> Seq(DataCall)]
  /\ dataCall \in [DataCall -> [kind : {"none", "open", "delete"},
                                project : DataProject \cup {NoProject}]]
  /\ dataPc \in [DataCall -> {"idle", "waiting", "ok", "failed"}]

\* A call that waits is queued, and no call is queued twice.
DataQueued ==
  /\ \A c \in DataCall : dataPc[c] = "waiting" =>
       /\ dataCall[c].project \in DataProject
       /\ \E i \in 1..Len(requests[dataCall[c].project]) : requests[dataCall[c].project][i] = c
  /\ \A p \in DataProject : \A i, j \in 1..Len(requests[p]) :
       requests[p][i] = requests[p][j] => i = j

DataIInv == DataTypeOK /\ DataShape /\ DataQueued /\ ActiveIsOpen

\* No database is open and no call waits at the start.
LEMMA DataInitIInv == DataInit => DataIInv
  <1> SUFFICES ASSUME DataInit PROVE DataIInv
    OBVIOUS
  <1> USE DataAssumption DEF DataInit, DataCall
  <1>1. DataTypeOK /\ DataShape
    BY DEF DataTypeOK, DataShape
  <1>2. DataQueued
    BY DEF DataQueued
  <1>3. ActiveIsOpen
    BY DEF ActiveIsOpen
  <1>4. QED
    BY <1>1, <1>2, <1>3 DEF DataIInv

\* A call that was queued waits behind the others of its database.
LEMMA EnqueueQueues ==
  ASSUME DataIInv, NEW c \in DataCall, dataPc[c] = "idle", NEW p \in DataProject,
         NEW kind \in {"open", "delete"}, Enqueue(c, kind, p)
  PROVE  DataShape' /\ DataQueued' /\ tangled' \subseteq DataProject
         /\ \A q \in DataProject : \A i \in 1..Len(requests'[q]) :
              dataPc'[requests'[q][i]] = "waiting" /\ dataCall'[requests'[q][i]].project = q
  <1> USE DEF DataIInv
  <1>1. DataShape' /\ tangled' \subseteq DataProject
    BY DEF Enqueue, DataShape, DataTypeOK
  <1>2. \A q \in DataProject : \A i \in 1..Len(requests[q]) : requests[q][i] \in DataCall \ {c}
    BY DEF DataTypeOK, DataShape
  <1>3. \A q \in DataProject \ {p} : requests'[q] = requests[q]
    BY DEF Enqueue, DataShape
  <1>4. /\ requests[p] \in Seq(DataCall)
        /\ requests'[p] = Append(requests[p], c)
        /\ Len(requests'[p]) = Len(requests[p]) + 1
        /\ requests'[p][Len(requests[p]) + 1] = c
        /\ \A i \in 1..Len(requests[p]) : requests'[p][i] = requests[p][i]
    BY DEF Enqueue, DataShape
  <1>5. /\ dataPc'[c] = "waiting" /\ dataCall'[c].project = p
        /\ \A d \in DataCall \ {c} : dataPc'[d] = dataPc[d] /\ dataCall'[d] = dataCall[d]
    BY DEF Enqueue, DataShape
  <1>6. ASSUME NEW d \in DataCall, dataPc'[d] = "waiting"
        PROVE  /\ dataCall'[d].project \in DataProject
               /\ \E i \in 1..Len(requests'[dataCall'[d].project]) :
                    requests'[dataCall'[d].project][i] = d
    <2>1. CASE d = c
      <3>1. Len(requests[p]) + 1 \in 1..Len(requests'[p])
        BY <1>4
      <3>2. QED
        BY <1>4, <1>5, <2>1, <3>1
    <2>2. CASE d # c
      <3>1. /\ dataCall'[d].project = dataCall[d].project
            /\ dataCall[d].project \in DataProject
            /\ \E i \in 1..Len(requests[dataCall[d].project]) : requests[dataCall[d].project][i] = d
        BY <1>5, <1>6, <2>2 DEF DataQueued
      <3>2. PICK i \in 1..Len(requests[dataCall[d].project]) :
                   requests[dataCall[d].project][i] = d
        BY <3>1
      <3>3. CASE dataCall[d].project = p
        <4>1. Len(requests[p]) \in Nat
          BY <1>4
        <4>2. i \in 1..Len(requests'[p]) /\ requests'[p][i] = d
          BY <1>4, <3>2, <3>3, <4>1
        <4>3. QED
          BY <3>1, <3>3, <4>2
      <3>4. CASE dataCall[d].project # p
        <4>1. requests'[dataCall[d].project] = requests[dataCall[d].project]
          BY <1>3, <3>1, <3>4
        <4>2. QED
          BY <3>1, <3>2, <4>1
      <3>5. QED
        BY <3>3, <3>4
    <2>3. QED
      BY <2>1, <2>2
  <1>7. ASSUME NEW q \in DataProject, NEW i \in 1..Len(requests'[q])
        PROVE  /\ dataPc'[requests'[q][i]] = "waiting" /\ dataCall'[requests'[q][i]].project = q
               /\ \A j \in 1..Len(requests'[q]) : requests'[q][i] = requests'[q][j] => i = j
    <2>1. CASE q = p
      <3>1. Len(requests[p]) \in Nat
        BY <1>4
      <3>2. \A j \in 1..Len(requests'[p]) :
              \/ j \in 1..Len(requests[p]) /\ requests'[p][j] = requests[p][j]
                 /\ requests[p][j] \in DataCall \ {c}
              \/ j = Len(requests[p]) + 1 /\ requests'[p][j] = c
        BY <1>2, <1>4, <3>1
      <3>3. dataPc'[requests'[q][i]] = "waiting" /\ dataCall'[requests'[q][i]].project = q
        BY <1>5, <2>1, <3>2 DEF DataTypeOK
      <3>4. \A j \in 1..Len(requests'[q]) : requests'[q][i] = requests'[q][j] => i = j
        BY <2>1, <3>2 DEF DataQueued
      <3>5. QED
        BY <3>3, <3>4
    <2>2. CASE q # p
      <3>1. requests'[q] = requests[q]
        BY <1>3, <2>2
      <3>2. requests[q][i] \in DataCall \ {c}
        BY <1>2, <1>7, <3>1
      <3>3. /\ dataPc'[requests[q][i]] = dataPc[requests[q][i]]
            /\ dataCall'[requests[q][i]] = dataCall[requests[q][i]]
        BY <1>5, <3>2
      <3>4. dataPc[requests[q][i]] = "waiting" /\ dataCall[requests[q][i]].project = q
        BY <1>7, <3>1 DEF DataTypeOK
      <3>5. \A j \in 1..Len(requests[q]) : requests[q][i] = requests[q][j] => i = j
        BY <1>7, <3>1 DEF DataQueued
      <3>6. QED
        BY <3>1, <3>3, <3>4, <3>5
    <2>3. QED
      BY <2>1, <2>2
  <1>8. QED
    BY <1>1, <1>6, <1>7 DEF DataQueued

\* A call that is answered leaves its queue to the others.
LEMMA AnswerDequeues ==
  ASSUME DataIInv, NEW c \in DataCall, NEW kind, NEW result \in {"ok", "failed"},
         Answer(c, kind, result)
  PROVE  DataShape' /\ DataQueued' /\ tangled' \subseteq DataProject
         /\ dataCall[c].project \in DataProject
         /\ \A q \in DataProject : \A i \in 1..Len(requests'[q]) :
              dataPc'[requests'[q][i]] = "waiting" /\ dataCall'[requests'[q][i]].project = q
  <1> USE DEF DataIInv
  <1> DEFINE p == dataCall[c].project
  <1>1. p \in DataProject /\ requests[p] \in Seq(DataCall) /\ requests[p] # <<>>
    BY DEF Answer, DataQueued, DataShape
  <1> HIDE DEF p
  <1>2. dataPc' = [dataPc EXCEPT ![c] = result] /\ requests' = [requests EXCEPT ![p] = Tail(@)]
        /\ dataCall' = dataCall /\ tangled' = tangled /\ requests[p][1] = c
    BY <1>1 DEF Answer, p
  <1>3. /\ \A q \in DataProject \ {p} : requests'[q] = requests[q]
        /\ requests'[p] = Tail(requests[p])
        /\ Tail(requests[p]) \in Seq(DataCall)
        /\ Len(requests'[p]) = Len(requests[p]) - 1
        /\ \A i \in 1..Len(requests[p]) - 1 : requests'[p][i] = requests[p][i + 1]
    BY <1>1, <1>2 DEF DataShape
  <1>a. Len(requests[p]) \in Nat /\ Len(requests[p]) >= 1
    BY <1>1
  <1>4. DataShape' /\ tangled' \subseteq DataProject
    BY <1>2, <1>3 DEF DataShape, DataTypeOK
  <1>5. \A q \in DataProject \ {p} : \A i \in 1..Len(requests[q]) : requests[q][i] # c
    BY DEF DataTypeOK, p
  <1>6. \A i \in 1..Len(requests[p]) - 1 : requests[p][i + 1] # c
    <2> SUFFICES ASSUME NEW i \in 1..Len(requests[p]) - 1
                 PROVE  requests[p][i + 1] # c
      OBVIOUS
    <2>1. 1 \in 1..Len(requests[p]) /\ i + 1 \in 1..Len(requests[p]) /\ i + 1 # 1
      BY <1>1
    <2>2. QED
      BY <1>1, <1>2, <2>1 DEF DataQueued
  <1>7. \A d \in DataCall : dataPc'[d] = IF d = c THEN result ELSE dataPc[d]
    BY <1>2 DEF DataShape
  <1>8. ASSUME NEW d \in DataCall, dataPc'[d] = "waiting"
        PROVE  /\ dataCall'[d].project \in DataProject
               /\ \E i \in 1..Len(requests'[dataCall'[d].project]) :
                    requests'[dataCall'[d].project][i] = d
    <2>1. d # c /\ dataCall'[d] = dataCall[d] /\ dataCall[d].project \in DataProject
      BY <1>2, <1>7, <1>8 DEF DataQueued
    <2>2. PICK i \in 1..Len(requests[dataCall[d].project]) : requests[dataCall[d].project][i] = d
      BY <1>7, <1>8, <2>1 DEF DataQueued
    <2>3. CASE dataCall[d].project = p
      <3>1. i # 1 /\ i - 1 \in 1..Len(requests[p]) - 1
        BY <1>1, <1>2, <2>1, <2>2, <2>3
      <3>2. requests'[p][i - 1] = d
        BY <1>1, <1>3, <2>2, <2>3, <3>1
      <3>3. QED
        BY <1>3, <2>1, <2>3, <3>1, <3>2
    <2>4. CASE dataCall[d].project # p
      BY <1>3, <2>1, <2>2, <2>4
    <2>5. QED
      BY <2>3, <2>4
  <1>9. ASSUME NEW q \in DataProject, NEW i \in 1..Len(requests'[q])
        PROVE  /\ dataPc'[requests'[q][i]] = "waiting" /\ dataCall'[requests'[q][i]].project = q
               /\ \A j \in 1..Len(requests'[q]) : requests'[q][i] = requests'[q][j] => i = j
    <2>1. CASE q = p
      <3>0. requests'[q] = requests'[p] /\ Len(requests'[q]) = Len(requests[p]) - 1
        BY <1>3, <2>1
      <3>1. i \in 1..Len(requests[p]) - 1 /\ i + 1 \in 1..Len(requests[p])
        BY <1>a, <3>0
      <3>2. requests'[q][i] = requests[p][i + 1] /\ requests[p][i + 1] \in DataCall \ {c}
        <4>1. requests'[q][i] = requests[p][i + 1] /\ requests[p][i + 1] # c
          BY <1>3, <1>6, <3>0, <3>1
        <4>2. requests[p][i + 1] \in DataCall
          BY <1>1, <3>1
        <4>3. QED
          BY <4>1, <4>2
      <3>3. dataPc'[requests'[q][i]] = "waiting" /\ dataCall'[requests'[q][i]].project = q
        BY <1>1, <1>2, <1>7, <2>1, <3>1, <3>2 DEF DataTypeOK
      <3>4. ASSUME NEW j \in 1..Len(requests'[q]), requests'[q][i] = requests'[q][j]
            PROVE  i = j
        <4>1. j + 1 \in 1..Len(requests[p]) /\ requests[p][i + 1] = requests[p][j + 1]
          <5>1. j \in 1..Len(requests[p]) - 1
            BY <1>3, <2>1
          <5>2. QED
            BY <1>a, <1>3, <2>1, <3>2, <3>4, <5>1
        <4>2. i + 1 = j + 1
          BY <1>1, <3>1, <4>1 DEF DataQueued
        <4>3. QED
          BY <1>a, <1>3, <2>1, <4>2
      <3>5. QED
        BY <3>3, <3>4
    <2>2. CASE q # p
      BY <1>2, <1>3, <1>5, <1>7, <2>2 DEF DataTypeOK, DataQueued, DataShape
    <2>3. QED
      BY <2>1, <2>2
  <1>10. QED
    BY <1>1, <1>4, <1>8, <1>9 DEF DataQueued, p

\* Every step of every call keeps the invariant.
LEMMA DataStepIInv == DataIInv /\ [DataNext]_dataVars => DataIInv'
  <1> SUFFICES ASSUME DataIInv, [DataNext]_dataVars
               PROVE  DataIInv'
    OBVIOUS
  <1> USE DataAssumption DEF DataIInv
  <1> USE DEF DataTypeOK, ActiveIsOpen
  <1>1. ASSUME NEW c \in DataCall, NEW p \in DataProject, setActive(c, p)
        PROVE  DataIInv'
    <2>1. CASE handleCache[p] # 0
      <3>0. /\ \A d \in DataCall : dataPc'[d] = "waiting" => dataPc[d] = "waiting"
            /\ UNCHANGED <<requests, dataCall>>
        BY <1>1, <2>1 DEF setActive, DataShape
      <3>1. DataShape' /\ DataQueued'
        <4>1. DataQueued'
          BY <3>0 DEF DataQueued
        <4>2. DataShape'
          BY <1>1, <2>1 DEF setActive, DataShape
        <4>3. QED
          BY <4>1, <4>2
      <3>2. DataTypeOK' /\ ActiveIsOpen'
        BY <1>1, <2>1 DEF setActive, DataShape, FreshCall
      <3>3. QED
        BY <3>1, <3>2
    <2>2. CASE handleCache[p] = 0
      <3>1. Enqueue(c, "open", p) /\ dataPc[c] = "idle"
        BY <1>1, <2>2 DEF setActive, FreshCall
      <3>2. DataTypeOK' /\ ActiveIsOpen'
        BY <1>1, <2>2, <3>1, EnqueueQueues DEF setActive
      <3>3. QED
        BY <3>1, <3>2, EnqueueQueues
    <2>3. QED
      BY <2>1, <2>2
  <1>2. ASSUME NEW c \in DataCall, NEW p \in DataProject, deleteDatabase(c, p)
        PROVE  DataIInv'
    <2>1. Enqueue(c, "delete", p) /\ dataPc[c] = "idle"
      BY <1>2 DEF deleteDatabase, FreshCall
    <2>2. DataTypeOK'
      BY <1>2, <2>1, EnqueueQueues DEF deleteDatabase
    <2>3. ActiveIsOpen'
      BY <1>2 DEF deleteDatabase
    <2>4. QED
      BY <2>1, <2>2, <2>3, EnqueueQueues
  <1>3. ASSUME NEW c \in DataCall, Opened(c)
        PROVE  DataIInv'
    <2>1. Answer(c, "open", "ok")
      BY <1>3 DEF Opened
    <2>2. dataCall[c].project \in DataProject /\ c # 0 /\ c \in 0..MaxDataCalls
      BY <2>1, AnswerDequeues DEF DataCall
    <2>3. DataTypeOK'
      BY <1>3, <2>1, <2>2, AnswerDequeues DEF Opened
    <2>4. ActiveIsOpen'
      BY <1>3, <2>2 DEF Opened
    <2>5. QED
      BY <2>1, <2>3, <2>4, AnswerDequeues
  <1>4. ASSUME NEW c \in DataCall, OpenFails(c) \/ Deleted(c) \/ DeleteFails(c)
        PROVE  DataIInv'
    <2>1. \E kind \in {"open", "delete"}, result \in {"ok", "failed"} : Answer(c, kind, result)
      BY <1>4 DEF OpenFails, Deleted, DeleteFails
    <2>2. DataTypeOK' /\ ActiveIsOpen'
      BY <1>4, <2>1, AnswerDequeues DEF OpenFails, Deleted, DeleteFails
    <2>3. QED
      BY <2>1, <2>2, AnswerDequeues
  <1>5. CASE closeAll
    <2>1. DataShape' /\ DataQueued'
      BY <1>5 DEF closeAll, DataShape, DataQueued
    <2>2. DataTypeOK'
      BY <1>5 DEF closeAll
    <2>3. ActiveIsOpen'
      BY <1>5 DEF closeAll
    <2>4. QED
      BY <2>1, <2>2, <2>3
  <1>6. ASSUME NEW p \in DataProject, ForeignOpens(p) \/ ForeignCloses(p)
        PROVE  DataIInv'
    <2>1. /\ UNCHANGED <<activeProjectId, handleCache, connections, requests, dataCall, dataPc, tangled>>
          /\ foreign' \subseteq DataProject
      BY <1>6 DEF ForeignOpens, ForeignCloses
    <2>2. DataTypeOK' /\ ActiveIsOpen'
      BY <2>1
    <2>3. DataShape' /\ DataQueued'
      BY <2>1 DEF DataShape, DataQueued
    <2>4. QED
      BY <2>2, <2>3
  <1>7. CASE UNCHANGED dataVars
    BY <1>7 DEF dataVars, DataShape, DataQueued
  <1>8. QED
    BY <1>1, <1>2, <1>3, <1>4, <1>5, <1>6, <1>7 DEF DataNext

\* The inductive invariant of the data store: the way of its calls, who waits in the queue,
\* and that the active database is one that is open.
THEOREM DataInvariant == DataSpec => []DataIInv
  BY DataInitIInv, DataStepIInv, PTL DEF DataSpec

\* Every variable of the data store stays in its type, and the calls queued for a
\* database wait for it.
THEOREM DataTypeCorrect == DataSpec => []DataTypeOK
  BY DataInvariant, PTL DEF DataIInv

\* getActiveDb() finds an open connection, whatever calls overlap.
THEOREM ActiveIsOpenHolds == DataSpec => []ActiveIsOpen
  BY DataInvariant, PTL DEF DataIInv

-----------------------------------------------------------------------------
(* ProjectFolders                                                          *)

ResolvePcs == Levels \cup DOMAIN Wanted \cup {"idle", "verify", "rename", "ok", "failed"}

\* The calls and what the devices keep, in terms of the folders D there are.
CallsTyped(D) ==
  /\ driveFolderId \in [Device -> D \cup {Root}]
  /\ verificationMemo \subseteq {d \in Device : driveFolderId[d] # Root}
  /\ resolve \in [Resolve -> [pc : ResolvePcs, device : Device, name : ProjectTitle,
                              id : D \cup {Root}, parent : D \cup {Root}]]
  /\ \A r \in Resolve : resolve[r].pc = "rename" => resolve[r].id # Root

\* The folders are a tree, numbered in the order in which they were made.
FoldersTyped ==
  /\ \E n \in Nat : DOMAIN folders = 1..n
  /\ folders \in [DOMAIN folders -> [parent : Nat, trashed : BOOLEAN, name : ProjectTitle \cup Levels]]
  /\ \A f \in DOMAIN folders : folders[f].parent \in 0..f - 1

\* What the type invariant follows from.
FolderShape ==
  /\ FoldersTyped /\ CallsTyped(DOMAIN folders)
  /\ title \in [Device -> ProjectTitle]
  /\ upsets \in 0..MaxUpsets
  /\ raced \in BOOLEAN /\ renamed \in BOOLEAN

\* The name a call looked for before it went on to create the folder.
WantedName(r) ==
  IF resolve[r].pc = "createProject" THEN resolve[r].name ELSE Wanted[resolve[r].pc]

\* As long as nothing was renamed, every name there is is the old one.
OneTitle ==
  /\ \A d \in Device : /\ title[d] = OldTitle
                       /\ driveFolderId[d] # Root => folders[driveFolderId[d]].name = OldTitle
  /\ \A r \in Resolve : /\ resolve[r].pc # "idle" => resolve[r].name = OldTitle
                        /\ resolve[r].id # Root => folders[resolve[r].id].name = OldTitle
                        /\ resolve[r].pc # "rename"

\* As long as no two lookups overlapped, one call at a time looks folders up, and
\* what it is about to create is still missing.
OneLookup ==
  /\ \A q, r \in Looking : q = r
  /\ \A r \in Looking : resolve[r].pc \in DOMAIN Wanted =>
       Matches(resolve[r].parent, WantedName(r)) = {}

FolderIInv ==
  /\ FolderShape /\ NoTwinFolders
  /\ ~renamed => OneTitle
  /\ ~raced /\ ~renamed => OneLookup

\* Drive holds no folder at the start.
LEMMA FolderInitIInv == FolderInit => FolderIInv
  <1> SUFFICES ASSUME FolderInit PROVE FolderIInv
    OBVIOUS
  <1> USE FolderAssumption DEF FolderInit, Root
  <1>1. (CHOOSE d \in Device : TRUE) \in Device
    OBVIOUS
  <1>2. DOMAIN folders = {} /\ DOMAIN folders = 1..0
    OBVIOUS
  <1>3. FoldersTyped
    BY <1>2 DEF FoldersTyped
  <1>4. CallsTyped(DOMAIN folders)
    <2> DEFINE d0 == CHOOSE d \in Device : TRUE
    <2>1. resolve = [r \in Resolve |-> [pc |-> "idle", device |-> d0, name |-> OldTitle,
                                       id |-> Root, parent |-> Root]]
      OBVIOUS
    <2>2. d0 \in Device
      BY <1>1
    <2> HIDE DEF d0
    <2>3. resolve \in [Resolve -> [pc : ResolvePcs, device : Device, name : ProjectTitle,
                            id : DOMAIN folders \cup {Root}, parent : DOMAIN folders \cup {Root}]]
      BY <2>1, <2>2 DEF ResolvePcs
    <2>4. \A r \in Resolve : resolve[r].pc # "rename"
      BY <2>1
    <2>5. QED
      BY <2>3, <2>4 DEF CallsTyped
  <1>5. FolderShape
    <2>1. title \in [Device -> ProjectTitle]
      OBVIOUS
    <2>2. upsets = 0 /\ raced \in BOOLEAN /\ renamed \in BOOLEAN
      OBVIOUS
    <2> HIDE DEF FolderInit
    <2>3. 0 \in 0..MaxUpsets
      OBVIOUS
    <2>4. QED
      BY <1>3, <1>4, <2>1, <2>2, <2>3 DEF FolderShape
  <1>6. NoTwinFolders /\ OneTitle
    BY <1>2 DEF NoTwinFolders, OneTitle
  <1>7. OneLookup
    BY DEF OneLookup, Looking, Levels, Wanted
  <1>8. QED
    BY <1>5, <1>6, <1>7 DEF FolderIInv

\* A folder more is one more.
LEMMA FolderCount ==
  ASSUME FoldersTyped
  PROVE  Cardinality(DOMAIN folders) \in Nat /\ DOMAIN folders = 1..Cardinality(DOMAIN folders)
  <1>1. PICK n \in Nat : DOMAIN folders = 1..n
    BY DEF FoldersTyped
  <1>2. Cardinality(DOMAIN folders) = n
    BY <1>1, FS_Interval
  <1>3. QED
    BY <1>1, <1>2

\* The shape of the calls and the folders contains their types.
LEMMA ShapeTypeOK == FolderShape => FolderTypeOK
  BY FolderCount DEF FolderShape, FoldersTyped, CallsTyped, FolderTypeOK

\* A call stays in its type when Drive has a folder more.
LEMMA CallsTypedGrow ==
  ASSUME NEW D, NEW E, D \subseteq E, CallsTyped(D)
  PROVE  CallsTyped(E)
  BY DEF CallsTyped

\* The folders on the way from a folder to the root are folders.
LEMMA AncestorsAre ==
  ASSUME FoldersTyped, NEW f \in DOMAIN folders
  PROVE  f \in Ancestors(f) /\ Ancestors(f) \subseteq DOMAIN folders
  <1>1. PICK n \in Nat : DOMAIN folders = 1..n
    BY DEF FoldersTyped
  <1>2. f # Root /\ folders[f].parent \in DOMAIN folders \cup {Root}
    BY <1>1 DEF FoldersTyped, Root
  <1>3. \A g \in DOMAIN folders : folders[g].parent \in DOMAIN folders \cup {Root}
    BY <1>1 DEF FoldersTyped, Root
  <1>4. QED
    BY <1>2, <1>3 DEF Ancestors

\* Folders keep their place and are not taken out of the trash.
Kept ==
  /\ DOMAIN folders \subseteq DOMAIN folders'
  /\ \A f \in DOMAIN folders : /\ folders'[f].parent = folders[f].parent
                               /\ folders[f].trashed => folders'[f].trashed

\* A folder that is live was so before the step, or the step has created it.
LEMMA LiveBefore ==
  ASSUME FoldersTyped, Kept, NEW f \in DOMAIN folders, Live(f)'
  PROVE  Live(f)
  <1>1. /\ f \in Ancestors(f) /\ Ancestors(f) \subseteq DOMAIN folders
    BY AncestorsAre
  <1>2. Ancestors(f)' = Ancestors(f)
    <2>1. \A g \in {f, folders[f].parent} \ {Root} : g \in DOMAIN folders
      BY DEF FoldersTyped, Root
    <2>2. folders'[f].parent = folders[f].parent
      BY DEF Kept
    <2>3. \A g \in {f, folders[f].parent} \ {Root} : folders'[g].parent = folders[g].parent
      BY <2>1 DEF Kept
    <2>4. QED
      BY <2>2, <2>3 DEF Ancestors
  <1>3. \A g \in Ancestors(f) : ~folders[g].trashed
    BY <1>1, <1>2 DEF Kept, Live
  <1>4. QED
    BY <1>3 DEF Live

\* A call that finds its folder at a level goes on below it, or is done.
LEMMA DescendTypes ==
  ASSUME NEW D, CallsTyped(D), NEW r \in Resolve, NEW f \in D, f # Root, Descend(r, f)
  PROVE  CallsTyped(D)'
  <1> USE DEF CallsTyped
  <1>1. CASE resolve[r].pc \in {"project", "createProject"}
    BY <1>1 DEF Descend, Settles, Rename, ResolvePcs
  <1>2. CASE resolve[r].pc \notin {"project", "createProject"}
    <2>1. {"app", "project"} \subseteq ResolvePcs
      BY DEF ResolvePcs, Levels
    <2>2. QED
      BY <1>2, <2>1 DEF Descend
  <1>3. QED
    BY <1>1, <1>2

\* A search that finds a folder returns one of those that match.
LEMMA OldestFound ==
  ASSUME FoldersTyped, NEW found, found \subseteq DOMAIN folders, found # {}
  PROVE  Oldest(found) \in found
  <1>1. found \subseteq Nat
    BY DEF FoldersTyped
  <1>2. \E f \in found : \A g \in found : f <= g
    BY <1>1, LeastNumber
  <1>3. QED
    BY <1>2 DEF Oldest

\* A lookup that finds nothing goes on to create what it looked for.
LEMMA LookupMisses ==
  ASSUME CallsTyped(DOMAIN folders), NEW r \in Resolve, resolve[r].pc \in Levels
  PROVE  /\ CreateStep[resolve[r].pc] \in DOMAIN Wanted
         /\ Wanted[CreateStep[resolve[r].pc]] = resolve[r].pc
         /\ CreateStep[resolve[r].pc] \in ResolvePcs \ {"rename"}
         /\ CreateStep[resolve[r].pc] = "createProject" <=> resolve[r].pc = "project"
  BY DEF Levels, CreateStep, Wanted, ResolvePcs

\* No step leaves the shape.
LEMMA FolderStepShape == FolderShape /\ [FolderNext]_folderVars => FolderShape'
  <1> SUFFICES ASSUME FolderShape, [FolderNext]_folderVars
               PROVE  FolderShape'
    OBVIOUS
  <1> USE FolderAssumption DEF FolderShape
  <1>1. ASSUME NEW r \in Resolve, NEW d \in Device, resolveProjectFolder(r, d)
        PROVE  FolderShape'
    <2>1. {"openWebApp", "ok", "verify"} \subseteq ResolvePcs
      BY DEF ResolvePcs, Levels
    <2>2. CallsTyped(DOMAIN folders)'
      BY <1>1, <2>1 DEF resolveProjectFolder, CallsTyped
    <2>3. FoldersTyped' /\ raced' \in BOOLEAN /\ UNCHANGED <<title, upsets, renamed>>
      BY <1>1 DEF resolveProjectFolder, FoldersTyped
    <2>4. QED
      BY <2>2, <2>3
  <1>2. ASSUME NEW r \in Resolve, NEW ok \in BOOLEAN, verifyFolderById(r, ok)
        PROVE  FolderShape'
    <2>1. {"openWebApp", "ok", "rename"} \subseteq ResolvePcs
      BY DEF ResolvePcs, Levels
    <2>2. Root \notin DOMAIN folders
      BY DEF FoldersTyped, Root
    <2>3. CallsTyped(DOMAIN folders)'
      <3>1. CASE ~ok \/ ~Live(resolve[r].id)
        BY <1>2, <2>1, <3>1 DEF verifyFolderById, StartLookup, Rename, CallsTyped
      <3>2. CASE ok /\ Live(resolve[r].id)
        <4>1. resolve[r].id \in DOMAIN folders
          BY <3>2 DEF Live
        <4>2. CASE folders[resolve[r].id].name = resolve[r].name
          BY <1>2, <2>1, <2>2, <3>2, <4>1, <4>2 DEF verifyFolderById, Settles, Rename, CallsTyped
        <4>3. CASE folders[resolve[r].id].name # resolve[r].name
          BY <1>2, <2>1, <2>2, <3>2, <4>1, <4>3 DEF verifyFolderById, Rename, CallsTyped
        <4>4. QED
          BY <4>2, <4>3
      <3>3. QED
        BY <3>1, <3>2
    <2>4. FoldersTyped' /\ raced' \in BOOLEAN /\ UNCHANGED <<title, upsets, renamed, folders>>
      BY <1>2 DEF verifyFolderById, StartLookup, FoldersTyped
    <2>5. QED
      BY <2>3, <2>4
  <1>3. ASSUME NEW r \in Resolve, NEW ok \in BOOLEAN, renameFolderIfNeeded(r, ok)
        PROVE  FolderShape'
    <2>1. resolve[r].id \in DOMAIN folders /\ resolve[r].id # Root
      BY <1>3 DEF renameFolderIfNeeded, CallsTyped
    <2>2. DOMAIN folders' = DOMAIN folders
      BY <1>3 DEF renameFolderIfNeeded
    <2>3. FoldersTyped'
      <3>1. CASE folders' = folders
        BY <3>1 DEF FoldersTyped
      <3>2. CASE folders' = [folders EXCEPT ![resolve[r].id].name = resolve[r].name]
        <4>1. resolve[r].name \in ProjectTitle
          BY DEF CallsTyped
        <4>2. QED
          BY <2>1, <2>2, <3>2, <4>1 DEF FoldersTyped
      <3>3. QED
        BY <1>3, <3>1, <3>2 DEF renameFolderIfNeeded
    <2>4. CallsTyped(DOMAIN folders)'
      <3>1. "ok" \in ResolvePcs
        BY DEF ResolvePcs
      <3>2. QED
        BY <1>3, <2>1, <2>2, <3>1 DEF renameFolderIfNeeded, Settles, Rename, CallsTyped
    <2>5. QED
      BY <1>3, <2>3, <2>4 DEF renameFolderIfNeeded
  <1>4. ASSUME NEW r \in Resolve, NEW ok \in BOOLEAN, createFolder(r, ok)
        PROVE  FolderShape'
    <2> DEFINE new == Cardinality(DOMAIN folders) + 1
    <2>1. /\ new \in Nat /\ new # Root /\ new \notin DOMAIN folders
          /\ DOMAIN folders \cup {new} = 1..new
          /\ \A f \in DOMAIN folders \cup {Root} : f \in 0..new - 1
      BY FolderCount DEF Root
    <2> HIDE DEF new
    <2>2. DOMAIN folders' = DOMAIN folders \cup {new}
      BY <1>4 DEF createFolder, new
    <2>3. FoldersTyped'
      <3>1. \A f \in DOMAIN folders : folders'[f] = folders[f]
        BY <1>4 DEF createFolder, new
      <3>2. /\ folders'[new] \in [parent : Nat, trashed : BOOLEAN, name : ProjectTitle \cup Levels]
            /\ folders'[new].parent \in 0..new - 1
        <4>1. PICK level \in Levels :
                folders'[new] = [parent |-> resolve[r].parent, trashed |-> FALSE,
                    name |-> IF level = "project" THEN resolve[r].name ELSE level]
          <5>1. Wanted[resolve[r].pc] \in Levels
            BY <1>4 DEF createFolder, Levels, Wanted
          <5>2. QED
            BY <1>4, <2>1, <5>1 DEF createFolder, new
        <4>2. resolve[r].parent \in DOMAIN folders \cup {Root} /\ resolve[r].name \in ProjectTitle
          BY DEF CallsTyped
        <4>3. QED
          BY <2>1, <4>1, <4>2
      <3>3. \A f \in DOMAIN folders' : /\ folders'[f] \in [parent : Nat, trashed : BOOLEAN,
                                                           name : ProjectTitle \cup Levels]
                                       /\ folders'[f].parent \in 0..f - 1
        BY <2>2, <3>1, <3>2 DEF FoldersTyped
      <3>4. folders' = [f \in DOMAIN folders' |-> folders'[f]]
        BY <1>4 DEF createFolder
      <3>5. QED
        BY <2>1, <2>2, <3>3, <3>4 DEF FoldersTyped
    <2>4. CallsTyped(DOMAIN folders)'
      <3>1. CallsTyped(DOMAIN folders \cup {new})
        BY CallsTypedGrow
      <3>2. CASE Descend(r, new)
        BY <2>1, <2>2, <3>1, <3>2, DescendTypes
      <3>3. CASE Rename(r, "failed") /\ UNCHANGED <<driveFolderId, verificationMemo>>
        BY <2>2, <3>1, <3>3 DEF Rename, CallsTyped, ResolvePcs
      <3>4. QED
        BY <1>4, <3>2, <3>3 DEF createFolder, new
    <2>5. QED
      BY <1>4, <2>3, <2>4 DEF createFolder
  <1>5. ASSUME NEW r \in Resolve, lookupFolderByName(r)
        PROVE  FolderShape'
    <2> DEFINE found == Found(r)
    <2>1. CallsTyped(DOMAIN folders)'
      <3>1. CASE found = {}
        <4>1. CreateStep[resolve[r].pc] \in ResolvePcs \ {"rename"}
          BY <1>5, LookupMisses DEF lookupFolderByName
        <4>2. /\ Rename(r, CreateStep[resolve[r].pc])
              /\ UNCHANGED <<folders, driveFolderId, verificationMemo>>
          BY <1>5, <3>1 DEF lookupFolderByName
        <4> HIDE DEF found
        <4>3. QED
          BY <4>1, <4>2 DEF Rename, CallsTyped
      <3>2. CASE found # {}
        <4>1. Oldest(found) \in DOMAIN folders /\ Oldest(found) # Root
          <5>1. found \subseteq DOMAIN folders
            BY DEF Found, Matches
          <5>2. Oldest(found) \in found
            BY <3>2, <5>1, OldestFound
          <5>3. Root \notin DOMAIN folders
            BY DEF FoldersTyped, Root
          <5>4. QED
            BY <5>1, <5>2, <5>3
        <4>2. Descend(r, Oldest(found)) /\ folders' = folders
          BY <1>5, <3>2 DEF lookupFolderByName
        <4>3. QED
          BY <4>1, <4>2, DescendTypes
      <3>3. QED
        BY <3>1, <3>2
    <2>2. FoldersTyped'
      BY <1>5 DEF lookupFolderByName, FoldersTyped
    <2>3. QED
      BY <1>5, <2>1, <2>2 DEF lookupFolderByName
  <1>6. ASSUME NEW r \in Resolve, Throws(r)
        PROVE  FolderShape'
    <2>1. FoldersTyped' /\ DOMAIN folders' = DOMAIN folders
      BY <1>6 DEF Throws, FoldersTyped
    <2>2. CallsTyped(DOMAIN folders)'
      <3>1. "failed" \in ResolvePcs
        BY DEF ResolvePcs
      <3>2. QED
        BY <1>6, <2>1, <3>1 DEF Throws, Rename, CallsTyped
    <2>3. QED
      BY <1>6, <2>1, <2>2 DEF Throws
  <1>7. ASSUME NEW d \in Device, NEW name \in ProjectTitle, RenameProject(d, name)
        PROVE  FolderShape'
    BY <1>7 DEF RenameProject, Upset, CallsTyped, FoldersTyped
  <1>8. ASSUME NEW f \in Folder, TrashFolder(f)
        PROVE  FolderShape'
    <2>1. f \in DOMAIN folders
      BY <1>8 DEF TrashFolder, Live
    <2>2. FoldersTyped' /\ DOMAIN folders' = DOMAIN folders
      BY <1>8, <2>1 DEF TrashFolder, FoldersTyped
    <2>3. QED
      BY <1>8, <2>2 DEF TrashFolder, Upset, CallsTyped
  <1>9. ASSUME NEW d \in Device, invalidateFolderVerificationMemo(d)
        PROVE  FolderShape'
    <2>1. FoldersTyped' /\ DOMAIN folders' = DOMAIN folders
      BY <1>9 DEF invalidateFolderVerificationMemo, FoldersTyped
    <2>2. CallsTyped(DOMAIN folders)'
      BY <1>9, <2>1 DEF invalidateFolderVerificationMemo, CallsTyped
    <2>3. QED
      BY <1>9, <2>1, <2>2 DEF invalidateFolderVerificationMemo, Upset
  <1>10. ASSUME NEW d \in Device, ReloadPage(d)
        PROVE  FolderShape'
    <2>1. FoldersTyped' /\ DOMAIN folders' = DOMAIN folders
      BY <1>10 DEF ReloadPage, FoldersTyped
    <2>2. CallsTyped(DOMAIN folders)'
      <3>1. "failed" \in ResolvePcs
        BY DEF ResolvePcs
      <3>2. QED
        BY <1>10, <2>1, <3>1 DEF ReloadPage, CallsTyped
    <2>3. QED
      BY <1>10, <2>1, <2>2 DEF ReloadPage, Upset
  <1>11. CASE UNCHANGED folderVars
    BY <1>11 DEF folderVars, CallsTyped, FoldersTyped
  <1>12. QED
    BY <1>1, <1>2, <1>3, <1>4, <1>5, <1>6, <1>7, <1>8, <1>9, <1>10, <1>11 DEF FolderNext

\* What an excuse excused stays excused.
LEMMA ExcusesStay ==
  ASSUME FolderShape, [FolderNext]_folderVars
  PROVE  (renamed => renamed') /\ (raced => raced')
  BY DEF FolderShape, FolderNext, folderVars, resolveProjectFolder, verifyFolderById, StartLookup,
    renameFolderIfNeeded, createFolder, lookupFolderByName, Throws, RenameProject, TrashFolder,
    invalidateFolderVerificationMemo, ReloadPage

\* What going down a level changes of the calls and of what the devices keep.
LEMMA DescendChanges ==
  ASSUME FolderShape, NEW r \in Resolve, NEW f, Descend(r, f)
  PROVE  /\ \A q \in Resolve \ {r} : resolve'[q] = resolve[q]
         /\ resolve'[r].name = resolve[r].name /\ resolve'[r].id = resolve[r].id
         /\ resolve'[r].pc \in {"ok", "app", "project"}
         /\ \/ UNCHANGED driveFolderId
            \/ /\ resolve[r].pc \in {"project", "createProject"}
               /\ driveFolderId' = [driveFolderId EXCEPT ![resolve[r].device] = f]
  BY DEF FolderShape, CallsTyped, Descend, Settles, Rename

\* Without a rename, every call looks for the folder by the same name.
LEMMA StepOneTitle == FolderIInv /\ [FolderNext]_folderVars => (~renamed => OneTitle)'
  <1> SUFFICES ASSUME FolderIInv, [FolderNext]_folderVars, ~renamed'
               PROVE  OneTitle'
    OBVIOUS
  <1>0. ~renamed /\ OneTitle /\ FolderShape /\ FoldersTyped /\ CallsTyped(DOMAIN folders)
    BY ExcusesStay DEF FolderIInv, FolderShape
  <1> USE <1>0 DEF OneTitle
  <1>a. Root \notin DOMAIN folders
    BY DEF FoldersTyped, Root
  <1>b. driveFolderId \in [Device -> DOMAIN folders \cup {Root}]
    BY DEF CallsTyped
  <1>1. ASSUME NEW r \in Resolve, NEW d \in Device, resolveProjectFolder(r, d)
        PROVE  OneTitle'
    BY <1>1 DEF resolveProjectFolder, CallsTyped
  <1>2. ASSUME NEW r \in Resolve, NEW ok \in BOOLEAN, verifyFolderById(r, ok)
        PROVE  OneTitle'
    <2>1. CASE ~ok \/ ~Live(resolve[r].id)
      BY <1>2, <2>1 DEF verifyFolderById, StartLookup, Rename, CallsTyped
    <2>2. CASE ok /\ Live(resolve[r].id)
      <3>1. resolve[r].id # Root /\ resolve[r].name = OldTitle
        BY <1>2, <1>a, <2>2 DEF verifyFolderById, Live
      <3>2. Settles(r, resolve[r].id) /\ UNCHANGED <<folders, title>>
        BY <1>2, <2>2, <3>1 DEF verifyFolderById
      <3>3. QED
        BY <3>1, <3>2 DEF Settles, Rename, CallsTyped
    <2>3. QED
      BY <2>1, <2>2
  <1>3. ASSUME NEW r \in Resolve, NEW ok \in BOOLEAN, renameFolderIfNeeded(r, ok)
        PROVE  OneTitle'
    BY <1>3 DEF renameFolderIfNeeded
  <1>4. ASSUME NEW r \in Resolve, NEW ok \in BOOLEAN, createFolder(r, ok)
        PROVE  OneTitle'
    <2> DEFINE new == Cardinality(DOMAIN folders) + 1
    <2>1. new \notin DOMAIN folders
      BY FolderCount
    <2>2. /\ \A f \in DOMAIN folders : folders'[f] = folders[f]
          /\ resolve[r].pc = "createProject" => folders'[new].name = resolve[r].name
          /\ resolve[r].pc \notin {"idle", "project"} /\ UNCHANGED title
      BY <1>4, <2>1 DEF createFolder, Wanted
    <2>3. \/ Descend(r, new)
          \/ Rename(r, "failed") /\ UNCHANGED driveFolderId
      BY <1>4 DEF createFolder
    <2> HIDE DEF new
    <2>4. CASE Descend(r, new)
      <3>1. \A q \in Resolve : /\ resolve'[q].pc # "idle" => resolve[q].pc # "idle"
                               /\ resolve'[q].pc # "rename"
                               /\ resolve'[q].name = resolve[q].name
                               /\ resolve'[q].id = resolve[q].id
        BY <2>2, <2>4, DescendChanges
      <3>2. \A q \in Resolve : resolve[q].id # Root => resolve[q].id \in DOMAIN folders
        BY DEF CallsTyped
      <3>3. \A d \in Device : driveFolderId'[d] # Root => folders'[driveFolderId'[d]].name = OldTitle
        <4>1. \A d \in Device : \/ driveFolderId'[d] = driveFolderId[d]
                                \/ driveFolderId'[d] = new /\ resolve[r].pc = "createProject"
          <5>1. \/ UNCHANGED driveFolderId
                \/ /\ resolve[r].pc = "createProject"
                   /\ driveFolderId' = [driveFolderId EXCEPT ![resolve[r].device] = new]
            BY <2>2, <2>4, DescendChanges
          <5>2. QED
            BY <1>b, <5>1
        <4>2. \A d \in Device : driveFolderId[d] # Root => driveFolderId[d] \in DOMAIN folders
          BY DEF CallsTyped
        <4>3. QED
          BY <2>2, <4>1, <4>2
      <3>4. QED
        BY <2>2, <3>1, <3>2, <3>3
    <2>5. CASE Rename(r, "failed") /\ UNCHANGED driveFolderId
      BY <2>2, <2>5 DEF Rename, CallsTyped
    <2>6. QED
      BY <2>3, <2>4, <2>5
  <1>5. ASSUME NEW r \in Resolve, lookupFolderByName(r)
        PROVE  OneTitle'
    <2> DEFINE found == Found(r)
    <2>1. UNCHANGED <<folders, title>> /\ resolve[r].pc \in Levels
      BY <1>5 DEF lookupFolderByName
    <2>2. CASE found = {}
      <3>1. CreateStep[resolve[r].pc] # "rename"
        BY <2>1, LookupMisses
      <3>2. Rename(r, CreateStep[resolve[r].pc]) /\ UNCHANGED driveFolderId
        BY <1>5, <2>2 DEF lookupFolderByName
      <3>3. QED
        BY <2>1, <3>1, <3>2 DEF Rename, CallsTyped, Levels
    <2>3. CASE found # {}
      <3>1. Descend(r, Oldest(found))
        BY <1>5, <2>3 DEF lookupFolderByName
      <3>2. found \subseteq DOMAIN folders
        BY DEF Found, Matches
      <3>3. Oldest(found) \in found
        BY <2>3, <3>2, OldestFound
      <3>4. resolve[r].pc = "project" => folders[Oldest(found)].name = OldTitle
        BY <3>3 DEF Found, Matches, NameAt
      <3>5. \A q \in Resolve : /\ resolve'[q].pc # "idle" => resolve[q].pc # "idle"
                               /\ resolve'[q].pc # "rename"
                               /\ resolve'[q].name = resolve[q].name
                               /\ resolve'[q].id = resolve[q].id
        BY <2>1, <3>1, DescendChanges DEF Levels
      <3>6. \A d \in Device : \/ driveFolderId'[d] = driveFolderId[d]
                              \/ driveFolderId'[d] = Oldest(found) /\ resolve[r].pc = "project"
        <4>1. resolve[r].pc # "createProject"
          BY <2>1 DEF Levels
        <4> HIDE DEF found
        <4>2. \/ UNCHANGED driveFolderId
              \/ /\ resolve[r].pc = "project"
                 /\ driveFolderId' = [driveFolderId EXCEPT ![resolve[r].device] = Oldest(found)]
          BY <3>1, <4>1, DescendChanges
        <4>3. QED
          BY <1>b, <4>2
      <3> HIDE DEF found
      <3>7. QED
        BY <2>1, <3>4, <3>5, <3>6
    <2>4. QED
      BY <2>2, <2>3
  <1>6. ASSUME NEW r \in Resolve, Throws(r)
        PROVE  OneTitle'
    BY <1>6 DEF Throws, Rename, CallsTyped, Looking, Levels, Wanted
  <1>7. ASSUME NEW d \in Device, NEW name \in ProjectTitle, RenameProject(d, name)
        PROVE  OneTitle'
    BY <1>7 DEF RenameProject
  <1>8. ASSUME NEW f \in Folder, TrashFolder(f)
        PROVE  OneTitle'
    <2>1. \A g \in DOMAIN folders : folders'[g].name = folders[g].name
      BY <1>8 DEF TrashFolder, Live, FoldersTyped
    <2>2. UNCHANGED <<title, driveFolderId, resolve>>
      BY <1>8 DEF TrashFolder
    <2>3. QED
      BY <2>1, <2>2 DEF CallsTyped
  <1>9. ASSUME NEW d \in Device, invalidateFolderVerificationMemo(d)
        PROVE  OneTitle'
    BY <1>9 DEF invalidateFolderVerificationMemo
  <1>10. ASSUME NEW d \in Device, ReloadPage(d)
        PROVE  OneTitle'
    BY <1>10 DEF ReloadPage, CallsTyped
  <1>11. CASE UNCHANGED folderVars
    BY <1>11 DEF folderVars
  <1>12. QED
    BY <1>1, <1>2, <1>3, <1>4, <1>5, <1>6, <1>7, <1>8, <1>9, <1>10, <1>11 DEF FolderNext

\* Calls that look folders up after a step did so before it, unless they start.
LEMMA StepOneLookup ==
  FolderIInv /\ [FolderNext]_folderVars => (~raced /\ ~renamed => OneLookup)'
  <1> SUFFICES ASSUME FolderIInv, [FolderNext]_folderVars, ~raced', ~renamed'
               PROVE  OneLookup'
    OBVIOUS
  <1>0. /\ ~raced /\ ~renamed /\ OneTitle /\ OneLookup
        /\ FolderShape /\ FoldersTyped /\ CallsTyped(DOMAIN folders)
    BY ExcusesStay DEF FolderIInv, FolderShape
  <1>a. ASSUME Looking' \subseteq Looking, \A q \in Looking' : resolve'[q] = resolve[q],
               UNCHANGED folders
        PROVE  OneLookup'
    BY <1>0, <1>a DEF OneLookup, Matches, Live, Ancestors, WantedName
  <1>b. ASSUME NEW r \in Resolve, Looking' \subseteq {r}, resolve'[r].pc \notin DOMAIN Wanted
        PROVE  OneLookup'
    BY <1>b DEF OneLookup
  <1> USE <1>0 DEF CallsTyped
  <1>1. ASSUME NEW r \in Resolve, NEW d \in Device, resolveProjectFolder(r, d)
        PROVE  OneLookup'
    <2>1. CASE resolve'[r].pc = "openWebApp"
      <3>1. Looking = {}
        BY <1>1, <2>1 DEF resolveProjectFolder
      <3>2. Looking' \subseteq {r}
        BY <1>1, <3>1 DEF resolveProjectFolder, Looking
      <3>3. QED
        BY <1>b, <2>1, <3>2 DEF Wanted
    <2>2. CASE resolve'[r].pc # "openWebApp"
      <3>1. r \notin Looking'
        BY <1>1, <2>2 DEF resolveProjectFolder, Looking, Levels, Wanted
      <3>2. Looking' \subseteq Looking /\ \A q \in Looking' : resolve'[q] = resolve[q]
        BY <1>1, <3>1 DEF resolveProjectFolder, Looking
      <3>3. QED
        BY <1>1, <1>a, <3>2 DEF resolveProjectFolder
    <2>3. QED
      BY <2>1, <2>2
  <1>2. ASSUME NEW r \in Resolve, NEW ok \in BOOLEAN, verifyFolderById(r, ok)
        PROVE  OneLookup'
    <2>1. CASE StartLookup(r)
      <3>1. Looking = {} /\ resolve'[r].pc = "openWebApp"
        BY <1>2, <2>1 DEF StartLookup, Rename
      <3>2. Looking' \subseteq {r}
        BY <2>1, <3>1 DEF StartLookup, Rename, Looking
      <3>3. QED
        BY <1>b, <3>1, <3>2 DEF Wanted
    <2>2. CASE Rename(r, "ok") \/ Rename(r, "rename")
      <3>1. r \notin Looking'
        BY <2>2 DEF Rename, Looking, Levels, Wanted
      <3>2. Looking' \subseteq Looking /\ \A q \in Looking' : resolve'[q] = resolve[q]
        BY <2>2, <3>1 DEF Rename, Looking
      <3>3. QED
        BY <1>2, <1>a, <3>2 DEF verifyFolderById
    <2>3. QED
      BY <1>2, <2>1, <2>2 DEF verifyFolderById, Settles
  <1>3. ASSUME NEW r \in Resolve, NEW ok \in BOOLEAN, renameFolderIfNeeded(r, ok)
        PROVE  OneLookup'
    BY <1>3 DEF renameFolderIfNeeded, OneTitle
  <1>4. ASSUME NEW r \in Resolve, NEW ok \in BOOLEAN, createFolder(r, ok)
        PROVE  OneLookup'
    <2>1. r \in Looking /\ Looking \subseteq {r}
      BY <1>4 DEF createFolder, OneLookup
    <2>2. /\ resolve'[r].pc \in {"ok", "app", "project", "failed"}
          /\ \A q \in Resolve \ {r} : resolve'[q] = resolve[q]
      BY <1>4, DescendChanges DEF createFolder, Rename
    <2>3. Looking' \subseteq {r}
      BY <2>1, <2>2 DEF Looking
    <2>4. QED
      BY <1>b, <2>2, <2>3 DEF Wanted
  <1>5. ASSUME NEW r \in Resolve, lookupFolderByName(r)
        PROVE  OneLookup'
    <2> DEFINE found == Found(r)
    <2>1. r \in Looking /\ Looking \subseteq {r} /\ resolve[r].pc \in Levels
      BY <1>5 DEF lookupFolderByName, Looking, OneLookup
    <2>2. CASE found # {}
      <3>1. /\ resolve'[r].pc \in {"ok", "app", "project"}
            /\ \A q \in Resolve \ {r} : resolve'[q] = resolve[q]
        BY <1>5, <2>2, DescendChanges DEF lookupFolderByName
      <3>2. Looking' \subseteq {r}
        BY <2>1, <3>1 DEF Looking
      <3>3. QED
        BY <1>b, <3>1, <3>2 DEF Wanted
    <2>3. CASE found = {}
      <3>1. Rename(r, CreateStep[resolve[r].pc]) /\ UNCHANGED folders
        BY <1>5, <2>3 DEF lookupFolderByName
      <3>2. Looking' \subseteq {r}
        BY <2>1, <3>1 DEF Looking, Rename
      <3>3. /\ resolve'[r].parent = resolve[r].parent /\ resolve'[r].name = resolve[r].name
            /\ resolve'[r].pc = CreateStep[resolve[r].pc]
        BY <3>1 DEF Rename
      <3>4. WantedName(r)' = NameAt(r)
        BY <2>1, <3>3, LookupMisses DEF WantedName, NameAt
      <3>5. Matches(resolve[r].parent, NameAt(r)) = {}
        BY <2>3 DEF Found, Matches
      <3>6. Matches(resolve[r].parent, WantedName(r))' = {}
        BY <3>1, <3>3, <3>4, <3>5 DEF Matches, Live, Ancestors
      <3>7. QED
        BY <3>2, <3>6 DEF OneLookup
    <2>4. QED
      BY <2>2, <2>3
  <1>6. ASSUME NEW r \in Resolve, Throws(r)
        PROVE  OneLookup'
    <2>1. r \notin Looking'
      BY <1>6 DEF Throws, Rename, Looking, Levels, Wanted
    <2>2. Looking' \subseteq Looking /\ \A q \in Looking' : resolve'[q] = resolve[q]
      BY <1>6, <2>1 DEF Throws, Rename, Looking
    <2>3. QED
      BY <1>6, <1>a, <2>2 DEF Throws
  <1>7. ASSUME NEW d \in Device, NEW name \in ProjectTitle, RenameProject(d, name)
        PROVE  OneLookup'
    BY <1>7 DEF RenameProject
  <1>8. ASSUME NEW f \in Folder, TrashFolder(f)
        PROVE  OneLookup'
    <2>1. Kept /\ DOMAIN folders' = DOMAIN folders
          /\ \A g \in DOMAIN folders : folders'[g].name = folders[g].name
      BY <1>8 DEF TrashFolder, Live, Kept, FoldersTyped
    <2>2. UNCHANGED resolve
      BY <1>8 DEF TrashFolder
    <2>3. ASSUME NEW r \in Looking
          PROVE  Matches(resolve[r].parent, WantedName(r))'
                   \subseteq Matches(resolve[r].parent, WantedName(r))
      BY <2>1, <2>2, LiveBefore DEF Matches, Kept, WantedName
    <2>4. Looking' = Looking
      BY <2>2 DEF Looking
    <2>5. QED
      BY <2>2, <2>3, <2>4 DEF OneLookup
  <1>9. ASSUME NEW d \in Device, invalidateFolderVerificationMemo(d)
        PROVE  OneLookup'
    BY <1>9, <1>a DEF invalidateFolderVerificationMemo, Looking
  <1>10. ASSUME NEW d \in Device, ReloadPage(d)
        PROVE  OneLookup'
    <2>1. \A q \in Looking' : resolve'[q] = resolve[q]
      BY <1>10 DEF ReloadPage, Looking, Levels, Wanted
    <2>2. Looking' \subseteq Looking
      BY <2>1 DEF Looking
    <2>3. QED
      BY <1>10, <1>a, <2>1, <2>2 DEF ReloadPage
  <1>11. CASE UNCHANGED folderVars
    BY <1>11, <1>a DEF folderVars, Looking
  <1>12. QED
    BY <1>1, <1>2, <1>3, <1>4, <1>5, <1>6, <1>7, <1>8, <1>9, <1>10, <1>11 DEF FolderNext

\* No step makes a second folder of one name.
LEMMA StepNoTwinFolders == FolderIInv /\ [FolderNext]_folderVars => NoTwinFolders'
  <1> SUFFICES ASSUME FolderIInv, [FolderNext]_folderVars, ~raced', ~renamed',
                      NEW f \in DOMAIN folders', NEW g \in DOMAIN folders', Live(f)', Live(g)',
                      folders'[f].parent = folders'[g].parent, folders'[f].name = folders'[g].name
               PROVE  f = g
    BY DEF NoTwinFolders
  <1>0. /\ ~raced /\ ~renamed /\ OneTitle /\ OneLookup /\ NoTwinFolders
        /\ FolderShape /\ FoldersTyped /\ CallsTyped(DOMAIN folders)
    BY ExcusesStay DEF FolderIInv, FolderShape
  <1>a. ASSUME Kept, NEW x \in DOMAIN folders, NEW y \in DOMAIN folders, Live(x)', Live(y)',
               folders'[x].parent = folders'[y].parent, folders'[x].name = folders'[y].name,
               folders'[x].name = folders[x].name, folders'[y].name = folders[y].name
        PROVE  x = y
    <2>1. Live(x) /\ Live(y)
      BY <1>0, <1>a, LiveBefore
    <2>2. QED
      BY <1>0, <1>a, <2>1 DEF NoTwinFolders, Kept
  <1>1. CASE UNCHANGED folders
    <2>1. Kept
      BY <1>1 DEF Kept
    <2>2. QED
      BY <1>1, <1>a, <2>1
  <1>2. ASSUME NEW r \in Resolve, NEW ok \in BOOLEAN, renameFolderIfNeeded(r, ok)
        PROVE  f = g
    BY <1>0, <1>2 DEF renameFolderIfNeeded, OneTitle
  <1>3. ASSUME NEW h \in Folder, TrashFolder(h)
        PROVE  f = g
    <2>1. Kept /\ DOMAIN folders' = DOMAIN folders
          /\ \A x \in DOMAIN folders : folders'[x].name = folders[x].name
      BY <1>0, <1>3 DEF TrashFolder, Live, Kept, FoldersTyped
    <2>2. QED
      BY <1>a, <2>1
  <1>4. ASSUME NEW r \in Resolve, NEW ok \in BOOLEAN, createFolder(r, ok)
        PROVE  f = g
    <2> DEFINE new == Cardinality(DOMAIN folders) + 1
    <2>1. new \notin DOMAIN folders
      BY <1>0, FolderCount
    <2>2. /\ DOMAIN folders' = DOMAIN folders \cup {new}
          /\ \A x \in DOMAIN folders : folders'[x] = folders[x]
          /\ folders'[new].parent = resolve[r].parent
          /\ folders'[new].name = WantedName(r)
          /\ resolve[r].pc \in DOMAIN Wanted /\ r \in Looking
      BY <1>4, <2>1 DEF createFolder, WantedName, Wanted
    <2> HIDE DEF new
    <2>3. Kept
      BY <2>2 DEF Kept
    <2>4. Matches(resolve[r].parent, WantedName(r)) = {}
      BY <1>0, <2>2 DEF OneLookup
    <2>5. ASSUME NEW x \in DOMAIN folders, Live(x)', folders'[x].parent = folders'[new].parent,
                 folders'[x].name = folders'[new].name
          PROVE  FALSE
      <3>1. Live(x)
        BY <1>0, <2>3, <2>5, LiveBefore
      <3>2. x \in Matches(resolve[r].parent, WantedName(r))
        BY <2>2, <2>5, <3>1 DEF Matches
      <3>3. QED
        BY <2>4, <3>2
    <2>6. CASE f \in DOMAIN folders /\ g \in DOMAIN folders
      BY <1>a, <2>2, <2>3, <2>6
    <2>7. CASE f \in DOMAIN folders /\ g = new
      BY <2>5, <2>7
    <2>8. CASE f = new /\ g \in DOMAIN folders
      BY <2>5, <2>8
    <2>9. QED
      BY <2>2, <2>6, <2>7, <2>8
  <1>5. QED
    BY <1>1, <1>2, <1>3, <1>4 DEF FolderNext, folderVars, resolveProjectFolder, verifyFolderById,
      lookupFolderByName, Throws, RenameProject, invalidateFolderVerificationMemo, ReloadPage

\* The inductive invariant of the folders: what the calls have found, and that a lookup whose
\* result is still to be used is the only one.
THEOREM FolderInvariant == FolderSpec => []FolderIInv
  <1>1. FolderIInv /\ [FolderNext]_folderVars => FolderIInv'
    BY FolderStepShape, StepOneTitle, StepOneLookup, StepNoTwinFolders DEF FolderIInv
  <1>2. QED
    BY FolderInitIInv, <1>1, PTL DEF FolderSpec

\* Every variable of the folder calls stays in its type.
THEOREM FolderTypeCorrect == FolderSpec => []FolderTypeOK
  <1>1. FolderIInv => FolderTypeOK
    BY ShapeTypeOK DEF FolderIInv
  <1>2. QED
    BY FolderInvariant, <1>1, PTL

\* No folder has two subfolders of one name, unless lookups overlapped or something
\* was renamed.
THEOREM NoTwinFoldersHolds == FolderSpec => []NoTwinFolders
  BY FolderInvariant, PTL DEF FolderIInv
===============================================================================
