--------------------------- MODULE FileGuardProofs ---------------------------
(***************************************************************************)
(* Theorems about FileGuard, for every set of clients, calls and files.    *)
(***************************************************************************)
EXTENDS FileGuard, TLAPS

LEMMA InitTypeOK == Init => TypeOK
  <1> SUFFICES ASSUME Init PROVE TypeOK
    OBVIOUS
  <1> USE DEF Init
  <1>1. AnyFile \in Files /\ AnyName \in Names
    BY FilesAndNames DEF AnyFile, AnyName
  <1>2. /\ status \in [Files -> {"absent", "live", "removed"}]
        /\ version \in [Files -> Nat]
        /\ content \in [Files -> Contents \cup {NoContent}]
        /\ named \in [Files -> Names]
    BY <1>1
  <1>3. /\ pc \in [Calls -> Places]
        /\ file \in [Calls -> Files]
        /\ name \in [Calls -> Names]
        /\ known \in [Calls -> Nat]
        /\ got \in [Calls -> Nat]
    BY <1>1 DEF Places
  <1>4. /\ body \in [Calls -> Contents \cup {NoContent}]
        /\ tries \in [Calls -> 0..MaxTries]
        /\ outcome \in [Calls -> Outcomes]
    BY MaxTriesPositive DEF Outcomes
  <1>5. baseline \in [Clients -> [Files -> Nat]]
    OBVIOUS
  <1>6. /\ restored \in [Clients -> [Files -> SUBSET Nat]]
        /\ wrote \in [Clients -> [Files -> SUBSET Nat]]
    OBVIOUS
  <1>7. QED
    BY <1>2, <1>3, <1>4, <1>5, <1>6 DEF TypeOK

\* A call that settles leaves every local within its type.
LEMMA FinishType ==
  ASSUME TypeOK, NEW k \in Calls, NEW o \in Outcomes, Finish(k, o)
  PROVE  /\ pc' \in [Calls -> Places]
         /\ known' \in [Calls -> Nat]
         /\ got' \in [Calls -> Nat]
         /\ tries' \in [Calls -> 0..MaxTries]
         /\ outcome' \in [Calls -> Outcomes]
  <1>1. 0 \in 0..MaxTries /\ "idle" \in Places
    BY MaxTriesPositive DEF Places
  <1>2. QED
    BY <1>1 DEF Finish, Goto, TypeOK

LEMMA SettleType ==
  ASSUME TypeOK, NEW k \in Calls, NEW o \in Outcomes, Settle(k, o)
  PROVE  /\ pc' \in [Calls -> Places]
         /\ known' \in [Calls -> Nat]
         /\ got' \in [Calls -> Nat]
         /\ tries' \in [Calls -> 0..MaxTries]
         /\ outcome' \in [Calls -> Outcomes]
         /\ body' \in [Calls -> Contents \cup {NoContent}]
         /\ file' \in [Calls -> Files]
         /\ name' \in [Calls -> Names]
  <1>1. Finish(k, o)
    BY DEF Settle
  <1>2. /\ body' \in [Calls -> Contents \cup {NoContent}]
        /\ file' \in [Calls -> Files]
        /\ name' \in [Calls -> Names]
    BY DEF Settle, TypeOK
  <1>3. QED
    BY <1>1, <1>2, FinishType

LEMMA RetryOrFailType ==
  ASSUME TypeOK, NEW k \in Calls, RetryOrFail(k)
  PROVE  /\ pc' \in [Calls -> Places]
         /\ known' \in [Calls -> Nat]
         /\ got' \in [Calls -> Nat]
         /\ tries' \in [Calls -> 0..MaxTries]
         /\ outcome' \in [Calls -> Outcomes]
         /\ body' \in [Calls -> Contents \cup {NoContent}]
         /\ file' \in [Calls -> Files]
         /\ name' \in [Calls -> Names]
  <1>1. CASE Settle(k, "failed")
    BY <1>1, SettleType DEF Outcomes
  <1>2. CASE /\ MayRetry(k)
             /\ tries' = [tries EXCEPT ![k] = @ + 1]
             /\ UNCHANGED <<pc, file, name, known, got, body, outcome>>
    BY <1>2, MaxTriesPositive DEF MayRetry, TypeOK
  <1>3. QED
    BY <1>1, <1>2 DEF RetryOrFail

LEMMA BaselineType ==
  ASSUME TypeOK, NEW k \in Calls, NEW v \in Nat, RecordBaseline(k, v)
  PROVE  baseline' \in [Clients -> [Files -> Nat]]
  BY ClientOfType DEF RecordBaseline, TypeOK

\* Every way to start a call is an instance of Start.
LEMMA StartShape ==
  ASSUME NEW k \in Calls, StartCall(k)
  PROVE  \E place \in {"sample", "check", "list", "delete", "probe"},
            f \in Files, n \in Names, b \in Contents \cup {NoContent} :
            /\ place # "list" => status[f] # "absent"
            /\ Start(k, place, f, n, b)
  <1>1. AnyFile \in Files /\ AnyName \in Names
    BY FilesAndNames DEF AnyFile, AnyName
  <1>2. CASE \E f \in Files : StartRead(k, f)
    BY <1>1, <1>2 DEF StartRead
  <1>3. CASE \E f \in Files : StartRemove(k, f)
    BY <1>1, <1>3 DEF StartRemove
  <1>4. CASE \E f \in Files : StartStatus(k, f)
    BY <1>1, <1>4 DEF StartStatus
  <1>5. CASE \E f \in Files, b \in Contents : StartWriteId(k, f, b)
    BY <1>1, <1>5 DEF StartWriteId
  <1>6. CASE \E n \in Names, b \in Contents : StartWriteName(k, n, b)
    BY <1>1, <1>6 DEF StartWriteName
  <1>7. QED
    BY <1>2, <1>3, <1>4, <1>5, <1>6 DEF StartCall

LEMMA StartType ==
  ASSUME TypeOK, NEW k \in Calls, StartCall(k)
  PROVE  TypeOK'
  <1>1. PICK place \in {"sample", "check", "list", "delete", "probe"},
             f \in Files, n \in Names, b \in Contents \cup {NoContent} :
             Start(k, place, f, n, b)
    BY StartShape
  <1>2. place \in Places /\ "none" \in Outcomes /\ 1 \in 0..MaxTries
    BY MaxTriesPositive DEF Places, Outcomes
  <1>3. QED
    BY <1>1, <1>2 DEF Start, Goto, TypeOK, driveVars, histVars

LEMMA StepType ==
  ASSUME TypeOK, NEW k \in Calls, CallStep(k)
  PROVE  TypeOK'
  <1> USE DEF driveVars, histVars
  <1> DEFINE CallTypes ==
        /\ pc \in [Calls -> Places]
        /\ file \in [Calls -> Files]
        /\ name \in [Calls -> Names]
        /\ known \in [Calls -> Nat]
        /\ got \in [Calls -> Nat]
        /\ body \in [Calls -> Contents \cup {NoContent}]
        /\ tries \in [Calls -> 0..MaxTries]
        /\ outcome \in [Calls -> Outcomes]
  <1>a. \A o \in Outcomes : Settle(k, o) => CallTypes'
    BY SettleType
  <1>b. RetryOrFail(k) => CallTypes'
    BY RetryOrFailType
  <1>c. \A v \in Nat : RecordBaseline(k, v) => baseline' \in [Clients -> [Files -> Nat]]
    BY BaselineType
  <1>d. ClientOf[k] \in Clients /\ file[k] \in Files
    BY ClientOfType DEF TypeOK
  <1>1. CASE Sample(k)
    BY <1>1 DEF TypeOK, Sample, RemoteVersion, Goto, Places
  <1>2. CASE Download(k)
    BY <1>2 DEF TypeOK, Download, Goto, Places
  <1>3. CASE DownloadMissing(k)
    BY <1>3, <1>a DEF TypeOK, DownloadMissing, Outcomes
  <1>4. CASE Keep(k)
    <2>1. baseline' \in [Clients -> [Files -> Nat]]
      BY <1>4, <1>c DEF Keep, KeepVersion, TypeOK
    <2>2. restored' \in [Clients -> [Files -> SUBSET Nat]]
      BY <1>4, <1>d DEF Keep, TypeOK
    <2>3. Finish(k, "done") /\ "done" \in Outcomes
      BY <1>4 DEF Keep, Outcomes
    <2>4. QED
      BY <1>4, <2>1, <2>2, <2>3, FinishType DEF Keep, TypeOK
  <1>5. CASE Check(k)
    BY <1>5 DEF TypeOK, Check, RemoteVersion, Goto, Places
  <1>6. CASE ListFound(k)
    BY <1>6 DEF TypeOK, ListFound, LiveNamed, Goto, Places
  <1>7. CASE ListEmpty(k)
    BY <1>7 DEF TypeOK, ListEmpty, Goto, Places
  <1>8. CASE CompareFresh(k)
    BY <1>8 DEF TypeOK, CompareFresh, Goto, Places
  <1>9. CASE CompareStale(k)
    BY <1>9, <1>a DEF TypeOK, CompareStale, Outcomes
  <1>10. CASE Patch(k)
    BY <1>10 DEF TypeOK, Patch, Stamp, Goto, Places
  <1>11. CASE PatchUnanswered(k)
    BY <1>11, <1>b DEF TypeOK, PatchUnanswered, Stamp
  <1>12. CASE PatchMissing(k)
    BY <1>12, <1>a DEF TypeOK, PatchMissing, Outcomes
  <1>13. CASE Create(k)
    BY <1>13 DEF TypeOK, Create, Mint, Stamp, Goto, Places
  <1>14. CASE CreateUnanswered(k)
    BY <1>14, <1>b DEF TypeOK, CreateUnanswered, Mint, Stamp
  <1>15. CASE Record(k)
    <2>1. baseline' \in [Clients -> [Files -> Nat]]
      BY <1>15, <1>c DEF Record, RecordWritten, TypeOK
    <2>2. wrote' \in [Clients -> [Files -> SUBSET Nat]]
      BY <1>15, <1>d DEF Record, TypeOK
    <2>3. CallTypes'
      BY <1>15, <1>a DEF Record, Outcomes
    <2>4. QED
      BY <1>15, <2>1, <2>2, <2>3 DEF Record, TypeOK
  <1>16. CASE Delete(k)
    <2>1. status' \in [Files -> {"absent", "live", "removed"}]
      BY <1>16, <1>d DEF Delete, TypeOK
    <2>2. CallTypes'
      BY <1>16, <1>a DEF Delete, TypeOK, Goto, Places, Outcomes
    <2>3. QED
      BY <1>16, <2>1, <2>2 DEF Delete, TypeOK
  <1>17. CASE DeleteMissing(k)
    BY <1>17, <1>a DEF TypeOK, DeleteMissing, Outcomes
  <1>18. CASE Clear(k)
    BY <1>18, <1>a, <1>c DEF TypeOK, Clear, Outcomes
  <1>19. CASE ProbeMeta(k)
    <2>1. \A v, w \in Nat : Verdict(v, w) \in Outcomes
      BY DEF Verdict, Outcomes
    <2>2. RemoteVersion(file[k]) \in Nat /\ known[k] \in Nat
      BY <1>d DEF RemoteVersion, TypeOK
    <2>3. CASE pc[k] = "probe"
      <3>1. /\ known' = [known EXCEPT ![k] = RemoteVersion(file[k])]
            /\ Goto(k, "probeBase")
            /\ UNCHANGED <<driveVars, baseline, file, name, got, body, tries, outcome, histVars>>
        BY <1>19, <2>3 DEF ProbeMeta
      <3>2. QED
        BY <3>1, <2>2 DEF TypeOK, Goto, Places
    <2>4. CASE pc[k] = "probeMeta"
      <3>1. Settle(k, Verdict(known[k], RemoteVersion(file[k])))
        BY <1>19, <2>4 DEF ProbeMeta
      <3>2. CallTypes'
        BY <3>1, <1>a, <2>1, <2>2
      <3>3. QED
        BY <1>19, <2>4, <3>2 DEF ProbeMeta, TypeOK
    <2>5. QED
      BY <1>19, <2>3, <2>4 DEF ProbeMeta
  <1>20. CASE ProbeBase(k)
    <2>1. \A v, w \in Nat : Verdict(v, w) \in Outcomes
      BY DEF Verdict, Outcomes
    <2>2. Base(k) \in Nat /\ known[k] \in Nat
      BY <1>d DEF Base, TypeOK
    <2>3. CallTypes'
      BY <1>20, <1>a, <2>1, <2>2 DEF ProbeBase, TypeOK, Goto, Places
    <2>4. QED
      BY <1>20, <2>3 DEF ProbeBase, TypeOK
  <1>21. CASE Abort(k)
    BY <1>21, <1>a DEF TypeOK, Abort, Outcomes
  <1>22. QED
    BY <1>1, <1>2, <1>3, <1>4, <1>5, <1>6, <1>7, <1>8, <1>9, <1>10, <1>11,
       <1>12, <1>13, <1>14, <1>15, <1>16, <1>17, <1>18, <1>19, <1>20, <1>21
       DEF CallStep

\* Type correctness: whatever the calls, the other clients and the other
\* applications do, every variable of files.ts and storage.ts stays in its type.
THEOREM TypeCorrect == Spec => []TypeOK
  <1>1. TypeOK /\ [Next]_fgVars => TypeOK'
    <2> SUFFICES ASSUME TypeOK, [Next]_fgVars PROVE TypeOK'
      OBVIOUS
    <2>1. CASE \E k \in Calls : StartCall(k) \/ CallStep(k)
      BY <2>1, StartType, StepType
    <2>2. CASE \E f \in Files, b \in Contents : ExternalEdit(f, b)
      BY <2>2 DEF ExternalEdit, Stamp, TypeOK, callVars, histVars
    <2>3. CASE UNCHANGED fgVars
      BY <2>3 DEF fgVars, driveVars, callVars, histVars, TypeOK
    <2>4. QED
      BY <2>1, <2>2, <2>3 DEF Next
  <1>2. QED
    BY <1>1, InitTypeOK, PTL DEF Spec

-----------------------------------------------------------------------------
(* The inductive invariant.  BaselineCovered is not inductive by itself:   *)
(* what a call carries from one await to the next has to be related to     *)
(* what its client has seen.                                               *)

Covered(c, f, v) == \E w \in Seen(c, f) : v <= w

FilesSane ==
    \A f \in Files : status[f] = "live" => version[f] # 0

SeenBounded ==
    \A c \in Clients, f \in Files : \A v \in Seen(c, f) : v <= version[f]

BaselineSeen ==
    \A c \in Clients, f \in Files :
        baseline[c][f] # 0 => Covered(c, f, baseline[c][f])

CallSane(k) ==
    /\ pc[k] = "check" => status[file[k]] # "absent"
    /\ pc[k] = "download" => known[k] <= version[file[k]]
    /\ pc[k] = "keep" => known[k] <= got[k] /\ got[k] <= version[file[k]]
    /\ pc[k] = "record" => known[k] <= version[file[k]]
    /\ pc[k] = "compare" => known[k] # 0
    /\ pc[k] = "patch" =>
          IF known[k] = 0 THEN status[file[k]] = "removed"
          ELSE Covered(ClientOf[k], file[k], known[k])

IInv ==
    /\ TypeOK
    /\ FilesSane
    /\ SeenBounded
    /\ BaselineSeen
    /\ \A k \in Calls : CallSane(k)

\* What no step undoes: versions grow, ids are never taken back, a client never
\* forgets what it has seen.
Monotone ==
    /\ \A f \in Files : version[f] <= version'[f]
    /\ \A f \in Files : status[f] # "absent" => status'[f] # "absent"
    /\ \A f \in Files : status[f] = "removed" => status'[f] = "removed"
    /\ \A c \in Clients, f \in Files : Seen(c, f) \subseteq Seen(c, f)'

\* A call that does not move is not disturbed by what the others do.
Still(k) ==
    /\ pc'[k] = pc[k]
    /\ file'[k] = file[k]
    /\ known'[k] = known[k]
    /\ got'[k] = got[k]

LEMMA StillSane ==
  ASSUME TypeOK, TypeOK', Monotone, NEW k \in Calls, Still(k), CallSane(k)
  PROVE  CallSane(k)'
  <1>1. file[k] \in Files /\ ClientOf[k] \in Clients
    BY ClientOfType DEF TypeOK
  <1>2. /\ version[file[k]] \in Nat /\ version'[file[k]] \in Nat
        /\ known[k] \in Nat /\ got[k] \in Nat
    BY <1>1 DEF TypeOK
  <1>3. \A c \in Clients, f \in Files, v \in Nat : Covered(c, f, v) => Covered(c, f, v)'
    BY DEF Monotone, Covered
  <1>4. Covered(ClientOf[k], file[k], known[k]) => Covered(ClientOf[k], file[k], known[k])'
    BY <1>1, <1>2, <1>3 DEF Still
  <1>5. QED
    BY <1>1, <1>2, <1>4 DEF CallSane, Still, Monotone


\* The steps that touch nothing but their own call.
Quiet == UNCHANGED <<driveVars, baseline, histVars>>

LEMMA StepKinds ==
  ASSUME NEW k \in Calls, CallStep(k)
  PROVE  \/ Quiet
         \/ Keep(k) \/ Record(k) \/ Clear(k) \/ Delete(k)
         \/ Patch(k) \/ PatchUnanswered(k)
         \/ Create(k) \/ CreateUnanswered(k)
  BY DEF CallStep, Quiet, Sample, Download, DownloadMissing, Check, ListFound,
         ListEmpty, CompareFresh, CompareStale, PatchMissing, DeleteMissing,
         ProbeMeta, ProbeBase, Abort

LEMMA StartQuiet ==
  ASSUME NEW k \in Calls, StartCall(k)
  PROVE  Quiet
  BY StartShape DEF Start, Quiet

LEMMA SettleStill ==
  ASSUME TypeOK, NEW k \in Calls, NEW o, Settle(k, o), NEW j \in Calls \ {k}
  PROVE  Still(j)
  BY DEF Settle, Finish, Goto, Still, TypeOK

\* Nor does a step change the attempt number of another call.
LEMMA OthersTries ==
  ASSUME TypeOK, NEW k \in Calls, StartCall(k) \/ CallStep(k), NEW j \in Calls \ {k}
  PROVE  tries'[j] = tries[j]
  <1>s. \A o : Finish(k, o) \/ Settle(k, o) => tries'[j] = tries[j]
    BY DEF Settle, Finish, TypeOK
  <1>r. RetryOrFail(k) => tries'[j] = tries[j]
    BY <1>s DEF RetryOrFail, TypeOK
  <1>1. CASE StartCall(k)
    BY <1>1, StartShape DEF Start, TypeOK
  <1>2. QED
    BY <1>1, <1>s, <1>r
       DEF CallStep, Sample, Download, DownloadMissing, Keep, Check, ListFound,
           ListEmpty, CompareFresh, CompareStale, Patch, PatchUnanswered,
           PatchMissing, Create, CreateUnanswered, Record, Delete, DeleteMissing,
           Clear, ProbeMeta, ProbeBase, Abort

LEMMA StepStill ==
  ASSUME TypeOK, NEW k \in Calls, StartCall(k) \/ CallStep(k), NEW j \in Calls \ {k}
  PROVE  Still(j)
  <1> USE DEF Goto, Still
  <1>s. \A o : Settle(k, o) => Still(j)
    BY SettleStill
  <1>r. RetryOrFail(k) => Still(j)
    BY <1>s DEF RetryOrFail
  <1>0. CASE StartCall(k)
    BY <1>0, StartShape DEF Start, TypeOK
  <1>1. CASE Sample(k)
    BY <1>1 DEF Sample, TypeOK
  <1>2. CASE Download(k)
    BY <1>2 DEF Download, TypeOK
  <1>3. CASE DownloadMissing(k)
    BY <1>3, <1>s DEF DownloadMissing, TypeOK
  <1>4. CASE Keep(k)
    BY <1>4 DEF Keep, Finish, TypeOK
  <1>5. CASE Check(k)
    BY <1>5 DEF Check, TypeOK
  <1>6. CASE ListFound(k)
    BY <1>6 DEF ListFound, TypeOK
  <1>7. CASE ListEmpty(k)
    BY <1>7 DEF ListEmpty, TypeOK
  <1>8. CASE CompareFresh(k)
    BY <1>8 DEF CompareFresh, TypeOK
  <1>9. CASE CompareStale(k)
    BY <1>9, <1>s DEF CompareStale, TypeOK
  <1>10. CASE Patch(k)
    BY <1>10 DEF Patch, TypeOK
  <1>11. CASE PatchUnanswered(k)
    BY <1>11, <1>r DEF PatchUnanswered, TypeOK
  <1>12. CASE PatchMissing(k)
    BY <1>12, <1>s DEF PatchMissing, TypeOK
  <1>13. CASE Create(k)
    BY <1>13 DEF Create, TypeOK
  <1>14. CASE CreateUnanswered(k)
    BY <1>14, <1>r DEF CreateUnanswered, TypeOK
  <1>15. CASE Record(k)
    BY <1>15, <1>s DEF Record, TypeOK
  <1>16. CASE Delete(k)
    BY <1>16, <1>s DEF Delete, TypeOK
  <1>17. CASE DeleteMissing(k)
    BY <1>17, <1>s DEF DeleteMissing, TypeOK
  <1>18. CASE Clear(k)
    BY <1>18, <1>s DEF Clear, TypeOK
  <1>19. CASE ProbeMeta(k)
    BY <1>19, <1>s DEF ProbeMeta, TypeOK
  <1>20. CASE ProbeBase(k)
    BY <1>20, <1>s DEF ProbeBase, TypeOK
  <1>21. CASE Abort(k)
    BY <1>21, <1>s DEF Abort, TypeOK
  <1>22. QED
    BY <1>0, <1>1, <1>2, <1>3, <1>4, <1>5, <1>6, <1>7, <1>8, <1>9, <1>10, <1>11,
       <1>12, <1>13, <1>14, <1>15, <1>16, <1>17, <1>18, <1>19, <1>20, <1>21
       DEF CallStep


LEMMA StepMonotone ==
  ASSUME TypeOK, NEW k \in Calls, StartCall(k) \/ CallStep(k)
  PROVE  Monotone
  <1>d. ClientOf[k] \in Clients /\ file[k] \in Files
    BY ClientOfType DEF TypeOK
  <1>1. CASE Quiet
    BY <1>1 DEF Quiet, Monotone, driveVars, histVars, Seen, TypeOK
  <1>2. CASE Keep(k)
    BY <1>2, <1>d DEF Keep, Monotone, driveVars, Seen, TypeOK
  <1>3. CASE Record(k)
    BY <1>3, <1>d DEF Record, Monotone, driveVars, Seen, TypeOK
  <1>4. CASE Clear(k)
    BY <1>4 DEF Clear, Monotone, driveVars, histVars, Seen, TypeOK
  <1>5. CASE Delete(k)
    BY <1>5, <1>d DEF Delete, Live, Monotone, histVars, Seen, TypeOK
  <1>6. CASE Patch(k) \/ PatchUnanswered(k)
    <2>1. /\ version' = [version EXCEPT ![file[k]] = @ + 1]
          /\ UNCHANGED <<status, histVars>>
      BY <1>6 DEF Patch, PatchUnanswered, Stamp
    <2>2. QED
      BY <2>1, <1>d DEF Monotone, histVars, Seen, TypeOK
  <1>7. CASE Create(k) \/ CreateUnanswered(k)
    <2>1. PICK f \in Files : Mint(f, name[k], body[k])
      BY <1>7 DEF Create, CreateUnanswered
    <2>2. UNCHANGED histVars
      BY <1>7 DEF Create, CreateUnanswered
    <2>3. QED
      BY <2>1, <2>2 DEF Mint, Stamp, Monotone, histVars, Seen, TypeOK
  <1>8. QED
    BY <1>1, <1>2, <1>3, <1>4, <1>5, <1>6, <1>7, StepKinds, StartQuiet

LEMMA StepFilesSane ==
  ASSUME TypeOK, FilesSane, NEW k \in Calls, StartCall(k) \/ CallStep(k)
  PROVE  FilesSane'
  <1>1. CASE UNCHANGED <<status, version>>
    BY <1>1 DEF FilesSane
  <1>2. CASE Delete(k)
    BY <1>2 DEF Delete, FilesSane, TypeOK
  <1>3. CASE Patch(k) \/ PatchUnanswered(k)
    <2>1. /\ version' = [version EXCEPT ![file[k]] = @ + 1]
          /\ UNCHANGED status
      BY <1>3 DEF Patch, PatchUnanswered, Stamp
    <2>2. QED
      BY <2>1 DEF FilesSane, TypeOK
  <1>4. CASE Create(k) \/ CreateUnanswered(k)
    <2>1. PICK f \in Files : Mint(f, name[k], body[k])
      BY <1>4 DEF Create, CreateUnanswered
    <2>2. QED
      BY <2>1 DEF Mint, Stamp, FilesSane, TypeOK
  <1>5. QED
    BY <1>1, <1>2, <1>3, <1>4, StepKinds, StartQuiet
       DEF Quiet, Keep, Record, Clear, driveVars

LEMMA StepSeenBounded ==
  ASSUME TypeOK, TypeOK', Monotone, SeenBounded, NEW k \in Calls, CallSane(k),
         StartCall(k) \/ CallStep(k)
  PROVE  SeenBounded'
  <1>d. ClientOf[k] \in Clients /\ file[k] \in Files
    BY ClientOfType DEF TypeOK
  <1>1. CASE UNCHANGED histVars
    BY <1>1 DEF SeenBounded, Monotone, Seen, histVars, TypeOK
  <1>2. CASE Keep(k)
    BY <1>2, <1>d DEF Keep, CallSane, SeenBounded, Seen, driveVars, TypeOK
  <1>3. CASE Record(k)
    BY <1>3, <1>d DEF Record, CallSane, SeenBounded, Seen, driveVars, TypeOK
  <1>4. QED
    BY <1>1, <1>2, <1>3, StepKinds, StartQuiet
       DEF Quiet, Clear, Delete, Patch, PatchUnanswered, Create, CreateUnanswered

LEMMA StepBaselineSeen ==
  ASSUME TypeOK, TypeOK', Monotone, BaselineSeen, NEW k \in Calls, CallSane(k),
         StartCall(k) \/ CallStep(k)
  PROVE  BaselineSeen'
  <1>d. /\ ClientOf[k] \in Clients /\ file[k] \in Files
        /\ known[k] \in Nat /\ got[k] \in Nat
    BY ClientOfType DEF TypeOK
  <1>m. \A c \in Clients, f \in Files, v \in Nat : Covered(c, f, v) => Covered(c, f, v)'
    BY DEF Monotone, Covered
  <1>1. CASE UNCHANGED baseline
    BY <1>1, <1>m DEF BaselineSeen, TypeOK
  <1>2. ASSUME NEW v \in Nat, RecordBaseline(k, v),
               \A c \in Clients, f \in Files :
                  v # 0 /\ c = ClientOf[k] /\ f = file[k] => Covered(c, f, v)'
        PROVE  BaselineSeen'
    <2> SUFFICES \A c \in Clients, f \in Files, w \in Nat :
                    w = baseline'[c][f] /\ w # 0 => Covered(c, f, w)'
      <3>1. \A c \in Clients, f \in Files : baseline'[c][f] \in Nat
        BY DEF TypeOK
      <3>2. QED
        BY <3>1 DEF BaselineSeen, Covered
    <2> TAKE c \in Clients, f \in Files, w \in Nat
    <2> HAVE w = baseline'[c][f] /\ w # 0
    <2>1. CASE c = ClientOf[k] /\ f = file[k]
      <3>1. baseline'[c][f] = v
        BY <1>2, <2>1 DEF RecordBaseline, TypeOK
      <3>2. QED
        BY <1>2, <2>1, <3>1
    <2>2. CASE ~(c = ClientOf[k] /\ f = file[k])
      <3>1. baseline'[c][f] = baseline[c][f]
        BY <1>2, <1>d, <2>2 DEF RecordBaseline, TypeOK
      <3>2. QED
        BY <3>1, <1>m DEF BaselineSeen, TypeOK
    <2>3. QED
      BY <2>1, <2>2
  <1>3. CASE Keep(k)
    <2>1. got[k] \in Seen(ClientOf[k], file[k])'
      BY <1>3, <1>d DEF Keep, Seen, TypeOK
    <2>2. QED
      BY <1>1, <1>2, <1>3, <1>d, <2>1 DEF Keep, KeepVersion, CallSane, Covered
  <1>4. CASE Record(k)
    <2>1. known[k] \in Seen(ClientOf[k], file[k])'
      BY <1>4, <1>d DEF Record, Settle, Seen, TypeOK
    <2>2. QED
      BY <1>2, <1>4, <1>d, <2>1 DEF Record, RecordWritten, Settle, Covered
  <1>5. CASE Clear(k)
    BY <1>2, <1>5 DEF Clear
  <1>6. QED
    BY <1>1, <1>3, <1>4, <1>5, StepKinds, StartQuiet
       DEF Quiet, Delete, Patch, PatchUnanswered, Create, CreateUnanswered


LEMMA StepCallSane ==
  ASSUME IInv, TypeOK', Monotone, NEW k \in Calls, StartCall(k) \/ CallStep(k)
  PROVE  CallSane(k)'
  <1> USE DEF Goto
  <1>d. /\ ClientOf[k] \in Clients /\ file[k] \in Files /\ pc[k] \in Places
        /\ known[k] \in Nat /\ got[k] \in Nat /\ version[file[k]] \in Nat
        /\ TypeOK /\ CallSane(k)
    BY ClientOfType DEF IInv, TypeOK
  <1>i. pc'[k] = "idle" => CallSane(k)'
    BY DEF CallSane
  <1>f. \A o : Finish(k, o) \/ Settle(k, o) => pc'[k] = "idle"
    BY <1>d DEF Finish, Settle, TypeOK
  <1>m. \A c \in Clients, f \in Files, v \in Nat : Covered(c, f, v) => Covered(c, f, v)'
    BY DEF Monotone, Covered
  <1>0. CASE StartCall(k)
    BY <1>0, <1>d, StartShape DEF Start, CallSane, TypeOK, driveVars
  <1>1. CASE Sample(k)
    BY <1>1, <1>d DEF Sample, RemoteVersion, CallSane, TypeOK, driveVars
  <1>2. CASE Download(k)
    BY <1>2, <1>d DEF Download, CallSane, TypeOK, driveVars
  <1>3. CASE Check(k)
    <2>1. CASE Live(file[k])
      BY <1>3, <2>1, <1>d DEF Check, RemoteVersion, Live, IInv, FilesSane,
                             CallSane, TypeOK, driveVars
    <2>2. CASE ~Live(file[k])
      BY <1>3, <2>2, <1>d DEF Check, RemoteVersion, Live, CallSane, TypeOK, driveVars
    <2>3. QED
      BY <2>1, <2>2
  <1>4. CASE ListFound(k)
    BY <1>4, <1>d DEF ListFound, LiveNamed, Live, IInv, FilesSane, CallSane, TypeOK
  <1>5. CASE ListEmpty(k)
    BY <1>5, <1>d DEF ListEmpty, CallSane, TypeOK
  <1>6. CASE CompareFresh(k)
    <2>1. Covered(ClientOf[k], file[k], known[k])
      BY <1>6, <1>d DEF CompareFresh, Matches, Base, IInv, BaselineSeen, CallSane
    <2>2. pc'[k] = "patch" /\ file'[k] = file[k] /\ known'[k] = known[k]
      BY <1>6, <1>d DEF CompareFresh, TypeOK
    <2>3. known[k] # 0
      BY <1>6, <1>d DEF CompareFresh, CallSane
    <2>4. Covered(ClientOf[k], file[k], known[k])'
      BY <2>1, <2>2, <1>d, <1>m
    <2>5. QED
      BY <2>2, <2>3, <2>4 DEF CallSane
  <1>7. CASE Patch(k)
    BY <1>7, <1>d DEF Patch, Stamp, CallSane, TypeOK
  <1>8. CASE Create(k)
    BY <1>8, <1>d DEF Create, Mint, Stamp, CallSane, TypeOK
  <1>9. CASE RetryOrFail(k)
    <2>1. CASE UNCHANGED <<pc, file, name, known, got, body, outcome>>
      <3>1. Still(k)
        BY <2>1 DEF Still
      <3>2. QED
        BY <3>1, <1>d, StillSane
    <2>2. QED
      BY <1>9, <2>1, <1>i, <1>f DEF RetryOrFail
  <1>10. CASE Delete(k)
    <2>1. pc'[k] = "clear" \/ pc'[k] = "idle"
      BY <1>10, <1>d, <1>f DEF Delete, TypeOK
    <2>2. QED
      BY <2>1 DEF CallSane
  <1>11. CASE ProbeMeta(k)
    <2>1. pc'[k] = "probeBase" \/ pc'[k] = "idle"
      BY <1>11, <1>d, <1>f DEF ProbeMeta, TypeOK
    <2>2. QED
      BY <2>1 DEF CallSane
  <1>12. CASE ProbeBase(k)
    <2>1. pc'[k] = "probeMeta" \/ pc'[k] = "idle"
      BY <1>12, <1>d, <1>f DEF ProbeBase, TypeOK
    <2>2. QED
      BY <2>1 DEF CallSane
  <1>13. CASE pc'[k] = "idle"
    BY <1>13, <1>i
  <1>14. QED
    BY <1>0, <1>1, <1>2, <1>3, <1>4, <1>5, <1>6, <1>7, <1>8, <1>9, <1>10,
       <1>11, <1>12, <1>13, <1>f
       DEF CallStep, DownloadMissing, Keep, CompareStale, PatchUnanswered,
           PatchMissing, CreateUnanswered, Record, DeleteMissing, Clear, Abort

LEMMA StepIInv ==
  ASSUME IInv, NEW k \in Calls, StartCall(k) \/ CallStep(k)
  PROVE  IInv'
  <1>1. TypeOK /\ TypeOK'
    BY StartType, StepType DEF IInv
  <1>2. Monotone
    BY <1>1, StepMonotone
  <1>3. FilesSane' /\ SeenBounded' /\ BaselineSeen'
    BY <1>1, <1>2, StepFilesSane, StepSeenBounded, StepBaselineSeen DEF IInv
  <1>4. ASSUME NEW j \in Calls PROVE CallSane(j)'
    <2>1. CASE j = k
      BY <2>1, <1>1, <1>2, StepCallSane
    <2>2. CASE j # k
      BY <2>2, <1>1, <1>2, StepStill, StillSane DEF IInv
    <2>3. QED
      BY <2>1, <2>2
  <1>5. QED
    BY <1>1, <1>3, <1>4 DEF IInv

LEMMA ExternalIInv ==
  ASSUME IInv, NEW f \in Files, NEW b \in Contents, ExternalEdit(f, b)
  PROVE  IInv'
  <1>1. TypeOK /\ TypeOK'
    BY DEF IInv, ExternalEdit, Stamp, TypeOK, callVars, histVars
  <1>2. Monotone /\ FilesSane'
    BY <1>1 DEF IInv, ExternalEdit, Stamp, TypeOK, FilesSane, Monotone, histVars, Seen
  <1>3. SeenBounded'
    BY <1>1, <1>2 DEF IInv, ExternalEdit, SeenBounded, Monotone, Seen, histVars, TypeOK
  <1>4. BaselineSeen'
    BY DEF IInv, ExternalEdit, BaselineSeen, Covered, Seen, histVars
  <1>5. ASSUME NEW j \in Calls PROVE CallSane(j)'
    <2>1. Still(j)
      BY DEF ExternalEdit, callVars, Still
    <2>2. QED
      BY <1>1, <1>2, <2>1, StillSane DEF IInv
  <1>6. QED
    BY <1>1, <1>2, <1>3, <1>4, <1>5 DEF IInv

\* Every reachable state satisfies the strengthening the theorems below rest on.
THEOREM Inductive == Spec => []IInv
  <1>1. Init => IInv
    BY InitTypeOK DEF Init, IInv, FilesSane, SeenBounded, Seen, BaselineSeen, CallSane
  <1>2. IInv /\ [Next]_fgVars => IInv'
    <2> SUFFICES ASSUME IInv, [Next]_fgVars PROVE IInv'
      OBVIOUS
    <2>1. CASE \E k \in Calls : StartCall(k) \/ CallStep(k)
      BY <2>1, StepIInv
    <2>2. CASE \E f \in Files, b \in Contents : ExternalEdit(f, b)
      BY <2>2, ExternalIInv
    <2>3. CASE UNCHANGED fgVars
      BY <2>3 DEF fgVars, driveVars, callVars, histVars, IInv, TypeOK, FilesSane,
                  SeenBounded, BaselineSeen, Covered, Seen, CallSane
    <2>4. QED
      BY <2>1, <2>2, <2>3 DEF Next
  <1>3. QED
    BY <1>1, <1>2, PTL DEF Spec


\* A baseline in IndexedDB never claims more than its client has been given:
\* for any number of clients, tabs, retries, crashes and outside editors, the
\* client has restored or written that version of the file or a later one.
THEOREM BaselineIsCovered == Spec => []BaselineCovered
  <1>1. IInv => BaselineCovered
    BY DEF IInv, TypeOK, BaselineSeen, SeenBounded, Covered, BaselineCovered
  <1>2. QED
    BY <1>1, Inductive, PTL

\* An upload that changes a file is a step of its own call, and finds it live.
LEMMA OverwriteIsOwn ==
  ASSUME IInv, [Next]_fgVars, NEW k \in Calls, Overwrites(k)
  PROVE  Live(file[k])
  <1>d. file[k] \in Files /\ TypeOK
    BY DEF IInv, TypeOK
  <1>1. ~Still(k) \/ tries'[k] # tries[k]
    BY DEF Overwrites, Still
  <1>2. CASE \E f \in Files, b \in Contents : ExternalEdit(f, b)
    BY <1>1, <1>2 DEF ExternalEdit, callVars, Still
  <1>3. CASE UNCHANGED fgVars
    BY <1>1, <1>3 DEF fgVars, callVars, Still
  <1>4. CASE StartCall(k)
    BY <1>4, StartShape DEF Start, Overwrites
  <1>5. CASE CallStep(k)
    <2>1. CASE Patch(k) \/ PatchUnanswered(k)
      BY <2>1 DEF Patch, PatchUnanswered
    <2>2. CASE UNCHANGED version
      BY <2>2 DEF Overwrites
    <2>3. QED
      BY <1>5, <2>1, <2>2, StepKinds
         DEF Quiet, Keep, Record, Clear, Delete, Create, CreateUnanswered,
             Overwrites, driveVars
  <1>6. ASSUME NEW j \in Calls \ {k}, StartCall(j) \/ CallStep(j)
        PROVE  FALSE
    <2>1. Still(k)
      BY <1>6, <1>d, StepStill
    <2>2. tries'[k] = tries[k]
      BY <1>6, <1>d, OthersTries
    <2>3. QED
      BY <1>1, <2>1, <2>2
  <1>7. QED
    BY <1>2, <1>3, <1>4, <1>5, <1>6 DEF Next

\* The staleness guard leaves no window but the one between its own check and
\* its upload: what an upload replaces, its client has seen, or it is newer than
\* the version the check compared.
THEOREM NoBlindOverwriteHolds == Spec => NoBlindOverwrite
  <1>1. ASSUME IInv, [Next]_fgVars, NEW k \in Calls, Overwrites(k)
        PROVE  /\ known[k] # 0
               /\ \/ version[file[k]] \in Seen(ClientOf[k], file[k])
                  \/ version[file[k]] > known[k]
    <2>1. /\ file[k] \in Files /\ ClientOf[k] \in Clients
          /\ known[k] \in Nat /\ version[file[k]] \in Nat
      BY <1>1, ClientOfType DEF IInv, TypeOK
    <2>2. CallSane(k) /\ pc[k] = "patch" /\ status[file[k]] = "live"
      BY <1>1, OverwriteIsOwn DEF IInv, Overwrites, Live
    <2>3. known[k] # 0 /\ Covered(ClientOf[k], file[k], known[k])
      BY <2>2 DEF CallSane
    <2>4. PICK w \in Seen(ClientOf[k], file[k]) : known[k] <= w
      BY <2>3 DEF Covered
    <2>5. w <= version[file[k]] /\ w \in Nat
      BY <1>1, <2>1, <2>4 DEF IInv, SeenBounded, Seen, TypeOK
    <2>6. QED
      BY <2>1, <2>3, <2>4, <2>5
  <1>2. IInv /\ [Next]_fgVars =>
          [\A k \in Calls : Overwrites(k) =>
              /\ known[k] # 0
              /\ \/ version[file[k]] \in Seen(ClientOf[k], file[k])
                 \/ version[file[k]] > known[k]]_fgVars
    BY <1>1
  <1>3. QED
    BY <1>2, Inductive, PTL DEF Spec, NoBlindOverwrite

-----------------------------------------------------------------------------
(* One call per client at a time: what RefusalNotSelf and ProbeHonest are   *)
(* stated for.  Then nobody else moves the baseline a call relies on.       *)

OneCallPerClient == \A j, k \in Calls : ClientOf[j] = ClientOf[k] => j = k

\* A version a client wrote is not above its baseline, until the file is removed.
WritesBased ==
    \A c \in Clients, f \in Files :
        status[f] # "removed" => \A v \in wrote[c][f] : v <= baseline[c][f]

Wrote(k) == wrote[ClientOf[k]][file[k]]

\* What a call holds against its client's baseline and writes.
OwnSane(k) ==
    /\ pc[k] # "idle" => outcome[k] = "none"
    /\ pc[k] \in {"download", "keep"} /\ known[k] # 0 => \A v \in Wrote(k) : v <= known[k]
    /\ pc[k] = "compare" => Base(k) <= known[k] /\ \A v \in Wrote(k) : v <= Base(k)
    /\ pc[k] = "record" => \A v \in Wrote(k) : v <= known[k]
    /\ pc[k] = "clear" => status[file[k]] = "removed"
    /\ pc[k] = "probeBase" => known[k] = 0 \/ Base(k) <= known[k]
    /\ pc[k] = "probeBase" => known[k] <= version[file[k]]
    /\ pc[k] = "probeMeta" => known[k] = Base(k)

OwnIInv ==
    /\ IInv
    /\ WritesBased
    /\ \A k \in Calls : OwnSane(k)

\* No baseline and no write is above the version Drive has reached.
LEMMA BaselineBounded ==
  ASSUME IInv, NEW c \in Clients, NEW f \in Files
  PROVE  /\ baseline[c][f] \in Nat /\ version[f] \in Nat
         /\ baseline[c][f] <= version[f]
         /\ \A v \in wrote[c][f] : v \in Nat /\ v <= version[f]
  <1>1. /\ baseline[c][f] \in Nat /\ version[f] \in Nat
        /\ restored[c][f] \subseteq Nat /\ wrote[c][f] \subseteq Nat
    BY DEF IInv, TypeOK
  <1>2. \A v \in Seen(c, f) : v \in Nat /\ v <= version[f]
    BY <1>1 DEF IInv, SeenBounded, Seen
  <1>3. baseline[c][f] # 0 => \E v \in Seen(c, f) : baseline[c][f] <= v
    BY DEF IInv, BaselineSeen, Covered
  <1>4. baseline[c][f] <= version[f]
    BY <1>1, <1>2, <1>3
  <1>5. QED
    BY <1>1, <1>2, <1>4 DEF Seen

\* A step of one call changes neither the outcome of another nor the baselines and writes
\* of another client.
LEMMA OthersOutcome ==
  ASSUME TypeOK, NEW k \in Calls, StartCall(k) \/ CallStep(k), NEW j \in Calls \ {k}
  PROVE  outcome'[j] = outcome[j]
  <1>s. \A o : Finish(k, o) \/ Settle(k, o) => outcome'[j] = outcome[j]
    BY DEF Settle, Finish, TypeOK
  <1>r. RetryOrFail(k) => outcome'[j] = outcome[j]
    BY <1>s DEF RetryOrFail, TypeOK
  <1>1. CASE StartCall(k)
    BY <1>1, StartShape DEF Start, TypeOK
  <1>2. QED
    BY <1>1, <1>s, <1>r
       DEF CallStep, Sample, Download, DownloadMissing, Keep, Check, ListFound,
           ListEmpty, CompareFresh, CompareStale, Patch, PatchUnanswered,
           PatchMissing, Create, CreateUnanswered, Record, Delete, DeleteMissing,
           Clear, ProbeMeta, ProbeBase, Abort

LEMMA OthersStore ==
  ASSUME TypeOK, NEW k \in Calls, StartCall(k) \/ CallStep(k), NEW c \in Clients,
         c # ClientOf[k]
  PROVE  baseline'[c] = baseline[c] /\ wrote'[c] = wrote[c]
  <1>1. CASE UNCHANGED <<baseline, wrote>>
    BY <1>1
  <1>2. CASE Keep(k)
    BY <1>2 DEF Keep, RecordBaseline, TypeOK
  <1>3. CASE Record(k)
    BY <1>3 DEF Record, RecordWritten, RecordBaseline, TypeOK
  <1>4. CASE Clear(k)
    BY <1>4 DEF Clear, RecordBaseline, histVars, TypeOK
  <1>5. QED
    BY <1>1, <1>2, <1>3, <1>4, StepKinds, StartQuiet
       DEF Quiet, Delete, Patch, PatchUnanswered, Create, CreateUnanswered, histVars

\* A call whose client is left alone, by others or by an outside editor, stays sane.
LEMMA StillOwn ==
  ASSUME TypeOK, TypeOK', Monotone, NEW k \in Calls, Still(k), outcome'[k] = outcome[k],
         baseline'[ClientOf[k]] = baseline[ClientOf[k]], wrote'[ClientOf[k]] = wrote[ClientOf[k]],
         OwnSane(k)
  PROVE  OwnSane(k)'
  <1>1. file[k] \in Files /\ ClientOf[k] \in Clients /\ known[k] \in Nat
    BY ClientOfType DEF TypeOK
  <1>2. version[file[k]] \in Nat /\ version'[file[k]] \in Nat
    BY <1>1 DEF TypeOK
  <1>3. Wrote(k)' = Wrote(k) /\ Base(k)' = Base(k)
    BY DEF Wrote, Base, Still
  <1>4. /\ version[file[k]] <= version'[file[k]]
        /\ status[file[k]] = "removed" => status'[file[k]] = "removed"
    BY <1>1 DEF Monotone
  <1>5. QED
    BY <1>1, <1>2, <1>3, <1>4 DEF OwnSane, Still

LEMMA StepWritesBased ==
  ASSUME OwnIInv, TypeOK', Monotone, NEW k \in Calls, StartCall(k) \/ CallStep(k)
  PROVE  WritesBased'
  <1>d. /\ ClientOf[k] \in Clients /\ file[k] \in Files /\ known[k] \in Nat
        /\ TypeOK /\ OwnSane(k)
    BY ClientOfType DEF OwnIInv, IInv, TypeOK
  <1>w. \A c \in Clients, f \in Files : wrote[c][f] \subseteq Nat
    BY <1>d DEF TypeOK
  <1>m. \A f \in Files : status'[f] # "removed" => status[f] # "removed"
    BY DEF Monotone
  <1>1. CASE UNCHANGED <<baseline, wrote>>
    BY <1>1, <1>m DEF OwnIInv, WritesBased
  <1>2. ASSUME NEW v \in Nat, NEW W, RecordBaseline(k, v),
               wrote' = [wrote EXCEPT ![ClientOf[k]][file[k]] = W],
               status'[file[k]] # "removed" => \A w \in W : w <= v
        PROVE  WritesBased'
    <2> SUFFICES ASSUME NEW c \in Clients, NEW f \in Files, status'[f] # "removed"
                 PROVE  \A w \in wrote'[c][f] : w <= baseline'[c][f]
      BY DEF WritesBased
    <2>1. CASE c = ClientOf[k] /\ f = file[k]
      <3>1. baseline'[c][f] = v /\ wrote'[c][f] = W
        BY <1>2, <1>d, <2>1 DEF RecordBaseline, TypeOK
      <3>2. QED
        BY <1>2, <2>1, <3>1
    <2>2. CASE ~(c = ClientOf[k] /\ f = file[k])
      <3>1. baseline'[c][f] = baseline[c][f] /\ wrote'[c][f] = wrote[c][f]
        BY <1>2, <1>d, <2>2 DEF RecordBaseline, TypeOK
      <3>2. QED
        BY <1>m, <3>1 DEF OwnIInv, WritesBased
    <2>3. QED
      BY <2>1, <2>2
  <1>3. wrote' = wrote => wrote' = [wrote EXCEPT ![ClientOf[k]][file[k]] = Wrote(k)]
    BY <1>d DEF Wrote, TypeOK
  <1>4. CASE Keep(k)
    <2>1. wrote' = wrote
      BY <1>4 DEF Keep
    <2>2. CASE known[k] = 0
      BY <1>1, <1>4, <2>1, <2>2 DEF Keep
    <2>3. CASE known[k] # 0
      <3>1. RecordBaseline(k, known[k]) /\ pc[k] = "keep"
        BY <1>4, <2>3 DEF Keep, KeepVersion
      <3>2. \A w \in Wrote(k) : w <= known[k]
        BY <1>d, <2>3, <3>1 DEF OwnSane
      <3>3. QED
        BY <1>2, <1>3, <1>d, <2>1, <3>1, <3>2
    <2>4. QED
      BY <2>2, <2>3
  <1>5. CASE Record(k)
    <2>1. /\ RecordBaseline(k, known[k]) /\ pc[k] = "record"
          /\ wrote' = [wrote EXCEPT ![ClientOf[k]][file[k]] = Wrote(k) \cup {known[k]}]
      BY <1>5 DEF Record, RecordWritten, Wrote
    <2>2. \A w \in Wrote(k) \cup {known[k]} : w <= known[k]
      BY <1>d, <2>1 DEF OwnSane
    <2>3. QED
      BY <1>2, <1>d, <2>1, <2>2
  <1>6. CASE Clear(k)
    <2>1. RecordBaseline(k, 0) /\ pc[k] = "clear" /\ wrote' = wrote
      BY <1>6 DEF Clear, histVars
    <2>2. status'[file[k]] = "removed"
      BY <1>d, <2>1 DEF OwnSane, Monotone
    <2>3. QED
      BY <1>2, <1>3, <2>1, <2>2
  <1>7. QED
    BY <1>1, <1>4, <1>5, <1>6, StepKinds, StartQuiet
       DEF Quiet, Delete, Patch, PatchUnanswered, Create, CreateUnanswered, histVars

LEMMA StepOwnSane ==
  ASSUME OwnIInv, TypeOK', Monotone, NEW k \in Calls, StartCall(k) \/ CallStep(k)
  PROVE  OwnSane(k)'
  <1> USE DEF Goto
  <1>d. /\ ClientOf[k] \in Clients /\ file[k] \in Files /\ pc[k] \in Places
        /\ known[k] \in Nat /\ version[file[k]] \in Nat
        /\ TypeOK /\ IInv /\ OwnSane(k)
    BY ClientOfType DEF OwnIInv, IInv, TypeOK
  <1>b. \A f \in Files :
           /\ baseline[ClientOf[k]][f] \in Nat /\ version[f] \in Nat
           /\ baseline[ClientOf[k]][f] <= version[f]
           /\ \A v \in wrote[ClientOf[k]][f] : v \in Nat /\ v <= version[f]
           /\ status[f] # "removed" =>
                \A v \in wrote[ClientOf[k]][f] : v <= baseline[ClientOf[k]][f]
    BY <1>d, BaselineBounded DEF OwnIInv, WritesBased
  <1>i. pc'[k] = "idle" => OwnSane(k)'
    BY DEF OwnSane
  <1>f. \A o : Finish(k, o) \/ Settle(k, o) => pc'[k] = "idle"
    BY <1>d DEF Finish, Settle, TypeOK
  <1>0. CASE StartCall(k)
    <2>1. outcome'[k] = "none" /\ pc'[k] \in {"sample", "check", "list", "delete", "probe"}
      BY <1>0, <1>d, StartShape DEF Start, TypeOK
    <2>2. QED
      BY <2>1 DEF OwnSane
  <1>1. CASE Sample(k)
    <2>1. /\ pc'[k] = "download" /\ UNCHANGED <<file, wrote, outcome>> /\ pc[k] = "sample"
          /\ known'[k] = RemoteVersion(file[k])
      BY <1>1, <1>d DEF Sample, TypeOK, histVars
    <2>2. QED
      BY <2>1, <1>d, <1>b DEF RemoteVersion, OwnSane, Wrote
  <1>2. CASE Download(k)
    <2>1. /\ pc'[k] = "keep" /\ UNCHANGED <<file, wrote, outcome, known>> /\ pc[k] = "download"
      BY <1>2, <1>d DEF Download, TypeOK, histVars
    <2>2. QED
      BY <2>1, <1>d DEF OwnSane, Wrote
  <1>3. CASE Check(k)
    <2>1. /\ pc'[k] = "patch" \/ (pc'[k] = "compare" /\ Live(file[k]))
          /\ UNCHANGED <<file, wrote, baseline, outcome>> /\ pc[k] = "check"
          /\ known'[k] = RemoteVersion(file[k])
      BY <1>3, <1>d DEF Check, TypeOK, histVars
    <2>2. QED
      BY <2>1, <1>d, <1>b DEF RemoteVersion, Live, OwnSane, Wrote, Base
  <1>4. CASE ListFound(k)
    <2>1. PICK f \in Files : Live(f) /\ file' = [file EXCEPT ![k] = f] /\ known' = [known EXCEPT ![k] = version[f]]
      BY <1>4 DEF ListFound, LiveNamed
    <2>2. /\ pc'[k] = "compare" /\ UNCHANGED <<wrote, baseline, outcome>> /\ pc[k] = "list"
          /\ file'[k] = f /\ known'[k] = version[f]
      BY <1>4, <1>d, <2>1 DEF ListFound, TypeOK, histVars
    <2>3. QED
      BY <2>1, <2>2, <1>d, <1>b DEF Live, OwnSane, Wrote, Base
  <1>5. CASE ListEmpty(k) \/ CompareFresh(k)
    <2>1. pc'[k] \in {"create", "patch"} /\ outcome' = outcome /\ pc[k] # "idle"
      BY <1>5, <1>d DEF ListEmpty, CompareFresh, TypeOK
    <2>2. QED
      BY <2>1, <1>d DEF OwnSane
  <1>6. CASE Patch(k)
    <2>1. /\ pc'[k] = "record" /\ UNCHANGED <<wrote, file, outcome>> /\ pc[k] = "patch"
          /\ known'[k] = version[file[k]] + 1
      BY <1>6, <1>d DEF Patch, Stamp, TypeOK, histVars
    <2>2. QED
      BY <2>1, <1>d, <1>b DEF OwnSane, Wrote
  <1>7. CASE Create(k)
    <2>1. PICK f \in Files :
             Mint(f, name[k], body[k]) /\ file' = [file EXCEPT ![k] = f]
             /\ known' = [known EXCEPT ![k] = version'[f]]
      BY <1>7 DEF Create
    <2>2. /\ pc'[k] = "record" /\ UNCHANGED <<wrote, outcome>> /\ pc[k] = "create"
          /\ file'[k] = f /\ known'[k] = version[f] + 1
      BY <1>7, <1>d, <2>1 DEF Create, Mint, Stamp, TypeOK, histVars
    <2>3. QED
      BY <2>2, <1>d, <1>b DEF OwnSane, Wrote
  <1>8. CASE RetryOrFail(k) /\ pc[k] \in {"patch", "create"}
    <2>1. CASE UNCHANGED <<pc, file, name, known, got, body, outcome>>
      BY <1>8, <2>1, <1>d DEF OwnSane
    <2>2. QED
      BY <1>8, <2>1, <1>i, <1>f DEF RetryOrFail
  <1>9. CASE Delete(k)
    <2>1. CASE pc'[k] = "idle"
      BY <2>1, <1>i
    <2>2. CASE pc' = [pc EXCEPT ![k] = "clear"] /\ UNCHANGED <<file, outcome>>
      <3>1. status'[file[k]] = "removed" /\ pc'[k] = "clear" /\ pc[k] = "delete"
        BY <1>9, <1>d, <2>2 DEF Delete, TypeOK
      <3>2. QED
        BY <2>2, <3>1, <1>d DEF OwnSane
    <2>3. QED
      BY <1>9, <2>1, <2>2, <1>f DEF Delete
  <1>10. CASE ProbeMeta(k)
    <2>1. CASE pc'[k] = "idle"
      BY <2>1, <1>i
    <2>2. CASE pc[k] = "probe" /\ pc' = [pc EXCEPT ![k] = "probeBase"]
      <3>1. /\ known'[k] = RemoteVersion(file[k]) /\ UNCHANGED <<file, baseline, version, outcome>>
            /\ pc'[k] = "probeBase"
        BY <1>10, <1>d, <2>2 DEF ProbeMeta, driveVars, TypeOK
      <3>2. QED
        BY <2>2, <3>1, <1>d, <1>b DEF OwnSane, RemoteVersion, Base
    <2>3. QED
      BY <1>10, <2>1, <2>2, <1>f DEF ProbeMeta
  <1>11. CASE ProbeBase(k)
    <2>1. CASE pc'[k] = "idle"
      BY <2>1, <1>i
    <2>2. CASE pc[k] = "probe" /\ pc' = [pc EXCEPT ![k] = "probeMeta"]
      <3>1. /\ known'[k] = Base(k) /\ UNCHANGED <<file, baseline, outcome>>
            /\ pc'[k] = "probeMeta"
        BY <1>11, <1>d, <2>2 DEF ProbeBase, TypeOK
      <3>2. QED
        BY <2>2, <3>1, <1>d DEF OwnSane, Base
    <2>3. QED
      BY <1>11, <2>1, <2>2, <1>f DEF ProbeBase
  <1>12. CASE pc'[k] = "idle"
    BY <1>12, <1>i
  <1>13. QED
    BY <1>0, <1>1, <1>2, <1>3, <1>4, <1>5, <1>6, <1>7, <1>8, <1>9, <1>10,
       <1>11, <1>12, <1>f
       DEF CallStep, DownloadMissing, Keep, CompareStale, PatchUnanswered,
           PatchMissing, CreateUnanswered, Record, DeleteMissing, Clear, Abort

LEMMA OwnInductive ==
  ASSUME OneCallPerClient
  PROVE  Spec => []OwnIInv
  <1>1. Init => OwnIInv
    <2> SUFFICES ASSUME Init PROVE OwnIInv
      OBVIOUS
    <2>1. IInv
      BY InitTypeOK DEF Init, IInv, FilesSane, SeenBounded, Seen, BaselineSeen, CallSane
    <2>2. WritesBased /\ \A k \in Calls : OwnSane(k)
      BY DEF Init, WritesBased, OwnSane
    <2>3. QED
      BY <2>1, <2>2 DEF OwnIInv
  <1>2. OwnIInv /\ [Next]_fgVars => OwnIInv'
    <2> SUFFICES ASSUME OwnIInv, [Next]_fgVars PROVE OwnIInv'
      OBVIOUS
    <2>t. IInv /\ TypeOK
      BY DEF OwnIInv, IInv
    <2>1. ASSUME NEW k \in Calls, StartCall(k) \/ CallStep(k) PROVE OwnIInv'
      <3>1. IInv' /\ TypeOK' /\ Monotone
        BY <2>t, <2>1, StepIInv, StepMonotone DEF IInv
      <3>2. WritesBased'
        BY <2>1, <3>1, StepWritesBased
      <3>3. ASSUME NEW j \in Calls PROVE OwnSane(j)'
        <4>1. CASE j = k
          BY <2>1, <3>1, <4>1, StepOwnSane
        <4>2. CASE j # k
          <5>1. ClientOf[j] \in Clients /\ ClientOf[j] # ClientOf[k]
            BY <4>2, ClientOfType DEF OneCallPerClient
          <5>2. Still(j) /\ outcome'[j] = outcome[j]
            BY <2>t, <2>1, <4>2, StepStill, OthersOutcome
          <5>3. baseline'[ClientOf[j]] = baseline[ClientOf[j]] /\ wrote'[ClientOf[j]] = wrote[ClientOf[j]]
            BY <2>t, <2>1, <5>1, OthersStore
          <5>4. QED
            BY <2>t, <3>1, <5>2, <5>3, StillOwn DEF OwnIInv
        <4>3. QED
          BY <4>1, <4>2
      <3>4. QED
        BY <3>1, <3>2, <3>3 DEF OwnIInv
    <2>2. ASSUME NEW f \in Files, NEW b \in Contents, ExternalEdit(f, b) PROVE OwnIInv'
      <3>1. IInv' /\ TypeOK'
        BY <2>t, <2>2, ExternalIInv DEF IInv
      <3>2. UNCHANGED <<status, baseline, callVars, histVars>>
        BY <2>2 DEF ExternalEdit
      <3>3. Monotone
        BY <2>t, <2>2 DEF ExternalEdit, Stamp, Monotone, histVars, Seen, TypeOK
      <3>4. WritesBased'
        BY <3>2 DEF OwnIInv, WritesBased, histVars
      <3>5. ASSUME NEW j \in Calls PROVE OwnSane(j)'
        BY <2>t, <3>1, <3>2, <3>3, StillOwn DEF OwnIInv, Still, callVars, histVars
      <3>6. QED
        BY <3>1, <3>4, <3>5 DEF OwnIInv
    <2>3. CASE UNCHANGED fgVars
      <3>1. IInv'
        BY <2>t, <2>3 DEF fgVars, driveVars, callVars, histVars, IInv, TypeOK, FilesSane,
                    SeenBounded, BaselineSeen, Covered, Seen, CallSane
      <3>2. WritesBased' /\ \A k \in Calls : OwnSane(k)'
        BY <2>3 DEF fgVars, driveVars, callVars, histVars, OwnIInv, WritesBased, OwnSane, Wrote, Base
      <3>3. QED
        BY <3>1, <3>2 DEF OwnIInv
    <2>4. QED
      BY <2>1, <2>2, <2>3 DEF Next
  <1>3. QED
    BY <1>1, <1>2, PTL DEF Spec

\* A call that settles in a step, settles in a step of its own.
LEMMA OutcomeIsOwn ==
  ASSUME OwnIInv, [Next]_fgVars, NEW k \in Calls, pc[k] # "idle", outcome'[k] # "none"
  PROVE  CallStep(k)
  <1>1. outcome[k] = "none" /\ TypeOK
    BY DEF OwnIInv, OwnSane, IInv
  <1>2. CASE \E f \in Files, b \in Contents : ExternalEdit(f, b)
    BY <1>1, <1>2 DEF ExternalEdit, callVars
  <1>3. CASE UNCHANGED fgVars
    BY <1>1, <1>3 DEF fgVars, callVars
  <1>4. ASSUME NEW j \in Calls \ {k}, StartCall(j) \/ CallStep(j) PROVE FALSE
    BY <1>1, <1>4, OthersOutcome
  <1>5. ~StartCall(k)
    BY StartShape DEF Start
  <1>6. QED
    BY <1>2, <1>3, <1>4, <1>5 DEF Next

\* With one call per client at a time, however often it wrote, read or removed the file
\* before and whatever other clients and applications do: a write is never refused because
\* of a version its own client's acknowledged write produced.
THEOREM RefusalNotSelfHolds ==
  ASSUME OneCallPerClient
  PROVE  Spec => RefusalNotSelf
  <1>1. ASSUME OwnIInv, [Next]_fgVars, NEW k \in Calls, pc[k] = "compare",
               outcome'[k] \in {"never-restored", "remote-changed"}
        PROVE  known[k] \notin wrote[ClientOf[k]][file[k]]
    <2>1. CallStep(k)
      BY <1>1, OutcomeIsOwn
    <2>2. outcome[k] = "none" /\ OwnSane(k) /\ TypeOK
      BY <1>1 DEF OwnIInv, OwnSane, IInv
    <2>3. ~CompareFresh(k)
      BY <1>1, <2>2 DEF CompareFresh
    <2>4. ~Abort(k)
      BY <1>1, <2>2 DEF Abort, Settle, Finish, TypeOK
    <2>5. CompareStale(k)
      BY <1>1, <2>1, <2>3, <2>4
         DEF CallStep, Sample, Download, DownloadMissing, Keep, Check, ListFound,
             ListEmpty, Patch, PatchUnanswered, PatchMissing, Create, CreateUnanswered,
             Record, Delete, DeleteMissing, Clear, ProbeMeta, ProbeBase
    <2>6. Base(k) \in Nat /\ known[k] \in Nat /\ Base(k) # known[k]
      BY <2>2, <2>5, ClientOfType DEF CompareStale, Matches, Base, TypeOK
    <2>7. Base(k) <= known[k] /\ \A v \in Wrote(k) : v <= Base(k)
      BY <1>1, <2>2 DEF OwnSane
    <2>8. QED
      BY <2>6, <2>7 DEF Wrote
  <1>2. OwnIInv /\ [Next]_fgVars =>
          [\A k \in Calls :
              /\ pc[k] = "compare"
              /\ outcome'[k] \in {"never-restored", "remote-changed"}
              => known[k] \notin wrote[ClientOf[k]][file[k]]]_fgVars
    BY <1>1
  <1>3. QED
    BY <1>2, OwnInductive, PTL DEF Spec, RefusalNotSelf

\* With one call per client at a time, whichever of its two lookups ends first and whatever
\* others do between them: status() answers "changed" only if a write of this client would
\* be refused now, and "unchanged" only if the client has seen that version or a later one.
THEOREM ProbeHonestHolds ==
  ASSUME OneCallPerClient
  PROVE  Spec => ProbeHonest
  <1>1. ASSUME OwnIInv, [Next]_fgVars, NEW k \in Calls, pc[k] \in {"probeBase", "probeMeta"},
               outcome'[k] \in {"clean", "drift"}
        PROVE  /\ outcome'[k] = "drift" => ~Live(file[k]) \/ Base(k) # version[file[k]]
               /\ outcome'[k] = "clean" =>
                     \E v \in Seen(ClientOf[k], file[k]) : v >= Base(k) /\ Base(k) # 0
    <2>1. CallStep(k)
      BY <1>1, OutcomeIsOwn
    <2>2. /\ OwnSane(k) /\ TypeOK /\ IInv /\ file[k] \in Files /\ ClientOf[k] \in Clients
          /\ known[k] \in Nat /\ Base(k) \in Nat /\ version[file[k]] \in Nat
      BY <1>1, ClientOfType DEF OwnIInv, IInv, TypeOK, Base
    <2>3. ~Abort(k)
      BY <1>1, <2>2 DEF Abort, Settle, Finish, TypeOK
    <2>4. ProbeMeta(k) \/ ProbeBase(k)
      BY <1>1, <2>1, <2>3
         DEF CallStep, Sample, Download, DownloadMissing, Keep, Check, ListFound,
             ListEmpty, CompareFresh, CompareStale, Patch, PatchUnanswered, PatchMissing,
             Create, CreateUnanswered, Record, Delete, DeleteMissing, Clear
    <2>5. Base(k) # 0 => \E v \in Seen(ClientOf[k], file[k]) : Base(k) <= v /\ v \in Nat
      <3>1. Seen(ClientOf[k], file[k]) \subseteq Nat
        BY <2>2 DEF Seen, TypeOK
      <3>2. QED
        BY <2>2, <3>1 DEF IInv, BaselineSeen, Covered, Base
    <2>6. CASE pc[k] = "probeMeta"
      <3>1. outcome'[k] = Verdict(known[k], RemoteVersion(file[k])) /\ known[k] = Base(k)
        BY <2>2, <2>4, <2>6 DEF ProbeMeta, ProbeBase, Settle, Finish, TypeOK, OwnSane
      <3>2. QED
        BY <2>2, <2>5, <3>1 DEF Verdict, RemoteVersion
    <2>7. CASE pc[k] = "probeBase"
      <3>1. outcome'[k] = Verdict(Base(k), known[k])
        BY <2>2, <2>4, <2>7 DEF ProbeMeta, ProbeBase, Settle, Finish, TypeOK
      <3>2. known[k] <= version[file[k]] /\ (known[k] = 0 \/ Base(k) <= known[k])
        BY <2>2, <2>7 DEF OwnSane
      <3>3. QED
        BY <2>2, <2>5, <3>1, <3>2 DEF Verdict
    <2>8. QED
      BY <1>1, <2>6, <2>7
  <1>2. OwnIInv /\ [Next]_fgVars =>
          [\A k \in Calls :
              pc[k] \in {"probeBase", "probeMeta"} =>
                  /\ outcome'[k] = "drift" =>
                        ~Live(file[k]) \/ Base(k) # version[file[k]]
                  /\ outcome'[k] = "clean" =>
                        \E v \in Seen(ClientOf[k], file[k]) : v >= Base(k) /\ Base(k) # 0]_fgVars
    BY <1>1
  <1>3. QED
    BY <1>2, OwnInductive, PTL DEF Spec, ProbeHonest

-----------------------------------------------------------------------------
(* The guard keeps the promise of GuardedFile.  A step of a call moves only  *)
(* its own stage; the rest is a matter of what each stage allows.            *)

\* Beyond IInv: a call makes its first attempt until it uploads.
FirstAttempt(k) == pc[k] \in {"check", "list", "compare"} => tries[k] = 1
PromiseIInv == IInv /\ \A k \in Calls : FirstAttempt(k)

LEMMA StepFirstAttempt ==
  ASSUME TypeOK, NEW k \in Calls, FirstAttempt(k), StartCall(k) \/ CallStep(k)
  PROVE  FirstAttempt(k)'
  <1> USE DEF Goto
  <1>f. \A o : Finish(k, o) \/ Settle(k, o) => pc'[k] = "idle"
    BY DEF Finish, Settle, TypeOK
  <1>1. CASE StartCall(k)
    BY <1>1, StartShape DEF Start, FirstAttempt, TypeOK
  <1>2. CASE Check(k) \/ ListFound(k)
    BY <1>2 DEF Check, ListFound, FirstAttempt, TypeOK
  <1>3. CASE pc'[k] \notin {"check", "list", "compare"}
    BY <1>3 DEF FirstAttempt
  <1>4. CASE RetryOrFail(k) /\ pc[k] \in {"patch", "create"}
    BY <1>3, <1>4, <1>f DEF RetryOrFail, TypeOK
  <1>5. CASE Sample(k) \/ Download(k) \/ ListEmpty(k) \/ CompareFresh(k) \/ Patch(k) \/ Create(k)
    BY <1>3, <1>5
       DEF Sample, Download, ListEmpty, CompareFresh, Patch, Create, TypeOK
  <1>6. CASE Delete(k)
    BY <1>3, <1>6, <1>f DEF Delete, TypeOK
  <1>7. CASE ProbeMeta(k) \/ ProbeBase(k)
    BY <1>3, <1>7, <1>f DEF ProbeMeta, ProbeBase, TypeOK
  <1>8. CASE pc'[k] = "idle"
    BY <1>3, <1>8
  <1>9. QED
    BY <1>1, <1>2, <1>4, <1>5, <1>6, <1>7, <1>8, <1>f
       DEF CallStep, DownloadMissing, Keep, CompareStale, PatchUnanswered,
           PatchMissing, CreateUnanswered, Record, DeleteMissing, Clear, Abort

LEMMA StepPromiseIInv ==
  ASSUME PromiseIInv, NEW k \in Calls, StartCall(k) \/ CallStep(k)
  PROVE  PromiseIInv'
  <1>1. IInv' /\ FirstAttempt(k)'
    BY StepIInv, StepFirstAttempt DEF PromiseIInv, IInv
  <1>2. ASSUME NEW j \in Calls \ {k} PROVE FirstAttempt(j)'
    BY <1>2, StepStill, OthersTries DEF PromiseIInv, IInv, Still, FirstAttempt
  <1>3. QED
    BY <1>1, <1>2 DEF PromiseIInv

\* The other calls keep what GuardedFile knows of them.
LEMMA OwnMoves ==
  ASSUME TypeOK, TypeOK', NEW k \in Calls,
         \A j \in Calls \ {k} : Still(j) /\ tries'[j] = tries[j]
  PROVE  Guarded!Moves(k) /\ Guarded!To(k, Stage(k)')
  <1>1. \A j \in Calls \ {k} : Stage(j)' = Stage(j)
    BY DEF Still, Stage
  <1>2. [j \in Calls |-> Stage(j)]' = [[j \in Calls |-> Stage(j)] EXCEPT ![k] = Stage(k)']
    BY <1>1
  <1>3. /\ file' = [file EXCEPT ![k] = file'[k]]
        /\ known' = [known EXCEPT ![k] = known'[k]]
        /\ tries' = [tries EXCEPT ![k] = tries'[k]]
        /\ file'[k] \in Files /\ known'[k] \in Nat
    BY DEF TypeOK, Still
  <1>4. QED
    BY <1>2, <1>3 DEF Guarded!Moves, Guarded!To

GivenSame == [c \in Clients |-> [f \in Files |-> Seen(c, f)]]'
               = [c \in Clients |-> [f \in Files |-> Seen(c, f)]]

LEMMA HistoryGiven == UNCHANGED histVars => GivenSame
  BY DEF histVars, Seen, GivenSame

\* A step that changes no file and gives the client nothing: it works, is admitted or
\* gives up.
LEMMA QuietPromise ==
  ASSUME PromiseIInv, TypeOK', NEW k \in Calls, StartCall(k) \/ CallStep(k),
         UNCHANGED <<status, version>>, UNCHANGED histVars
  PROVE  Guarded!Work(k) \/ Guarded!Admit(k) \/ Guarded!GiveUp(k)
  <1>0. TypeOK /\ GivenSame
    BY HistoryGiven DEF PromiseIInv, IInv
  <1>1. Guarded!To(k, Stage(k)')
    BY <1>0, OwnMoves, StepStill, OthersTries
  <1>2. Stage(k) = "admitted" \/ Stage(k) = "stored" \/ Stage(k) \in {"idle", "working"}
    BY DEF Stage
  <1>3. CASE CompareFresh(k)
    <2>1. /\ Stage(k) = "working" /\ Stage(k)' = "admitted"
          /\ UNCHANGED <<file, known, tries>> /\ tries[k] = 1
          /\ Covered(ClientOf[k], file[k], known[k])
      <3>1. CallSane(k)' /\ known[k] # 0 /\ FirstAttempt(k)
        BY <1>3, StepIInv DEF PromiseIInv, IInv, CompareFresh, CallSane
      <3>2. pc[k] = "compare" /\ pc'[k] = "patch" /\ UNCHANGED <<file, known, tries, histVars>>
        BY <1>0, <1>3 DEF CompareFresh, Goto, TypeOK
      <3>3. QED
        BY <3>1, <3>2 DEF Stage, FirstAttempt, CallSane, Covered, Seen, histVars
    <2>2. ClientOf[k] \in Clients /\ file[k] \in Files
      BY <1>0, ClientOfType DEF TypeOK
    <2>3. QED
      BY <1>0, <1>1, <2>1, <2>2 DEF Guarded!Admit, GivenSame, Covered
  <1>4. CASE ~CompareFresh(k)
    <2>1. ~Patch(k) /\ ~PatchUnanswered(k) /\ ~Create(k) /\ ~CreateUnanswered(k)
      BY <1>0 DEF Patch, PatchUnanswered, Create, CreateUnanswered, Mint, Stamp, TypeOK
    <2>2. pc'[k] = "idle" \/ (pc[k] \notin {"patch", "record"} /\ Stage(k)' = "working")
      <3>1. CASE pc'[k] = "idle"
        BY <3>1
      <3>2. CASE StartCall(k)
        <4>1. pc[k] = "idle" /\ pc'[k] \in {"sample", "check", "list", "delete", "probe"}
          BY <1>0, <3>2, StartShape DEF Start, Goto, TypeOK
        <4>2. QED
          BY <4>1 DEF Stage
      <3>3. CASE Check(k)
        BY <1>0, <3>3 DEF Check, RemoteVersion, Goto, Stage, TypeOK
      <3>4. CASE Sample(k) \/ Download(k) \/ ListFound(k) \/ ListEmpty(k)
        BY <1>0, <3>4 DEF Sample, Download, ListFound, ListEmpty, Goto, Stage, TypeOK
      <3>5. CASE Delete(k) \/ ProbeMeta(k) \/ ProbeBase(k)
        BY <1>0, <3>5
           DEF Delete, ProbeMeta, ProbeBase, Settle, Finish, Goto, Stage, TypeOK
      <3>6. QED
        BY <1>0, <1>4, <2>1, <3>1, <3>2, <3>3, <3>4, <3>5
           DEF CallStep, DownloadMissing, Keep, CompareStale, PatchMissing, Record,
               DeleteMissing, Clear, Abort, Settle, Finish, Goto, TypeOK
    <2>3. CASE Stage(k) \in {"idle", "working"}
      <3>1. Stage(k)' \in {"idle", "working"}
        BY <2>2 DEF Stage
      <3>2. QED
        BY <1>0, <1>1, <2>3, <3>1 DEF Guarded!Work, Guarded!Unadmitted, GivenSame
    <2>4. CASE Stage(k) \in {"admitted", "stored"}
      <3>1. Stage(k)' = "idle"
        BY <2>2, <2>4 DEF Stage
      <3>2. QED
        BY <1>0, <1>1, <2>4, <3>1 DEF Guarded!GiveUp, Guarded!Unadmitted, GivenSame
    <2>5. QED
      BY <1>2, <2>3, <2>4
  <1>5. QED
    BY <1>3, <1>4

\* The steps that give the client a version: the end of a read and of an upload.
LEMMA GivePromise ==
  ASSUME PromiseIInv, TypeOK', NEW k \in Calls, Keep(k) \/ Record(k)
  PROVE  Guarded!Restore(k) \/ Guarded!Acknowledge(k)
  <1>0. TypeOK /\ ClientOf[k] \in Clients /\ file[k] \in Files
    BY ClientOfType DEF PromiseIInv, IInv, TypeOK
  <1>1. Guarded!To(k, Stage(k)')
    BY <1>0, OwnMoves, StepStill, OthersTries DEF CallStep
  <1>2. pc'[k] = "idle" /\ Stage(k)' = "idle" /\ UNCHANGED <<status, version>>
    BY <1>0 DEF Keep, Record, Settle, Finish, Goto, Stage, driveVars, TypeOK
  <1>3. ASSUME NEW v, \A c \in Clients, f \in Files :
                         Seen(c, f)' = IF c = ClientOf[k] /\ f = file[k]
                                       THEN Seen(c, f) \cup {v} ELSE Seen(c, f)
        PROVE  Guarded!Give(k, file[k], v)
    BY <1>0, <1>3 DEF Guarded!Give
  <1>4. CASE Keep(k)
    <2>1. got[k] \in 0..version[file[k]] /\ Stage(k) = "working"
      BY <1>0, <1>4 DEF Keep, PromiseIInv, IInv, CallSane, Stage, TypeOK
    <2>2. \A c \in Clients, f \in Files :
             Seen(c, f)' = IF c = ClientOf[k] /\ f = file[k]
                           THEN Seen(c, f) \cup {got[k]} ELSE Seen(c, f)
      BY <1>0, <1>4 DEF Keep, Seen, TypeOK
    <2>3. Guarded!Give(k, file[k], got[k])
      BY <1>3, <2>2
    <2>4. QED
      BY <1>1, <1>2, <2>1, <2>3 DEF Guarded!Restore
  <1>5. CASE Record(k)
    <2>1. Stage(k) = "stored"
      BY <1>5 DEF Record, Stage
    <2>2. \A c \in Clients, f \in Files :
             Seen(c, f)' = IF c = ClientOf[k] /\ f = file[k]
                           THEN Seen(c, f) \cup {known[k]} ELSE Seen(c, f)
      BY <1>0, <1>5 DEF Record, Seen, TypeOK
    <2>3. Guarded!Give(k, file[k], known[k])
      BY <1>3, <2>2
    <2>4. QED
      BY <1>1, <1>2, <2>1, <2>3 DEF Guarded!Acknowledge
  <1>6. QED
    BY <1>4, <1>5

\* An upload is answered, sent again or fails: what the stages of the call do.
LEMMA AnswerStages ==
  ASSUME TypeOK, TypeOK', NEW k \in Calls, RetryOrFail(k),
         \A j \in Calls \ {k} : Still(j) /\ tries'[j] = tries[j]
  PROVE  Guarded!Resends(k) \/ Guarded!To(k, "idle")
  <1>1. CASE Settle(k, "failed")
    <2>1. Stage(k)' = "idle"
      BY <1>1 DEF Settle, Finish, Goto, Stage, TypeOK
    <2>2. QED
      BY <2>1, OwnMoves
  <1>2. CASE ~Settle(k, "failed")
    <2>1. /\ tries[k] < MaxTries /\ tries' = [tries EXCEPT ![k] = @ + 1]
          /\ UNCHANGED <<pc, file, known>>
      BY <1>2 DEF RetryOrFail, MayRetry
    <2>2. QED
      BY <2>1 DEF Guarded!Resends, Stage
  <1>3. QED
    BY <1>1, <1>2

\* An upload to a file that is there, by an admitted call.
LEMMA UploadPromise ==
  ASSUME PromiseIInv, TypeOK', NEW k \in Calls, Patch(k) \/ PatchUnanswered(k)
  PROVE  Guarded!Upload(k)
  <1>0. TypeOK /\ GivenSame /\ file[k] \in Files /\ version[file[k]] \in Nat
    BY HistoryGiven DEF PromiseIInv, IInv, Patch, PatchUnanswered, TypeOK
  <1>1. Guarded!To(k, Stage(k)')
    BY <1>0, OwnMoves, StepStill, OthersTries DEF CallStep
  <1>2. /\ version' = [version EXCEPT ![file[k]] = @ + 1]
        /\ UNCHANGED status /\ status[file[k]] = "live" /\ pc[k] = "patch"
    BY DEF Patch, PatchUnanswered, Stamp, Live
  <1>3. Stage(k) = "admitted"
    BY <1>2 DEF PromiseIInv, IInv, CallSane, Stage
  <1>4. CASE Patch(k)
    <2>1. /\ pc'[k] = "record" /\ file'[k] = file[k]
          /\ known'[k] = version[file[k]] + 1 /\ Stage(k)' = "stored"
      BY <1>0, <1>2, <1>4 DEF Patch, Goto, Stage, TypeOK
    <2>2. Guarded!Stores(k, file[k], version[file[k]] + 1)
      BY <1>0, <1>1, <1>2, <2>1 DEF Guarded!Stores, TypeOK
    <2>3. QED
      BY <1>0, <1>2, <1>3, <2>2 DEF Guarded!Upload, GivenSame
  <1>5. CASE PatchUnanswered(k)
    <2>1. Guarded!Resends(k) \/ Guarded!To(k, "idle")
      BY <1>0, <1>5, AnswerStages, StepStill, OthersTries DEF PatchUnanswered, CallStep
    <2>2. QED
      BY <1>0, <1>2, <1>3, <2>1 DEF Guarded!Upload, Guarded!Stores, GivenSame, TypeOK
  <1>6. QED
    BY <1>4, <1>5

\* A file is created under a fresh id.
LEMMA CreatePromise ==
  ASSUME PromiseIInv, TypeOK', NEW k \in Calls, Create(k) \/ CreateUnanswered(k)
  PROVE  Guarded!Create(k)
  <1>0. TypeOK /\ GivenSame
    BY HistoryGiven DEF PromiseIInv, IInv, Create, CreateUnanswered
  <1>1. Guarded!To(k, Stage(k)')
    BY <1>0, OwnMoves, StepStill, OthersTries DEF CallStep
  <1>2. Stage(k) = "working"
    BY DEF Create, CreateUnanswered, Stage
  <1>3. \A f \in Files : Mint(f, name[k], body[k]) =>
           /\ status[f] = "absent" /\ status' = [status EXCEPT ![f] = "live"]
           /\ version' = [version EXCEPT ![f] = version[f] + 1]
    BY DEF Mint, Stamp
  <1>4. CASE Create(k)
    <2>1. PICK f \in Files : /\ Mint(f, name[k], body[k])
                             /\ file' = [file EXCEPT ![k] = f]
                             /\ known' = [known EXCEPT ![k] = version'[f]]
      BY <1>4 DEF Create
    <2>2. file'[k] = f /\ known'[k] = version[f] + 1 /\ Stage(k)' = "stored"
      BY <1>0, <1>3, <1>4, <2>1 DEF Create, Goto, Stage, TypeOK
    <2>3. Guarded!Stores(k, f, version[f] + 1)
      BY <1>1, <1>3, <2>1, <2>2 DEF Guarded!Stores
    <2>4. QED
      BY <1>0, <1>2, <1>3, <2>1, <2>3 DEF Guarded!Create, GivenSame
  <1>5. CASE CreateUnanswered(k)
    <2>1. PICK f \in Files : Mint(f, name[k], body[k])
      BY <1>5 DEF CreateUnanswered
    <2>2. Guarded!Resends(k) \/ Guarded!To(k, "idle")
      BY <1>0, <1>5, AnswerStages, StepStill, OthersTries DEF CreateUnanswered, CallStep
    <2>3. QED
      BY <1>0, <1>2, <1>3, <2>1, <2>2 DEF Guarded!Create, Guarded!Stores, GivenSame
  <1>6. QED
    BY <1>4, <1>5

LEMMA DeletePromise ==
  ASSUME PromiseIInv, TypeOK', NEW k \in Calls, Delete(k)
  PROVE  Guarded!Delete(k)
  <1>0. TypeOK /\ GivenSame
    BY HistoryGiven DEF PromiseIInv, IInv, Delete
  <1>1. Guarded!To(k, Stage(k)')
    BY <1>0, OwnMoves, StepStill, OthersTries DEF CallStep
  <1>2. Stage(k) = "working" /\ Stage(k)' \in {"idle", "working"}
    BY <1>0 DEF Delete, Settle, Finish, Goto, Stage, TypeOK
  <1>3. QED
    BY <1>0, <1>1, <1>2 DEF Delete, Live, Guarded!Delete, Guarded!Unadmitted, GivenSame

\* Every step of a call is one that GuardedFile allows.
LEMMA StepPromise ==
  ASSUME PromiseIInv, NEW k \in Calls, StartCall(k) \/ CallStep(k)
  PROVE  Guarded!GFNext
  <1>1. TypeOK'
    BY StepIInv DEF PromiseIInv, IInv
  <1>2. Guarded!Moves(k)
    BY <1>1, OwnMoves, StepStill, OthersTries DEF PromiseIInv, IInv
  <1>3. Guarded!CallStep(k)
    <2>1. CASE Keep(k) \/ Record(k)
      BY <1>1, <2>1, GivePromise DEF Guarded!CallStep
    <2>2. CASE Patch(k) \/ PatchUnanswered(k)
      BY <1>1, <2>2, UploadPromise DEF Guarded!CallStep
    <2>3. CASE Create(k) \/ CreateUnanswered(k)
      BY <1>1, <2>3, CreatePromise DEF Guarded!CallStep
    <2>4. CASE Delete(k)
      BY <1>1, <2>4, DeletePromise DEF Guarded!CallStep
    <2>5. CASE UNCHANGED <<status, version>> /\ UNCHANGED histVars
      BY <1>1, <2>5, QuietPromise DEF Guarded!CallStep
    <2>6. QED
      BY <2>1, <2>2, <2>3, <2>4, <2>5, StepKinds, StartQuiet DEF Quiet, Clear, driveVars
  <1>4. QED
    BY <1>2, <1>3 DEF Guarded!GFNext

\* Others change or remove a file without moving a call.
LEMMA ElsewherePromise ==
  ASSUME TypeOK, NEW f \in Files, Live(f), UNCHANGED callVars, UNCHANGED histVars,
         \/ version' = [version EXCEPT ![f] = @ + 1] /\ UNCHANGED status
         \/ status' = [status EXCEPT ![f] = "removed"] /\ UNCHANGED version
  PROVE  Guarded!GFNext
  <1>1. UNCHANGED <<pc, file, known, tries>> /\ GivenSame
    BY HistoryGiven DEF callVars
  <1>2. Guarded!Elsewhere(f)
    BY <1>1 DEF Live, Guarded!Elsewhere, Stage, GivenSame
  <1>3. QED
    BY <1>2 DEF Guarded!GFNext

LEMMA InitPromise == Init => PromiseIInv /\ Guarded!GFInit
  <1>1. Init => TypeOK
    BY InitTypeOK
  <1>2. Init => PromiseIInv
    BY <1>1 DEF Init, IInv, FilesSane, SeenBounded, Seen, BaselineSeen, CallSane,
                PromiseIInv, FirstAttempt
  <1>3. Init => Guarded!GFInit
    BY <1>1 DEF Init, TypeOK, Seen, Stage, Guarded!GFInit
  <1>4. QED
    BY <1>2, <1>3

\* The baselines, guards, retries and probes of files.ts keep the promise of GuardedFile.
THEOREM KeepsPromiseHolds == Spec => KeepsPromise
  <1>1. PromiseIInv /\ [Next]_fgVars => PromiseIInv' /\ [Guarded!GFNext]_Guarded!gfVars
    <2> SUFFICES ASSUME PromiseIInv, [Next]_fgVars
                 PROVE  PromiseIInv' /\ [Guarded!GFNext]_Guarded!gfVars
      OBVIOUS
    <2>1. CASE \E k \in Calls : StartCall(k) \/ CallStep(k)
      BY <2>1, StepPromiseIInv, StepPromise
    <2>2. CASE \E f \in Files, b \in Contents : ExternalEdit(f, b)
      <3>1. PICK f \in Files, b \in Contents : ExternalEdit(f, b)
        BY <2>2
      <3>2. Guarded!GFNext
        BY <3>1, ElsewherePromise DEF ExternalEdit, Stamp, PromiseIInv, IInv
      <3>3. \A k \in Calls : FirstAttempt(k)'
        BY <3>1 DEF ExternalEdit, callVars, PromiseIInv, FirstAttempt
      <3>4. QED
        BY <3>1, <3>2, <3>3, ExternalIInv DEF PromiseIInv
    <2>3. CASE UNCHANGED fgVars
      <3>1. IInv'
        BY <2>3 DEF fgVars, driveVars, callVars, histVars, PromiseIInv, IInv, TypeOK, FilesSane,
                  SeenBounded, BaselineSeen, Covered, Seen, CallSane
      <3>2. \A k \in Calls : FirstAttempt(k)'
        BY <2>3 DEF fgVars, callVars, PromiseIInv, FirstAttempt
      <3>3. UNCHANGED Guarded!gfVars
        BY <2>3, HistoryGiven DEF fgVars, driveVars, callVars, Guarded!gfVars, GivenSame, Stage
      <3>4. QED
        BY <3>1, <3>2, <3>3 DEF PromiseIInv
    <2>4. QED
      BY <2>1, <2>2, <2>3 DEF Next
  <1>2. QED
    BY <1>1, InitPromise, PTL DEF Spec, KeepsPromise, Guarded!GFSpec

-----------------------------------------------------------------------------
(* What the promise of GuardedFile is worth by itself: nobody's edit is      *)
(* overwritten unseen, whatever else about the calls is forgotten.            *)

GuardedIInv ==
  /\ version \in [Files -> Nat] /\ file \in [Calls -> Files] /\ known \in [Calls -> Nat]
  /\ \A c \in Clients, f \in Files : Seen(c, f) \subseteq 0..version[f]
  /\ \A k \in Calls :
       /\ Stage(k) = "stored" => known[k] <= version[file[k]]
       /\ Stage(k) = "admitted" => Covered(ClientOf[k], file[k], known[k])

\* The call moves to the stage s and the others stay.
Moved(k, s) ==
  /\ Stage(k)' = s
  /\ \A j \in Calls \ {k} :
       Stage(j)' = Stage(j) /\ file'[j] = file[j] /\ known'[j] = known[j]

LEMMA MovesFacts ==
  ASSUME GuardedIInv, NEW k \in Calls, NEW s, Guarded!Moves(k), Guarded!To(k, s)
  PROVE  /\ Moved(k, s)
         /\ file' \in [Calls -> Files] /\ known' \in [Calls -> Nat]
  <1>1. /\ [j \in Calls |-> Stage(j)']
             = [[j \in Calls |-> Stage(j)] EXCEPT ![k] = [j \in Calls |-> Stage(j)'][k]]
        /\ [j \in Calls |-> Stage(j)'][k] = s
        /\ file' = [file EXCEPT ![k] = file'[k]] /\ file'[k] \in Files
        /\ known' = [known EXCEPT ![k] = known'[k]] /\ known'[k] \in Nat
    BY DEF Guarded!Moves, Guarded!To
  <1>2. \A j \in Calls : Stage(j)' = IF j = k THEN s ELSE Stage(j)
    BY <1>1
  <1>3. QED
    BY <1>1, <1>2 DEF Moved, GuardedIInv

SeenKept == \A c \in Clients, f \in Files : Seen(c, f)' = Seen(c, f)

LEMMA GivenKept ==
  ASSUME [c \in Clients |-> [f \in Files |-> Seen(c, f)']]
           = [c \in Clients |-> [f \in Files |-> Seen(c, f)]]
  PROVE  SeenKept
  <1> DEFINE g == [c \in Clients |-> [f \in Files |-> Seen(c, f)]]
  <1>1. ASSUME NEW c \in Clients, NEW f \in Files
        PROVE  Seen(c, f)' = Seen(c, f)
    <2>1. [d \in Clients |-> [e \in Files |-> Seen(d, e)']][c][f] = g[c][f]
      OBVIOUS
    <2>2. QED
      BY <2>1
  <1>2. QED
    BY <1>1 DEF SeenKept

\* A call that moves while the files and what clients were given stay, or versions grow.
LEMMA MovedKeeps ==
  ASSUME GuardedIInv, NEW k \in Calls, NEW s \in {"idle", "working", "stored"}, Moved(k, s),
         file' \in [Calls -> Files] /\ known' \in [Calls -> Nat],
         version' \in [Files -> Nat], \A f \in Files : version[f] <= version'[f],
         \A c \in Clients, f \in Files : Seen(c, f) \subseteq Seen(c, f)',
         \A c \in Clients, f \in Files : Seen(c, f)' \subseteq 0..version'[f],
         s = "stored" => known'[k] <= version'[file'[k]]
  PROVE  GuardedIInv'
  <1>1. ASSUME NEW j \in Calls \ {k}
        PROVE  /\ Stage(j)' = "stored" => known'[j] <= version'[file'[j]]
               /\ Stage(j)' = "admitted" => Covered(ClientOf[j], file[j], known[j])'
    <2>1. /\ Stage(j)' = Stage(j) /\ file'[j] = file[j] /\ known'[j] = known[j]
          /\ file[j] \in Files /\ ClientOf[j] \in Clients /\ known[j] \in Nat
          /\ version[file[j]] \in Nat /\ version'[file[j]] \in Nat
          /\ version[file[j]] <= version'[file[j]]
      BY ClientOfType DEF Moved, GuardedIInv
    <2>2. Covered(ClientOf[j], file[j], known[j]) => Covered(ClientOf[j], file[j], known[j])'
      BY <2>1 DEF Covered
    <2>3. QED
      BY <2>1, <2>2 DEF GuardedIInv
  <1>2. /\ Stage(k)' = "stored" => known'[k] <= version'[file'[k]]
        /\ Stage(k)' # "admitted"
    BY DEF Moved
  <1>3. QED
    BY <1>1, <1>2 DEF GuardedIInv

\* No call advances, and versions stay or grow.
LEMMA GuardedStays ==
  ASSUME GuardedIInv, SeenKept, UNCHANGED <<file, known>>,
         \A j \in Calls : Stage(j)' = Stage(j),
         version' \in [Files -> Nat], \A e \in Files : version[e] <= version'[e]
  PROVE  GuardedIInv'
  <1>1. \A c \in Clients, e \in Files :
           Seen(c, e) = Seen(c, e)' /\ Seen(c, e)' \subseteq 0..version'[e]
    BY DEF SeenKept, GuardedIInv
  <1>2. ASSUME NEW j \in Calls
        PROVE  /\ Stage(j)' = "stored" => known'[j] <= version'[file'[j]]
               /\ Stage(j)' = "admitted" => Covered(ClientOf[j], file[j], known[j])'
    <2>1. file[j] \in Files /\ ClientOf[j] \in Clients /\ known[j] \in Nat
          /\ version[file[j]] \in Nat /\ version'[file[j]] \in Nat
          /\ version[file[j]] <= version'[file[j]]
      BY ClientOfType DEF GuardedIInv
    <2>2. QED
      BY <1>1, <2>1 DEF GuardedIInv, Covered
  <1>3. QED
    BY <1>1, <1>2 DEF GuardedIInv

LEMMA GuardedStep ==
  ASSUME GuardedIInv, NEW k \in Calls, Guarded!Moves(k), Guarded!CallStep(k)
  PROVE  GuardedIInv'
  <1>0. /\ ClientOf[k] \in Clients /\ file[k] \in Files
        /\ version \in [Files -> Nat] /\ known[k] \in Nat
        /\ \A f \in Files : version[f] <= version[f] /\ version[f] <= version[f] + 1
    BY ClientOfType DEF GuardedIInv
  <1>g. ASSUME UNCHANGED version, SeenKept, NEW s \in {"idle", "working"}, Guarded!To(k, s)
        PROVE  GuardedIInv'
    BY <1>0, <1>g, MovesFacts, MovedKeeps DEF SeenKept, GuardedIInv
  <1>v. ASSUME NEW f \in Files, NEW v \in 0..version[f], Guarded!Give(k, f, v),
               f = file[k], UNCHANGED version, Guarded!To(k, "idle")
        PROVE  GuardedIInv'
    <2>1. ASSUME NEW c \in Clients, NEW e \in Files
          PROVE  Seen(c, e)' = IF c = ClientOf[k] /\ e = f THEN Seen(c, e) \cup {v} ELSE Seen(c, e)
      <3>1. [d \in Clients |-> [h \in Files |-> Seen(d, h)']][c][e] =
              [[d \in Clients |-> [h \in Files |-> Seen(d, h)]]
                 EXCEPT ![ClientOf[k]][f] = @ \cup {v}][c][e]
        BY <1>v DEF Guarded!Give
      <3>2. QED
        BY <1>0, <3>1
    <2>2. \A c \in Clients, e \in Files :
             Seen(c, e) \subseteq Seen(c, e)' /\ Seen(c, e)' \subseteq 0..version'[e]
      BY <1>v, <2>1 DEF GuardedIInv
    <2>3. QED
      BY <1>0, <1>v, <2>2, MovesFacts, MovedKeeps
  <1>s. ASSUME NEW f \in Files, SeenKept, Guarded!Stores(k, f, version[f] + 1)
        PROVE  GuardedIInv'
    <2>1. /\ version' = [version EXCEPT ![f] = version[f] + 1]
          /\ version' \in [Files -> Nat] /\ \A e \in Files : version[e] <= version'[e]
      BY <1>0, <1>s DEF Guarded!Stores
    <2>2. \A c \in Clients, e \in Files :
             Seen(c, e) \subseteq Seen(c, e)' /\ Seen(c, e)' \subseteq 0..version'[e]
      BY <1>0, <1>s, <2>1 DEF SeenKept, GuardedIInv
    <2>3. CASE Guarded!To(k, "stored") /\ file'[k] = f /\ known'[k] = version[f] + 1
      BY <1>0, <2>1, <2>2, <2>3, MovesFacts, MovedKeeps
    <2>4. CASE Guarded!To(k, "idle")
      BY <2>1, <2>2, <2>4, MovesFacts, MovedKeeps
    <2>5. QED
      BY <1>s, <2>3, <2>4 DEF Guarded!Stores
  <1>r. ASSUME NEW f \in Files, SeenKept, Guarded!Resends(k),
               version' = [version EXCEPT ![f] = version[f] + 1]
        PROVE  GuardedIInv'
    <2>1. /\ version' \in [Files -> Nat] /\ \A e \in Files : version[e] <= version'[e]
      BY <1>0, <1>r
    <2>2. /\ UNCHANGED <<file, known>>
          /\ [j \in Calls |-> Stage(j)'] = [j \in Calls |-> Stage(j)]
      BY <1>r DEF Guarded!Resends
    <2>3. \A j \in Calls : Stage(j)' = Stage(j)
      BY <2>2
    <2>4. QED
      BY <1>r, <2>1, <2>2, <2>3, GuardedStays
  <1>1. CASE Guarded!Work(k) \/ Guarded!Delete(k) \/ Guarded!GiveUp(k)
    <2>1. SeenKept /\ UNCHANGED version
      BY <1>1, GivenKept DEF Guarded!Work, Guarded!Delete, Guarded!GiveUp
    <2>2. \E s \in {"idle", "working"} : Guarded!To(k, s)
      BY <1>1 DEF Guarded!Work, Guarded!Delete, Guarded!GiveUp, Guarded!Unadmitted
    <2>3. QED
      BY <1>g, <2>1, <2>2
  <1>2. CASE Guarded!Restore(k)
    BY <1>0, <1>2, <1>v DEF Guarded!Restore
  <1>3. CASE Guarded!Admit(k)
    <2>1. /\ UNCHANGED <<version, file, known>> /\ SeenKept
          /\ Covered(ClientOf[k], file[k], known[k])
      <3>1. /\ UNCHANGED <<version, file, known>>
            /\ \E v \in [c \in Clients |-> [f \in Files |-> Seen(c, f)]][ClientOf[k]][file[k]] :
                  known[k] <= v
        BY <1>3 DEF Guarded!Admit
      <3>2. SeenKept
        BY <1>3, GivenKept DEF Guarded!Admit
      <3>3. QED
        BY <1>0, <3>1, <3>2 DEF Covered
    <2>2. \A j \in Calls : Stage(j)' = IF j = k THEN "admitted" ELSE Stage(j)
      BY <1>3, MovesFacts DEF Guarded!Admit, Moved
    <2>3. \A j \in Calls : Covered(ClientOf[j], file[j], known[j])
                             => Covered(ClientOf[j], file[j], known[j])'
      BY <2>1, ClientOfType DEF SeenKept, Covered, GuardedIInv
    <2>4. QED
      BY <1>0, <2>1, <2>2, <2>3 DEF SeenKept, GuardedIInv
  <1>4. CASE Guarded!Upload(k)
    <2>1. SeenKept
      BY <1>4, GivenKept DEF Guarded!Upload
    <2>2. QED
      BY <1>0, <1>4, <1>s, <1>r, <2>1 DEF Guarded!Upload
  <1>5. CASE Guarded!Create(k)
    <2>1. SeenKept
      BY <1>5, GivenKept DEF Guarded!Create
    <2>2. QED
      BY <1>0, <1>5, <1>s, <1>r, <2>1 DEF Guarded!Create
  <1>6. CASE Guarded!Acknowledge(k)
    <2>1. Stage(k) = "stored"
      BY <1>6 DEF Guarded!Acknowledge
    <2>2. known[k] \in 0..version[file[k]]
      BY <1>0, <2>1 DEF GuardedIInv
    <2>3. QED
      BY <1>0, <1>6, <1>v, <2>2 DEF Guarded!Acknowledge
  <1>7. QED
    BY <1>1, <1>2, <1>3, <1>4, <1>5, <1>6 DEF Guarded!CallStep

LEMMA ElsewhereKeeps ==
  ASSUME GuardedIInv, NEW f \in Files, Guarded!Elsewhere(f)
  PROVE  GuardedIInv'
  <1>1. /\ UNCHANGED <<file, known>> /\ SeenKept
        /\ [j \in Calls |-> Stage(j)'] = [j \in Calls |-> Stage(j)]
    BY GivenKept DEF Guarded!Elsewhere
  <1>2. \A j \in Calls : Stage(j)' = Stage(j)
    BY <1>1
  <1>3. /\ version' \in [Files -> Nat] /\ \A e \in Files : version[e] <= version'[e]
    <2>1. CASE version' = [version EXCEPT ![f] = @ + 1]
      BY <2>1 DEF GuardedIInv
    <2>2. CASE UNCHANGED version
      BY <2>2 DEF GuardedIInv
    <2>3. QED
      BY <2>1, <2>2 DEF Guarded!Elsewhere
  <1>4. QED
    BY <1>1, <1>2, <1>3, GuardedStays

LEMMA StutterKeeps ==
  ASSUME GuardedIInv, UNCHANGED Guarded!gfVars
  PROVE  GuardedIInv'
  <1>1. /\ UNCHANGED <<version, file, known>> /\ SeenKept
        /\ [j \in Calls |-> Stage(j)'] = [j \in Calls |-> Stage(j)]
    BY GivenKept DEF Guarded!gfVars
  <1>2. \A j \in Calls : Stage(j)' = Stage(j)
    BY <1>1
  <1>3. /\ version' \in [Files -> Nat] /\ \A e \in Files : version[e] <= version'[e]
    BY <1>1 DEF GuardedIInv
  <1>4. QED
    BY <1>1, <1>2, <1>3, GuardedStays

\* Whoever keeps the promise of GuardedFile overwrites nothing unseen: what an upload
\* replaces, its client was given, or it is newer than the version of the admission.
THEOREM PromiseIsEnough == KeepsPromise => Guarded!NoBlindUpload
  <1>1. Guarded!GFInit => GuardedIInv
    <2> SUFFICES ASSUME Guarded!GFInit PROVE GuardedIInv
      OBVIOUS
    <2>1. /\ version = [f \in Files |-> 0] /\ file \in [Calls -> Files]
          /\ known = [k \in Calls |-> 0]
          /\ [k \in Calls |-> Stage(k)] = [k \in Calls |-> "idle"]
          /\ [c \in Clients |-> [f \in Files |-> Seen(c, f)]]
               = [c \in Clients |-> [f \in Files |-> {}]]
      BY DEF Guarded!GFInit
    <2>2. ASSUME NEW k \in Calls PROVE Stage(k) = "idle"
      <3>1. [j \in Calls |-> Stage(j)][k] = [j \in Calls |-> "idle"][k]
        BY <2>1
      <3>2. QED
        BY <3>1
    <2>3. ASSUME NEW c \in Clients, NEW f \in Files PROVE Seen(c, f) = {}
      <3>1. [d \in Clients |-> [e \in Files |-> Seen(d, e)]][c][f]
              = [d \in Clients |-> [e \in Files |-> {}]][c][f]
        BY <2>1
      <3>2. QED
        BY <3>1
    <2>4. QED
      BY <2>1, <2>2, <2>3 DEF GuardedIInv
  <1>2. GuardedIInv /\ [Guarded!GFNext]_Guarded!gfVars => GuardedIInv'
    BY GuardedStep, ElsewhereKeeps, StutterKeeps DEF Guarded!GFNext
  <1>3. GuardedIInv /\ [Guarded!GFNext]_Guarded!gfVars =>
          [Guarded!SeesWhatItReplaces]_Guarded!gfVars
    <2> SUFFICES ASSUME GuardedIInv, Guarded!GFNext, NEW k \in Calls, Guarded!Uploads(k)
                 PROVE  Guarded!Replaceable(k)
      BY DEF Guarded!SeesWhatItReplaces
    <2>1. /\ Stage(k) = "admitted"
          /\ version'[file[k]] # version[file[k]]
          /\ Stage(k)' # "admitted" \/ tries'[k] # tries[k]
      <3>1. /\ [j \in Calls |-> Stage(j)][k] = "admitted"
            /\ version'[file[k]] # version[file[k]]
            /\ [j \in Calls |-> Stage(j)'][k] # "admitted" \/ tries'[k] # tries[k]
        BY DEF Guarded!Uploads
      <3>2. QED
        BY <3>1
    <2>2. /\ file[k] \in Files /\ ClientOf[k] \in Clients /\ known[k] \in Nat
          /\ version[file[k]] \in Nat
          /\ Seen(ClientOf[k], file[k]) \subseteq 0..version[file[k]]
          /\ Covered(ClientOf[k], file[k], known[k])
      BY <2>1, ClientOfType DEF GuardedIInv
    <2>3. \/ version[file[k]] \in Seen(ClientOf[k], file[k])
          \/ version[file[k]] > known[k]
      BY <2>2 DEF Covered
    <2>4. \/ version[file[k]]
               \in [c \in Clients |-> [f \in Files |-> Seen(c, f)]][ClientOf[k]][file[k]]
          \/ version[file[k]] > known[k]
      BY <2>2, <2>3
    <2>5. QED
      BY <2>4 DEF Guarded!Replaceable
  <1>4. QED
    BY <1>1, <1>2, <1>3, PTL DEF KeepsPromise, Guarded!GFSpec, Guarded!NoBlindUpload
=============================================================================
