-------------------------- MODULE DocumentSyncProofs --------------------------
(***************************************************************************)
(* Proofs about DocumentSync and DocumentNames, for any number of devices, *)
(* files, edits and attempts, but for MatchingBaselineIsCurrent, which     *)
(* needs syncs that do not fail.                                           *)
(***************************************************************************)
EXTENDS DocumentNames, FileGuardProofs

-----------------------------------------------------------------------------
(* Types *)

\* What the assumptions say of the constants.
LEMMA DocConstants ==
  /\ Devices = Calls /\ Clients = Calls
  /\ \A d \in Devices : ClientOf[d] = d
  /\ Contents = SUBSET Edits
  /\ AnyFile \in Files /\ AnyName \in Names
  BY DevicesAreClients, ContentsAreEditSets, FilesAndNames DEF Devices, AnyFile, AnyName

DocVarTypes ==
    /\ made \subseteq Edits
    /\ local \in [Devices -> SUBSET Edits]
    /\ dname \in [Devices -> Names]
    /\ cached \in [Devices -> Files \cup {NoFile}]
    /\ at \in [Devices -> {"idle", "resolve", "local", "writing", "reading",
                           "merge", "store"}]
    /\ fileId \in [Devices -> Files \cup {NoFile}]
    /\ held \in [Devices -> SUBSET Edits]
    /\ attempt \in [Devices -> 0..MaxAttempts]
    /\ late \in [Devices -> SUBSET Edits]
    /\ dropped \in [Devices -> SUBSET Edits]

\* The documents start in their types.
LEMMA DocInitType == DocInit => DocTypeOK
  <1> SUFFICES ASSUME DocInit PROVE DocTypeOK
    OBVIOUS
  <1>1. TypeOK
    BY InitTypeOK DEF DocInit
  <1>2. 0 \in 0..MaxAttempts
    BY DEF MaxAttempts
  <1>3. DocVarTypes
    BY <1>2, DocConstants DEF DocInit, DocVarTypes
  <1>4. QED
    BY <1>1, <1>3 DEF DocTypeOK, DocVarTypes

\* What a step of syncDocument() does to the files API: nothing, it drops the answer of a
\* settled call, it starts a call, or the pending call goes on.
LEMMA DocStepKinds ==
  ASSUME DocTypeOK, NEW d \in Devices, DocStep(d)
  PROVE  \/ UNCHANGED fgVars
         \/ Return(d)
         \/ StartCall(d)
         \/ CallStep(d) /\ UNCHANGED docVars
  <1>w. ASSUME NEW f, NEW b \in SUBSET Edits, Write(d, f, b), f # NoFile => f \in Files
        PROVE  StartCall(d)
    <2>1. dname[d] \in Names /\ b \in Contents
      BY DocConstants DEF DocTypeOK
    <2>2. CASE f = NoFile
      BY <1>w, <2>1, <2>2 DEF Write, StartCall
    <2>3. CASE f # NoFile
      BY <1>w, <2>1, <2>3 DEF Write, StartCall
    <2>4. QED
      BY <2>2, <2>3
  <1>t. /\ fileId[d] # NoFile => fileId[d] \in Files
        /\ local[d] \in SUBSET Edits /\ held[d] \in SUBSET Edits
    BY DEF DocTypeOK
  <1>1. CASE \/ StartSync(d) \/ Resolve(d) \/ ReadSucceeds(d) \/ Merge(d) \/ Forget(d)
             \/ \E e \in Edits : LocalEdit(d, e)
             \/ \E n \in Names : Rename(d, n)
    BY <1>1 DEF StartSync, Resolve, ReadSucceeds, Merge, Forget, LocalEdit, Rename
  <1>2. CASE WriteSucceeds(d) \/ WriteFails(d) \/ ReadFails(d) \/ Die(d)
    BY <1>2 DEF WriteSucceeds, WriteFails, ReadFails, Die
  <1>3. CASE ReadLocal(d)
    BY <1>3, <1>w, <1>t DEF ReadLocal
  <1>4. CASE Store(d)
    BY <1>4, <1>w, <1>t DEF Store
  <1>5. CASE Recover(d)
    BY <1>5, <1>t DEF Recover, StartCall
  <1>6. CASE FilesStep(d)
    BY <1>6 DEF FilesStep
  <1>7. QED
    BY <1>1, <1>2, <1>3, <1>4, <1>5, <1>6 DEF DocStep

\* A call that returns keeps the types.
LEMMA ReturnType ==
  ASSUME TypeOK, NEW d \in Devices, Return(d)
  PROVE  TypeOK'
  <1>1. "none" \in Outcomes
    BY DEF Outcomes
  <1>2. QED
    BY <1>1, DocConstants DEF Return, TypeOK, driveVars, histVars

\* A step of a call keeps the types of the files on Drive.
LEMMA DocStepTypeFiles ==
  ASSUME DocTypeOK, [DocNext]_vars
  PROVE  TypeOK'
  <1>0. TypeOK
    BY DEF DocTypeOK
  <1>1. CASE UNCHANGED fgVars
    BY <1>0, <1>1 DEF TypeOK, fgVars, driveVars, callVars, histVars
  <1>2. ASSUME NEW d \in Devices, Return(d) \/ StartCall(d) \/ CallStep(d)
        PROVE  TypeOK'
    BY <1>0, <1>2, ReturnType, StartType, StepType, DocConstants
  <1>3. ASSUME NEW f \in Files, Trash(f)
        PROVE  TypeOK'
    BY <1>0, <1>3 DEF Trash, TypeOK, callVars, histVars
  <1>4. QED
    BY <1>1, <1>2, <1>3, DocStepKinds DEF DocNext, vars

\* The loop variable counts the writes of one sync.
AttemptSane(d) ==
    /\ at[d] \in {"idle", "resolve", "local"} => attempt[d] = 0
    /\ at[d] \in {"reading", "merge", "store"} => attempt[d] < MaxAttempts

\* A step of a call keeps the types of the document on the device.
LEMMA DocStepTypeDoc ==
  ASSUME DocTypeOK, NEW d \in Devices, AttemptSane(d), DocStep(d)
  PROVE  DocVarTypes'
  <1> USE DEF DocVarTypes
  <1>t. /\ TypeOK /\ DocVarTypes
        /\ local[d] \in SUBSET Edits /\ held[d] \in SUBSET Edits
        /\ file[d] \in Files /\ attempt[d] \in 0..MaxAttempts
    BY DocConstants DEF DocTypeOK, TypeOK
  <1>r. Return(d) => /\ at' \in [Devices -> {"idle", "resolve", "local", "writing",
                                              "reading", "merge", "store"}]
                     /\ fileId' \in [Devices -> Files \cup {NoFile}]
                     /\ held' \in [Devices -> SUBSET Edits]
                     /\ attempt' \in [Devices -> 0..MaxAttempts]
                     /\ late' \in [Devices -> SUBSET Edits]
    BY <1>t DEF Return, Move, MaxAttempts
  <1>w. ASSUME NEW f, NEW b \in SUBSET Edits, Write(d, f, b), attempt[d] < MaxAttempts
        PROVE  /\ at' \in [Devices -> {"idle", "resolve", "local", "writing",
                                              "reading", "merge", "store"}]
               /\ held' \in [Devices -> SUBSET Edits]
               /\ attempt' \in [Devices -> 0..MaxAttempts]
    BY <1>t, <1>w DEF Write, Move, MaxAttempts
  <1>1. CASE StartSync(d)
    BY <1>1, <1>t DEF StartSync, Move
  <1>2. CASE Resolve(d)
    BY <1>2, <1>t DEF Resolve, Move, LiveNamed
  <1>4. CASE WriteSucceeds(d)
    BY <1>4, <1>t, <1>r DEF WriteSucceeds
  <1>5. CASE WriteFails(d)
    BY <1>5, <1>t, <1>r DEF WriteFails
  <1>6. CASE Recover(d)
    BY <1>6, <1>t DEF Recover, Move
  <1>7. CASE ReadSucceeds(d)
    BY <1>7, <1>t DEF ReadSucceeds, Move
  <1>8. CASE ReadFails(d)
    BY <1>8, <1>t, <1>r DEF ReadFails
  <1>11. CASE Forget(d)
    BY <1>11, <1>t DEF Forget
  <1>12. CASE \E e \in Edits : LocalEdit(d, e)
    BY <1>12, <1>t DEF LocalEdit
  <1>13. CASE \E n \in Names : Rename(d, n)
    BY <1>13, <1>t DEF Rename
  <1>14. CASE FilesStep(d)
    BY <1>14, <1>t DEF FilesStep, docVars
  <1>3. CASE ReadLocal(d)
    BY <1>3, <1>t, <1>w DEF ReadLocal, AttemptSane, MaxAttempts
  <1>9. CASE Merge(d)
    <2>1. Merged(d) \in SUBSET Edits
      BY <1>t, DocConstants DEF Merged, Downloaded, TypeOK
    <2>2. QED
      BY <1>9, <1>t, <2>1 DEF Merge, Move
  <1>10. CASE Store(d)
    <2>1. /\ at' \in [Devices -> {"idle", "resolve", "local", "writing",
                                   "reading", "merge", "store"}]
          /\ held' \in [Devices -> SUBSET Edits]
          /\ attempt' \in [Devices -> 0..MaxAttempts]
      BY <1>10, <1>t, <1>w DEF Store, AttemptSane
    <2>2. QED
      BY <1>10, <1>t, <2>1 DEF Store
  <1>15. CASE Die(d)
    <2>1. Downloaded(d) \in SUBSET Edits
      BY <1>t, DocConstants DEF Downloaded, TypeOK
    <2>2. dropped' \in [Devices -> SUBSET Edits]
      BY <1>15, <1>t, <2>1 DEF Die
    <2>3. QED
      BY <1>15, <1>t, <1>r, <2>2 DEF Die
  <1>16. QED
    BY <1>1, <1>2, <1>3, <1>4, <1>5, <1>6, <1>7, <1>8, <1>9, <1>10, <1>11, <1>12,
       <1>13, <1>14, <1>15 DEF DocStep

\* No step leaves the types.
LEMMA DocStepType ==
  ASSUME DocTypeOK, \A d \in Devices : AttemptSane(d), [DocNext]_vars
  PROVE  DocTypeOK'
  <1>1. TypeOK'
    BY DocStepTypeFiles
  <1>2. CASE UNCHANGED docVars
    BY <1>1, <1>2 DEF DocTypeOK, docVars
  <1>3. ASSUME NEW d \in Devices, DocStep(d)
        PROVE  DocTypeOK'
    BY <1>1, <1>3, DocStepTypeDoc DEF DocTypeOK, DocVarTypes
  <1>4. QED
    BY <1>2, <1>3 DEF DocNext, Trash, vars

\* A device is moved by its own steps only.
Resting(d) ==
    /\ at'[d] = at[d] /\ local'[d] = local[d] /\ held'[d] = held[d]
    /\ attempt'[d] = attempt[d] /\ late'[d] = late[d] /\ dropped'[d] = dropped[d]
    /\ cached'[d] = cached[d] /\ dname'[d] = dname[d] /\ fileId'[d] = fileId[d]

\* A step of one call leaves the others.
LEMMA OthersRest ==
  ASSUME DocTypeOK, NEW d \in Devices, DocStep(d), NEW e \in Devices \ {d}
  PROVE  Resting(e)
  <1>t. DocVarTypes
    BY DEF DocTypeOK, DocVarTypes
  <1> USE DEF DocVarTypes, Resting, Move
  <1>r. Return(d) => /\ at'[e] = at[e] /\ fileId'[e] = fileId[e] /\ held'[e] = held[e]
                     /\ attempt'[e] = attempt[e] /\ late'[e] = late[e]
    BY <1>t DEF Return
  <1>w. \A f, b : Write(d, f, b) =>
          held'[e] = held[e] /\ attempt'[e] = attempt[e] /\ at'[e] = at[e]
    BY <1>t DEF Write
  <1>1. CASE StartSync(d)
    BY <1>1, <1>t DEF StartSync
  <1>2. CASE Resolve(d)
    BY <1>2, <1>t DEF Resolve
  <1>3. CASE ReadLocal(d)
    BY <1>3, <1>t, <1>w DEF ReadLocal
  <1>4. CASE WriteSucceeds(d)
    BY <1>4, <1>t, <1>r DEF WriteSucceeds
  <1>5. CASE WriteFails(d)
    BY <1>5, <1>t, <1>r DEF WriteFails
  <1>6. CASE Recover(d)
    BY <1>6, <1>t DEF Recover
  <1>7. CASE ReadSucceeds(d)
    BY <1>7, <1>t DEF ReadSucceeds
  <1>8. CASE ReadFails(d)
    BY <1>8, <1>t, <1>r DEF ReadFails
  <1>9. CASE Merge(d)
    BY <1>9, <1>t DEF Merge
  <1>10. CASE Store(d)
    BY <1>10, <1>t, <1>w DEF Store
  <1>11. CASE Forget(d)
    BY <1>11, <1>t DEF Forget
  <1>12. CASE \E x \in Edits : LocalEdit(d, x)
    BY <1>12, <1>t DEF LocalEdit
  <1>13. CASE \E n \in Names : Rename(d, n)
    BY <1>13, <1>t DEF Rename
  <1>14. CASE FilesStep(d)
    BY <1>14, <1>t DEF FilesStep, docVars
  <1>15. CASE Die(d)
    BY <1>15, <1>t, <1>r DEF Die
  <1>16. QED
    BY <1>1, <1>2, <1>3, <1>4, <1>5, <1>6, <1>7, <1>8, <1>9, <1>10, <1>11, <1>12,
       <1>13, <1>14, <1>15 DEF DocStep

\* What a step of the guard does to its attempt.
LEMMA StepAttempt ==
  ASSUME DocTypeOK, NEW d \in Devices, AttemptSane(d), DocStep(d)
  PROVE  AttemptSane(d)'
  <1>t. DocVarTypes
    BY DEF DocTypeOK, DocVarTypes
  <1> USE DEF DocVarTypes, AttemptSane, Move
  <1>r. Return(d) => at'[d] = "idle" /\ attempt'[d] = 0
    BY <1>t DEF Return
  <1>w. \A f, b : Write(d, f, b) => at'[d] = "writing"
    BY <1>t DEF Write
  <1>1. CASE StartSync(d)
    BY <1>1, <1>t DEF StartSync
  <1>2. CASE Resolve(d)
    BY <1>2, <1>t DEF Resolve
  <1>3. CASE ReadLocal(d) \/ Store(d)
    BY <1>3, <1>w DEF ReadLocal, Store
  <1>4. CASE WriteSucceeds(d) \/ WriteFails(d) \/ ReadFails(d) \/ Die(d)
    BY <1>4, <1>r DEF WriteSucceeds, WriteFails, ReadFails, Die
  <1>6. CASE Recover(d)
    BY <1>6, <1>t DEF Recover
  <1>7. CASE ReadSucceeds(d)
    BY <1>7, <1>t DEF ReadSucceeds, Answered
  <1>9. CASE Merge(d)
    BY <1>9, <1>t DEF Merge
  <1>11. CASE Forget(d)
    BY <1>11 DEF Forget
  <1>12. CASE \E x \in Edits : LocalEdit(d, x)
    BY <1>12 DEF LocalEdit
  <1>13. CASE \E n \in Names : Rename(d, n)
    BY <1>13 DEF Rename
  <1>14. CASE FilesStep(d)
    BY <1>14 DEF FilesStep, docVars
  <1>16. QED
    BY <1>1, <1>2, <1>3, <1>4, <1>6, <1>7, <1>9, <1>11, <1>12, <1>13, <1>14 DEF DocStep

\* What a step of the engine does to the attempts.
LEMMA DocStepAttempts ==
  ASSUME DocTypeOK, \A d \in Devices : AttemptSane(d), [DocNext]_vars
  PROVE  \A d \in Devices : AttemptSane(d)'
  <1>1. CASE UNCHANGED docVars
    BY <1>1 DEF docVars, AttemptSane
  <1>2. ASSUME NEW d \in Devices, DocStep(d), NEW e \in Devices
        PROVE  AttemptSane(e)'
    <2>1. CASE e = d
      BY <1>2, <2>1, StepAttempt
    <2>2. CASE e # d
      BY <1>2, <2>2, OthersRest DEF Resting, AttemptSane
    <2>3. QED
      BY <2>1, <2>2
  <1>3. QED
    BY <1>1, <1>2 DEF DocNext, Trash, vars

\* Whatever the devices, users and tabs do, every variable of the document engine and of
\* the files API below it stays in its type; no sync writes more than three times.
THEOREM DocTypeCorrect == DocSpec => []DocTypeOK
  <1> DEFINE Inv == DocTypeOK /\ \A d \in Devices : AttemptSane(d)
  <1>1. DocInit => Inv
    BY DocInitType DEF DocInit, AttemptSane
  <1>2. Inv /\ [DocNext]_vars => Inv'
    BY DocStepType, DocStepAttempts
  <1>3. Inv => DocTypeOK
    OBVIOUS
  <1> HIDE DEF Inv
  <1>4. QED
    BY <1>1, <1>2, <1>3, PTL DEF DocSpec

-----------------------------------------------------------------------------
(* The guard of the files below is kept by everything the engine does: the *)
(* invariant of FileGuardProofs holds of DocSpec as well.                  *)

\* The guard has its inductive invariant when a call returns.
LEMMA ReturnIInv ==
  ASSUME IInv, NEW d \in Devices, Return(d)
  PROVE  IInv'
  <1>1. TypeOK /\ TypeOK' /\ d \in Calls
    BY ReturnType, DocConstants DEF IInv
  <1>2. UNCHANGED <<driveVars, baseline, pc, known, got, histVars>> /\ pc[d] = "idle"
    BY DEF Return
  <1>3. Monotone /\ FilesSane' /\ SeenBounded' /\ BaselineSeen'
    BY <1>1, <1>2 DEF IInv, Monotone, FilesSane, SeenBounded, BaselineSeen, Covered, Seen,
       driveVars, histVars, TypeOK
  <1>4. ASSUME NEW k \in Calls PROVE CallSane(k)'
    <2>1. CASE k = d
      BY <1>2, <2>1 DEF CallSane
    <2>2. CASE k # d
      <3>1. Still(k)
        BY <1>1, <1>2, <2>2 DEF Return, Still, TypeOK
      <3>2. QED
        BY <1>1, <1>3, <3>1, StillSane DEF IInv
    <2>3. QED
      BY <2>1, <2>2
  <1>5. QED
    BY <1>1, <1>3, <1>4 DEF IInv

\* A file that is trashed leaves the invariant of the guard.
LEMMA TrashIInv ==
  ASSUME IInv, NEW f \in Files, Trash(f)
  PROVE  IInv'
  <1>1. TypeOK /\ TypeOK'
    BY DEF IInv, Trash, TypeOK, callVars, histVars
  <1>2. Monotone /\ FilesSane' /\ SeenBounded' /\ BaselineSeen'
    BY <1>1 DEF IInv, Trash, Live, Monotone, FilesSane, SeenBounded, BaselineSeen, Covered,
       Seen, histVars, TypeOK
  <1>3. ASSUME NEW k \in Calls PROVE CallSane(k)'
    <2>1. Still(k)
      BY DEF Trash, callVars, Still
    <2>2. QED
      BY <1>1, <1>2, <2>1, StillSane DEF IInv
  <1>4. QED
    BY <1>1, <1>2, <1>3 DEF IInv

\* So does a step that leaves the variables of the guard.
LEMMA StutterIInv ==
  ASSUME IInv, UNCHANGED fgVars
  PROVE  IInv'
  BY DEF fgVars, driveVars, callVars, histVars, IInv, TypeOK, FilesSane, SeenBounded,
         BaselineSeen, Covered, Seen, CallSane

\* The guard keeps its inductive invariant in every step of the engine.
LEMMA DocStepIInv ==
  ASSUME IInv, DocTypeOK, [DocNext]_vars
  PROVE  IInv'
  <1>1. ASSUME NEW d \in Devices, Return(d) \/ StartCall(d) \/ CallStep(d)
        PROVE  IInv'
    BY <1>1, ReturnIInv, StepIInv, DocConstants
  <1>2. QED
    BY <1>1, TrashIInv, StutterIInv, DocStepKinds DEF DocNext, vars

-----------------------------------------------------------------------------
(* What a step does to Drive, and what it leaves of the other devices      *)

ContentSane == \A f \in Files : version[f] # 0 => content[f] \in SUBSET Edits

\* A content changes only together with its version.
DriveMoves ==
    \A f \in Files : \/ version'[f] > version[f]
                     \/ version'[f] = version[f] /\ content'[f] = content[f]

Uploads(k) ==
    /\ pc[k] \in {"patch", "create"}
    /\ \E f \in Files : /\ version' = [version EXCEPT ![f] = @ + 1]
                        /\ content' = [content EXCEPT ![f] = body[k]]

\* What a step of the guard uploads.
LEMMA StepUploads ==
  ASSUME TypeOK, NEW k \in Calls, StartCall(k) \/ CallStep(k)
  PROVE  UNCHANGED <<version, content>> \/ Uploads(k)
  <1>1. CASE Quiet \/ Keep(k) \/ Record(k) \/ Clear(k) \/ Delete(k)
    BY <1>1 DEF Quiet, Keep, Record, Clear, Delete, driveVars
  <1>2. CASE Patch(k) \/ PatchUnanswered(k)
    BY <1>2 DEF Patch, PatchUnanswered, Stamp, Uploads, TypeOK
  <1>3. CASE Create(k) \/ CreateUnanswered(k)
    BY <1>3 DEF Create, CreateUnanswered, Mint, Stamp, Uploads
  <1>4. QED
    BY <1>1, <1>2, <1>3, StepKinds, StartQuiet

\* An upload of the engine goes on as one of the guard.
LEMMA UploadsMove ==
  ASSUME TypeOK, NEW k \in Calls, Uploads(k)
  PROVE  DriveMoves
  BY DEF Uploads, DriveMoves, TypeOK

\* What the files API keeps for another device.
Undisturbed(e) ==
    /\ Still(e)
    /\ body'[e] = body[e] /\ outcome'[e] = outcome[e] /\ tries'[e] = tries[e]
    /\ name'[e] = name[e]
    /\ baseline'[e] = baseline[e] /\ wrote'[e] = wrote[e]

\* A step of one call leaves the content of the others.
LEMMA StepUndisturbed ==
  ASSUME TypeOK, NEW d \in Devices, StartCall(d) \/ CallStep(d), NEW e \in Devices \ {d}
  PROVE  Undisturbed(e)
  <1>c. d \in Calls /\ e \in Calls \ {d} /\ ClientOf[d] = d /\ e \in Clients
    BY DocConstants
  <1> USE DEF TypeOK
  <1>1. Still(e) /\ tries'[e] = tries[e]
    BY <1>c, StepStill, OthersTries
  <1>2. /\ baseline'[e] = baseline[e]
        /\ wrote'[e] = wrote[e]
    <2>1. CASE UNCHANGED <<baseline, wrote>>
      BY <2>1
    <2>2. CASE Keep(d)
      BY <1>c, <2>2 DEF Keep, RecordBaseline
    <2>3. CASE Record(d)
      BY <1>c, <2>3 DEF Record, RecordWritten, RecordBaseline
    <2>4. CASE Clear(d)
      BY <1>c, <2>4 DEF Clear, RecordBaseline, histVars
    <2>5. QED
      BY <1>c, <2>1, <2>2, <2>3, <2>4, StepKinds, StartQuiet
         DEF Quiet, Delete, Patch, PatchUnanswered, Create, CreateUnanswered, histVars
  <1>3. body'[e] = body[e] /\ outcome'[e] = outcome[e] /\ name'[e] = name[e]
    <2>s. \A o : Settle(d, o) =>
            body'[e] = body[e] /\ outcome'[e] = outcome[e] /\ name'[e] = name[e]
      BY <1>c DEF Settle, Finish
    <2>r. RetryOrFail(d) =>
            body'[e] = body[e] /\ outcome'[e] = outcome[e] /\ name'[e] = name[e]
      BY <2>s DEF RetryOrFail
    <2>1. CASE StartCall(d)
      BY <1>c, <2>1, StartShape DEF Start
    <2>2. CASE Download(d) \/ Keep(d)
      BY <1>c, <2>2 DEF Download, Keep, Finish
    <2>3. QED
      BY <2>1, <2>2, <2>s, <2>r
         DEF CallStep, Sample, DownloadMissing, Check, ListFound,
             ListEmpty, CompareFresh, CompareStale, Patch, PatchUnanswered,
             PatchMissing, Create, CreateUnanswered, Record, Delete, DeleteMissing,
             Clear, ProbeMeta, ProbeBase, Abort
  <1>4. QED
    BY <1>1, <1>2, <1>3 DEF Undisturbed

\* So does its return.
LEMMA ReturnUndisturbed ==
  ASSUME TypeOK, NEW d \in Devices, Return(d), NEW e \in Devices \ {d}
  PROVE  Undisturbed(e)
  BY DocConstants DEF Return, TypeOK, Undisturbed, Still, histVars

\* So does every step of the engine.
LEMMA DocUndisturbed ==
  ASSUME DocTypeOK, NEW d \in Devices, DocStep(d), NEW e \in Devices \ {d}
  PROVE  Undisturbed(e)
  <1>1. TypeOK
    BY DEF DocTypeOK
  <1>2. CASE UNCHANGED fgVars
    BY <1>2 DEF fgVars, callVars, histVars, Undisturbed, Still
  <1>3. QED
    BY <1>1, <1>2, DocStepKinds, StepUndisturbed, ReturnUndisturbed

-----------------------------------------------------------------------------
(* The inductive invariant *)

WritePlaces == {"idle", "check", "list", "compare", "patch", "create", "record"}
ReadPlaces == {"idle", "sample", "download", "keep"}

\* syncDocument() awaits a call only where it has started one.
PlaceSane(d) ==
    /\ at[d] = "writing" => pc[d] \in WritePlaces
    /\ at[d] = "reading" => pc[d] \in ReadPlaces
    /\ at[d] \notin {"writing", "reading"} => pc[d] = "idle"

\* What it sends is what it holds, and that is in the document until a merge.
HeldSane(d) ==
    /\ at[d] = "writing" /\ pc[d] # "idle" => body[d] = held[d]
    /\ at[d] \in {"writing", "reading"} => held[d] \subseteq local[d]
    /\ at[d] = "store" => /\ local[d] \subseteq held[d] \cup late[d]
                          /\ held[d] \subseteq local[d] \cup Downloaded(d)

\* The downloaded content is the device's, and has not been merged yet.
Arrived(d) == at[d] = "merge" \/ (at[d] = "reading" /\ pc[d] = "idle")

\* What the next upload of the device will contain if nothing fails.
Holdings(d) ==
    IF at[d] \in {"writing", "store"} THEN held[d]
    ELSE IF Arrived(d) THEN local[d] \cup Downloaded(d)
    ELSE local[d]

\* A device whose baseline is Drive's version has everything Drive has.
CurrentIsHeld(d) ==
    \A f \in Files : baseline[d][f] # 0 /\ version[f] = baseline[d][f] =>
        content[f] \subseteq Holdings(d) \cup dropped[d]

AnswerSane(d) ==
    /\ pc[d] = "patch" /\ known[d] # 0 /\ version[file[d]] = known[d] =>
          content[file[d]] \subseteq held[d] \cup dropped[d]
    /\ pc[d] = "record" =>
          /\ version[file[d]] # 0
          /\ version[file[d]] = known[d] => content[file[d]] = body[d]
    /\ pc[d] = "keep" =>
          /\ version[file[d]] # 0
          /\ version[file[d]] = got[d] => content[file[d]] = body[d]
    /\ Succeeded(d) =>
          /\ baseline[d][file[d]] \in wrote[d][file[d]]
          /\ version[file[d]] = baseline[d][file[d]] => held[d] \subseteq content[file[d]]
    /\ Answered(d, "reading") /\ outcome[d] # "done" => body[d] = NoContent

Sane(d) == PlaceSane(d) /\ HeldSane(d) /\ CurrentIsHeld(d) /\ AnswerSane(d)

DocIInv ==
    /\ IInv
    /\ DocTypeOK
    /\ ContentSane
    /\ \A d \in Devices : AttemptSane(d)
    /\ \A d \in Devices : Sane(d)

\* The inductive invariant holds at the start.
LEMMA DocInitIInv == DocInit => DocIInv
  <1> SUFFICES ASSUME DocInit PROVE DocIInv
    OBVIOUS
  <1>1. IInv
    BY InitTypeOK DEF DocInit, Init, IInv, FilesSane, SeenBounded, Seen, BaselineSeen, CallSane
  <1>2. DocTypeOK
    BY DocInitType
  <1>3. ContentSane /\ \A d \in Devices : AttemptSane(d)
    BY DEF DocInit, Init, ContentSane, AttemptSane
  <1>4. ASSUME NEW d \in Devices PROVE Sane(d)
    <2>1. at[d] = "idle" /\ pc[d] = "idle" /\ \A f \in Files : baseline[d][f] = 0
      BY DocConstants DEF DocInit, Init
    <2>2. QED
      BY <2>1 DEF Sane, PlaceSane, HeldSane, CurrentIsHeld, AnswerSane, Succeeded, Answered
  <1>5. QED
    BY <1>1, <1>2, <1>3, <1>4 DEF DocIInv

\* The versions a device knows of are ones Drive has reached.
LEMMA KnownVersions ==
  ASSUME IInv, NEW d \in Devices
  PROVE  /\ \A f \in Files : baseline[d][f] \in Nat /\ baseline[d][f] <= version[f]
         /\ file[d] \in Files /\ known[d] \in Nat /\ got[d] \in Nat
         /\ \A f \in Files : version[f] \in Nat
         /\ pc[d] = "patch" /\ known[d] # 0 => known[d] <= version[file[d]]
         /\ pc[d] = "record" => known[d] <= version[file[d]]
         /\ pc[d] = "keep" => known[d] <= got[d] /\ got[d] <= version[file[d]]
  <1>1. TypeOK /\ d \in Calls /\ d \in Clients /\ CallSane(d) /\ ClientOf[d] = d
    BY DocConstants DEF IInv
  <1>2. /\ \A f \in Files : baseline[d][f] \in Nat /\ version[f] \in Nat
        /\ \A f \in Files : Seen(d, f) \subseteq Nat
        /\ file[d] \in Files /\ known[d] \in Nat /\ got[d] \in Nat
    BY <1>1 DEF TypeOK, Seen
  <1>3. \A f \in Files, v \in Nat : Covered(d, f, v) => v <= version[f]
    <2> SUFFICES ASSUME NEW f \in Files, NEW v \in Nat, Covered(d, f, v) PROVE v <= version[f]
      OBVIOUS
    <2>1. PICK w \in Seen(d, f) : v <= w
      BY DEF Covered
    <2>2. w \in Nat /\ w <= version[f]
      BY <1>1, <1>2, <2>1 DEF IInv, SeenBounded
    <2>3. QED
      BY <1>2, <2>1, <2>2
  <1>4. \A f \in Files : baseline[d][f] # 0 => baseline[d][f] <= version[f]
    BY <1>1, <1>2, <1>3 DEF IInv, BaselineSeen
  <1>5. \A f \in Files : baseline[d][f] = 0 => baseline[d][f] <= version[f]
    BY <1>2
  <1>6. pc[d] = "patch" /\ known[d] # 0 => known[d] <= version[file[d]]
    BY <1>1, <1>2, <1>3 DEF CallSane
  <1>7. QED
    BY <1>1, <1>2, <1>4, <1>5, <1>6 DEF CallSane

\* A device is not harmed by what others do meanwhile.
LEMMA RestingSane ==
  ASSUME IInv, DocTypeOK, TypeOK', NEW d \in Devices, Sane(d), Resting(d), Undisturbed(d),
         DriveMoves
  PROVE  Sane(d)'
  <1>k. /\ \A f \in Files : baseline[d][f] \in Nat /\ baseline[d][f] <= version[f]
        /\ file[d] \in Files /\ known[d] \in Nat /\ got[d] \in Nat
        /\ \A f \in Files : version[f] \in Nat
        /\ pc[d] = "patch" /\ known[d] # 0 => known[d] <= version[file[d]]
        /\ pc[d] = "record" => known[d] <= version[file[d]]
        /\ pc[d] = "keep" => known[d] <= got[d] /\ got[d] <= version[file[d]]
    BY KnownVersions
  <1>v. \A f \in Files, v \in Nat :
          v <= version[f] /\ version'[f] = v => version[f] = v /\ content'[f] = content[f]
    <2> SUFFICES ASSUME NEW f \in Files, NEW v \in Nat, v <= version[f], version'[f] = v
                 PROVE  version[f] = v /\ content'[f] = content[f]
      OBVIOUS
    <2>1. version[f] \in Nat /\ ~(version'[f] > version[f])
      BY <1>k
    <2>2. QED
      BY <2>1 DEF DriveMoves
  <1>0. \A f \in Files : version[f] # 0 => version'[f] # 0
    BY <1>k DEF DriveMoves, TypeOK
  <1>s. /\ pc'[d] = pc[d] /\ file'[d] = file[d] /\ known'[d] = known[d] /\ got'[d] = got[d]
        /\ body'[d] = body[d] /\ outcome'[d] = outcome[d]
        /\ baseline'[d] = baseline[d] /\ wrote'[d] = wrote[d]
        /\ at'[d] = at[d] /\ local'[d] = local[d] /\ held'[d] = held[d]
        /\ late'[d] = late[d] /\ dropped'[d] = dropped[d]
    BY DEF Resting, Undisturbed, Still
  <1>1. PlaceSane(d)' /\ HeldSane(d)'
    BY <1>s DEF Sane, PlaceSane, HeldSane, Downloaded
  <1>2. CurrentIsHeld(d)'
    <2>1. Holdings(d)' = Holdings(d)
      BY <1>s DEF Holdings, Arrived, Downloaded
    <2>2. QED
      BY <1>k, <1>v, <1>s, <2>1 DEF Sane, CurrentIsHeld
  <1>3. AnswerSane(d)'
    <2>1. Succeeded(d)' => Succeeded(d)
      BY <1>s DEF Succeeded, Answered
    <2>2. Answered(d, "reading")' => Answered(d, "reading")
      BY <1>s DEF Answered
    <2>3. QED
      BY <1>k, <1>v, <1>0, <1>s, <2>1, <2>2 DEF Sane, AnswerSane
  <1>4. QED
    BY <1>1, <1>2, <1>3 DEF Sane

\* The calls of the engine are reads and writes, and go only through their places.
LEMMA CallKinds ==
  ASSUME DocTypeOK, NEW d \in Devices, PlaceSane(d), CallStep(d)
  PROVE  \/ /\ at[d] = "writing"
            /\ \/ Check(d) \/ ListFound(d) \/ ListEmpty(d) \/ CompareFresh(d) \/ CompareStale(d)
               \/ Patch(d) \/ PatchUnanswered(d) \/ PatchMissing(d)
               \/ Create(d) \/ CreateUnanswered(d) \/ Record(d) \/ Abort(d)
         \/ /\ at[d] = "reading"
            /\ Sample(d) \/ Download(d) \/ DownloadMissing(d) \/ Keep(d) \/ Abort(d)
  <1>1. pc[d] # "idle"
    BY DEF CallStep, Sample, Download, DownloadMissing, Keep, Check, ListFound,
           ListEmpty, CompareFresh, CompareStale, Patch, PatchUnanswered,
           PatchMissing, Create, CreateUnanswered, Record, Delete, DeleteMissing,
           Clear, ProbeMeta, ProbeBase, Abort
  <1>2. CASE at[d] = "writing"
    BY <1>2 DEF PlaceSane, WritePlaces, CallStep, Sample, Download, DownloadMissing, Keep,
           Delete, DeleteMissing, Clear, ProbeMeta, ProbeBase
  <1>3. CASE at[d] = "reading"
    BY <1>3 DEF PlaceSane, ReadPlaces, CallStep, Check, ListFound,
           ListEmpty, CompareFresh, CompareStale, Patch, PatchUnanswered,
           PatchMissing, Create, CreateUnanswered, Record, Delete, DeleteMissing,
           Clear, ProbeMeta, ProbeBase
  <1>4. QED
    BY <1>1, <1>2, <1>3 DEF PlaceSane

\* A call settles: its caller finds the outcome, and a content only if it was read.
LEMMA Settled ==
  ASSUME TypeOK, NEW d \in Devices, NEW o, Settle(d, o)
  PROVE  pc'[d] = "idle" /\ outcome'[d] = o /\ body'[d] = NoContent /\ file'[d] = file[d]
  BY DocConstants DEF Settle, Finish, Goto, TypeOK

\* The steps of an upload keep the invariant.
LEMMA WritingSane ==
  ASSUME IInv, DocTypeOK, TypeOK', NEW d \in Devices, Sane(d), at[d] = "writing",
         CallStep(d), UNCHANGED docVars
  PROVE  Sane(d)'
  <1> USE DEF Goto
  <1>c. d \in Calls /\ ClientOf[d] = d /\ d \in Clients
    BY DocConstants
  <1>t. /\ TypeOK /\ file[d] \in Files
        /\ held[d] \in SUBSET Edits /\ dropped[d] \in SUBSET Edits
    BY <1>c DEF DocTypeOK, TypeOK
  <1>k. /\ \A f \in Files : baseline[d][f] \in Nat /\ baseline[d][f] <= version[f]
        /\ known[d] \in Nat /\ got[d] \in Nat
        /\ \A f \in Files : version[f] \in Nat
        /\ pc[d] = "patch" /\ known[d] # 0 => known[d] <= version[file[d]]
        /\ pc[d] = "record" => known[d] <= version[file[d]]
    BY KnownVersions
  <1>u. /\ at'[d] = "writing" /\ local'[d] = local[d] /\ held'[d] = held[d]
        /\ dropped'[d] = dropped[d]
    BY DEF docVars
  <1>h. Holdings(d) = held[d] /\ Holdings(d)' = held[d]
    BY <1>u DEF Holdings
  <1>m. DriveMoves
    BY <1>c, <1>t, <1>k, StepUploads, UploadsMove DEF DriveMoves
  <1>v. \A f \in Files, v \in Nat :
          v <= version[f] /\ version'[f] = v => version[f] = v /\ content'[f] = content[f]
    BY <1>k, <1>m DEF DriveMoves
  <1>b. UNCHANGED baseline => CurrentIsHeld(d)'
    BY <1>k, <1>h, <1>u, <1>v DEF Sane, CurrentIsHeld
  \* What remains to be shown of a step that leaves the baseline.
  <1>q. ASSUME /\ UNCHANGED baseline
               /\ pc'[d] \in WritePlaces
               /\ pc'[d] # "idle" => body'[d] = body[d] /\ pc[d] # "idle"
               /\ AnswerSane(d)'
        PROVE  Sane(d)'
    <2>1. PlaceSane(d)' /\ HeldSane(d)'
      BY <1>q, <1>u DEF PlaceSane, HeldSane, Sane
    <2>2. QED
      BY <1>q, <1>b, <2>1 DEF Sane
  <1>s. \A o : Settle(d, o) /\ o # "done" /\ UNCHANGED baseline => Sane(d)'
    <2> SUFFICES ASSUME NEW o, Settle(d, o), o # "done", UNCHANGED baseline PROVE Sane(d)'
      OBVIOUS
    <2>1. pc'[d] = "idle" /\ outcome'[d] = o
      BY <1>t, Settled
    <2>2. AnswerSane(d)'
      BY <1>u, <2>1 DEF AnswerSane, Succeeded, Answered
    <2>3. QED
      BY <1>q, <2>1, <2>2 DEF WritePlaces
  <1>1. CASE Check(d) \/ ListFound(d) \/ ListEmpty(d)
    <2>1. /\ UNCHANGED <<baseline, body, driveVars>>
          /\ pc'[d] \in {"compare", "create", "patch"} /\ pc[d] # "idle"
          /\ pc'[d] = "patch" => known'[d] = 0
      BY <1>1, <1>c, <1>t DEF Check, ListFound, ListEmpty, RemoteVersion, TypeOK
    <2>2. AnswerSane(d)'
      BY <1>u, <2>1 DEF AnswerSane, Succeeded, Answered
    <2>3. QED
      BY <1>q, <2>1, <2>2 DEF WritePlaces
  <1>2. CASE CompareFresh(d)
    <2>1. /\ UNCHANGED <<baseline, body, driveVars, file, known>>
          /\ pc'[d] = "patch" /\ pc[d] # "idle"
          /\ baseline[d][file[d]] = known[d]
      BY <1>2, <1>c, <1>t DEF CompareFresh, Matches, Base, TypeOK
    <2>2. AnswerSane(d)'
      BY <1>t, <1>h, <1>u, <2>1 DEF Sane, CurrentIsHeld, AnswerSane, Succeeded, Answered, driveVars
    <2>3. QED
      BY <1>q, <2>1, <2>2 DEF WritePlaces
  <1>3. CASE CompareStale(d) \/ PatchMissing(d) \/ Abort(d)
    BY <1>3, <1>s DEF CompareStale, PatchMissing, Abort
  <1>4. CASE Patch(d)
    <2>1. /\ UNCHANGED <<baseline, body, file>> /\ pc'[d] = "record" /\ pc[d] = "patch"
          /\ content'[file[d]] = body[d] /\ version'[file[d]] = version[file[d]] + 1
      BY <1>4, <1>c, <1>t DEF Patch, Stamp, TypeOK
    <2>2. AnswerSane(d)'
      BY <1>t, <1>k, <1>u, <2>1 DEF AnswerSane, Succeeded, Answered
    <2>3. QED
      BY <1>q, <2>1, <2>2 DEF WritePlaces
  <1>5. CASE Create(d)
    <2>1. PICK f \in Files : Mint(f, name[d], body[d]) /\ file' = [file EXCEPT ![d] = f]
      BY <1>5 DEF Create
    <2>2. /\ UNCHANGED <<baseline, body>> /\ pc'[d] = "record" /\ pc[d] = "create"
          /\ file'[d] = f
          /\ content'[f] = body[d] /\ version'[f] = version[f] + 1
      BY <1>5, <1>c, <1>t, <2>1 DEF Create, Mint, Stamp, TypeOK
    <2>3. AnswerSane(d)'
      BY <1>t, <1>k, <1>u, <2>2 DEF AnswerSane, Succeeded, Answered
    <2>4. QED
      BY <1>q, <2>2, <2>3 DEF WritePlaces
  <1>6. CASE PatchUnanswered(d) \/ CreateUnanswered(d)
    <2>1. UNCHANGED baseline /\ RetryOrFail(d) /\ pc[d] \in {"patch", "create"}
      BY <1>6 DEF PatchUnanswered, CreateUnanswered
    <2>2. CASE Settle(d, "failed")
      BY <1>s, <2>1, <2>2
    <2>3. CASE UNCHANGED <<pc, file, name, known, got, body, outcome>>
      <3>1. pc[d] = "patch" /\ known[d] # 0 /\ version'[file[d]] = known[d] =>
              version[file[d]] = known[d] /\ content'[file[d]] = content[file[d]]
        BY <1>t, <1>k, <1>v
      <3>2. AnswerSane(d)'
        BY <1>u, <2>1, <2>3, <3>1 DEF Sane, AnswerSane, Succeeded, Answered
      <3>3. QED
        BY <1>q, <2>1, <2>3, <3>2 DEF WritePlaces
    <2>4. QED
      BY <2>1, <2>2, <2>3 DEF RetryOrFail
  <1>7. CASE Record(d)
    <2>1. /\ Settle(d, "done") /\ UNCHANGED driveVars /\ pc[d] = "record"
          /\ baseline'[d] = [baseline[d] EXCEPT ![file[d]] = known[d]]
          /\ known[d] \in wrote'[d][file[d]]
      BY <1>7, <1>c, <1>t DEF Record, RecordWritten, RecordBaseline, TypeOK
    <2>2. pc'[d] = "idle" /\ outcome'[d] = "done" /\ file'[d] = file[d]
      BY <1>t, <2>1, Settled
    <2>3. version[file[d]] = known[d] => content[file[d]] = held[d]
      BY <2>1 DEF Sane, AnswerSane, HeldSane
    <2>4. CurrentIsHeld(d)'
      <3> SUFFICES ASSUME NEW f \in Files, baseline'[d][f] # 0, version'[f] = baseline'[d][f]
                   PROVE  content'[f] \subseteq held[d] \cup dropped[d]
        BY <1>h, <1>u DEF CurrentIsHeld
      <3>1. version'[f] = version[f] /\ content'[f] = content[f]
        BY <2>1 DEF driveVars
      <3>2. CASE f = file[d]
        <4>1. baseline'[d][f] = known[d]
          BY <1>c, <1>t, <2>1, <3>2 DEF TypeOK
        <4>2. content[f] = held[d]
          BY <2>3, <3>1, <3>2, <4>1
        <4>3. QED
          BY <3>1, <4>2
      <3>3. CASE f # file[d]
        <4>1. baseline'[d][f] = baseline[d][f]
          BY <1>c, <1>t, <2>1, <3>3 DEF TypeOK
        <4>2. QED
          BY <1>h, <3>1, <4>1 DEF Sane, CurrentIsHeld
      <3>4. QED
        BY <3>2, <3>3
    <2>5. AnswerSane(d)'
      <3>1. baseline'[d][file[d]] = known[d]
        BY <1>c, <1>t, <2>1 DEF TypeOK
      <3>2. QED
        BY <1>t, <1>u, <2>1, <2>2, <2>3, <3>1 DEF AnswerSane, Answered, driveVars
    <2>6. PlaceSane(d)' /\ HeldSane(d)'
      BY <1>u, <2>2 DEF PlaceSane, HeldSane, WritePlaces, Sane
    <2>7. QED
      BY <2>4, <2>5, <2>6 DEF Sane
  <1>8. QED
    BY <1>1, <1>2, <1>3, <1>4, <1>5, <1>6, <1>7, CallKinds DEF Sane

\* The steps of a download and of a merge keep the invariant.
LEMMA ReadingSane ==
  ASSUME IInv, DocTypeOK, TypeOK', ContentSane, NEW d \in Devices, Sane(d), at[d] = "reading",
         CallStep(d), UNCHANGED docVars
  PROVE  Sane(d)'
  <1> USE DEF Goto
  <1>c. d \in Calls /\ ClientOf[d] = d /\ d \in Clients
    BY DocConstants
  <1>t. TypeOK /\ file[d] \in Files /\ known[d] \in Nat
    BY <1>c DEF DocTypeOK, TypeOK
  <1>k. /\ \A f \in Files : baseline[d][f] \in Nat /\ baseline[d][f] <= version[f]
        /\ \A f \in Files : version[f] \in Nat
        /\ pc[d] = "keep" => known[d] <= got[d] /\ got[d] <= version[file[d]] /\ got[d] \in Nat
    BY KnownVersions
  <1>u. /\ at'[d] = "reading" /\ local'[d] = local[d] /\ held'[d] = held[d]
        /\ dropped'[d] = dropped[d]
    BY DEF docVars
  <1>p. pc[d] # "idle" /\ UNCHANGED driveVars
    BY CallKinds DEF Sane, Sample, Download, DownloadMissing, Keep, Abort
  <1>h. Holdings(d) = local[d] /\ local[d] \subseteq Holdings(d)'
    BY <1>p, <1>u DEF Holdings, Arrived
  <1>b. UNCHANGED baseline => CurrentIsHeld(d)'
    BY <1>p, <1>h, <1>u DEF Sane, CurrentIsHeld, driveVars
  <1>q. ASSUME CurrentIsHeld(d)', pc'[d] \in ReadPlaces,
               pc'[d] = "keep" => /\ version[file'[d]] # 0
                                  /\ version[file'[d]] = got'[d] => content[file'[d]] = body'[d],
               pc'[d] = "idle" /\ outcome'[d] # "done" => body'[d] = NoContent
        PROVE  Sane(d)'
    <2>1. PlaceSane(d)' /\ HeldSane(d)'
      BY <1>q, <1>u DEF PlaceSane, HeldSane, Sane
    <2>2. AnswerSane(d)'
      BY <1>q, <1>u, <1>p DEF AnswerSane, Succeeded, Answered, ReadPlaces, driveVars
    <2>3. QED
      BY <1>q, <2>1, <2>2 DEF Sane
  <1>1. CASE Sample(d)
    <2>1. UNCHANGED baseline /\ pc'[d] = "download"
      BY <1>1, <1>c, <1>t DEF Sample, TypeOK
    <2>2. QED
      BY <1>q, <1>b, <2>1 DEF ReadPlaces
  <1>2. CASE Download(d)
    <2>1. /\ UNCHANGED baseline /\ pc'[d] = "keep" /\ file'[d] = file[d]
          /\ body'[d] = content[file[d]] /\ status[file[d]] = "live"
      BY <1>2, <1>c, <1>t DEF Download, TypeOK, Live
    <2>2. version[file[d]] # 0
      BY <1>t, <2>1 DEF IInv, FilesSane
    <2>3. QED
      BY <1>q, <1>b, <2>1, <2>2 DEF ReadPlaces
  <1>3. CASE DownloadMissing(d) \/ Abort(d)
    <2>1. UNCHANGED baseline /\ pc'[d] = "idle" /\ body'[d] = NoContent
      BY <1>3, <1>t, Settled DEF DownloadMissing, Abort
    <2>2. QED
      BY <1>q, <1>b, <2>1 DEF ReadPlaces
  <1>4. CASE Keep(d)
    <2>1. /\ pc[d] = "keep" /\ pc'[d] = "idle" /\ body'[d] = body[d] /\ outcome'[d] = "done"
          /\ \/ baseline'[d] = baseline[d]
             \/ baseline'[d] = [baseline[d] EXCEPT ![file[d]] = known[d]]
      BY <1>4, <1>c, <1>t DEF Keep, Finish, RecordBaseline, KeepVersion, TypeOK
    <2>2. Holdings(d)' = local[d] \cup Downloaded(d)
      BY <1>u, <2>1 DEF Holdings, Arrived, Downloaded
    <2>3. CurrentIsHeld(d)'
      <3> SUFFICES ASSUME NEW f \in Files, baseline'[d][f] # 0, version'[f] = baseline'[d][f]
                   PROVE  content'[f] \subseteq Holdings(d)' \cup dropped[d]
        BY <1>u DEF CurrentIsHeld
      <3>1. version'[f] = version[f] /\ content'[f] = content[f]
        BY <1>p DEF driveVars
      <3>2. CASE baseline'[d][f] = baseline[d][f]
        BY <1>h, <3>1, <3>2 DEF Sane, CurrentIsHeld
      <3>3. CASE f = file[d] /\ baseline'[d][f] = known[d]
        <4>1. version[f] = got[d]
          <5>1. known[d] = version[file[d]]
            BY <3>1, <3>3
          <5>2. known[d] <= got[d] /\ got[d] <= version[file[d]] /\ got[d] \in Nat
            BY <1>k, <2>1
          <5>3. QED
            BY <1>t, <3>3, <5>1, <5>2
        <4>2. content[f] = body[d] /\ version[f] # 0
          BY <2>1, <3>3, <4>1 DEF Sane, AnswerSane
        <4>3. content[f] \in Contents
          BY <4>2, DocConstants DEF ContentSane
        <4>4. Downloaded(d) = content[f]
          BY <4>2, <4>3, NoContentIsNone DEF Downloaded
        <4>5. QED
          BY <2>2, <3>1, <4>4
      <3>4. baseline'[d][f] = baseline[d][f] \/ (f = file[d] /\ baseline'[d][f] = known[d])
        BY <1>c, <1>t, <2>1 DEF TypeOK
      <3>5. QED
        BY <3>2, <3>3, <3>4
    <2>4. QED
      BY <1>q, <2>1, <2>3 DEF ReadPlaces
  <1>5. QED
    BY <1>1, <1>2, <1>3, <1>4, CallKinds DEF Sane

\* A sync that returns has not lost what Drive's version of the document holds.
LEMMA ReturnSane ==
  ASSUME IInv, DocTypeOK, NEW d \in Devices, Sane(d), Return(d), local'[d] = local[d],
         \A f \in Files : baseline[d][f] # 0 /\ version[f] = baseline[d][f] =>
            content[f] \subseteq local[d] \cup dropped'[d]
  PROVE  Sane(d)'
  <1>1. /\ at'[d] = "idle" /\ pc'[d] = "idle" /\ baseline' = baseline /\ UNCHANGED driveVars
    BY DocConstants DEF Return, Move, DocTypeOK
  <1>3. Holdings(d)' = local[d]
    BY <1>1 DEF Holdings, Arrived
  <1>4. CurrentIsHeld(d)'
    BY <1>1, <1>3 DEF CurrentIsHeld, driveVars
  <1>5. PlaceSane(d)' /\ HeldSane(d)' /\ AnswerSane(d)'
    BY <1>1 DEF PlaceSane, HeldSane, AnswerSane, Succeeded, Answered
  <1>6. QED
    BY <1>4, <1>5 DEF Sane

\* The steps of syncDocument() between its calls.
LEMMA EngineSane ==
  ASSUME IInv, DocTypeOK, DocTypeOK', NEW d \in Devices, Sane(d), DocStep(d), ~FilesStep(d)
  PROVE  Sane(d)'
  <1> USE DEF Move
  <1>c. d \in Calls /\ d \in Clients
    BY DocConstants
  <1>t. TypeOK /\ TypeOK' /\ DocVarTypes /\ Downloaded(d) \in SUBSET Edits
    <2>1. body[d] \in Contents \cup {NoContent}
      BY <1>c DEF DocTypeOK, TypeOK
    <2>2. QED
      BY <2>1, DocConstants DEF DocTypeOK, DocVarTypes, Downloaded
  <1>h. \A f \in Files : baseline[d][f] # 0 /\ version[f] = baseline[d][f] =>
          content[f] \subseteq Holdings(d) \cup dropped[d]
    BY DEF Sane, CurrentIsHeld
  <1>q. ASSUME UNCHANGED fgVars,
               Holdings(d) \subseteq Holdings(d)', dropped'[d] = dropped[d],
               PlaceSane(d)', HeldSane(d)', at'[d] \notin {"writing", "reading"}
        PROVE  Sane(d)'
    <2>1. UNCHANGED <<baseline, pc, version, content>>
      BY <1>q DEF fgVars, driveVars, callVars
    <2>2. CurrentIsHeld(d)'
      BY <1>h, <1>q, <2>1 DEF CurrentIsHeld
    <2>3. pc'[d] = "idle"
      BY <1>q DEF PlaceSane
    <2>4. AnswerSane(d)'
      BY <1>q, <2>3 DEF AnswerSane, Succeeded, Answered
    <2>5. QED
      BY <1>q, <2>2, <2>4 DEF Sane
  <1>b. UNCHANGED fgVars => pc' = pc /\ body' = body
    BY DEF fgVars, callVars
  <1>1. CASE StartSync(d) \/ Resolve(d)
    <2>1. /\ at[d] \in {"idle", "resolve"} /\ at'[d] \in {"local", "resolve"} /\ UNCHANGED fgVars
          /\ UNCHANGED <<local, dropped>>
      BY <1>1, <1>t DEF StartSync, Resolve, DocVarTypes
    <2>2. Holdings(d)' = Holdings(d)
      BY <2>1 DEF Holdings, Arrived
    <2>3. PlaceSane(d)' /\ HeldSane(d)'
      BY <1>b, <2>1 DEF Sane, PlaceSane, HeldSane
    <2>4. QED
      BY <1>q, <2>1, <2>2, <2>3
  <1>w. ASSUME NEW f, NEW b, Write(d, f, b), Holdings(d) = b,
               dropped[d] \ b \subseteq dropped'[d], b \subseteq local'[d]
        PROVE  Sane(d)'
    <2>1. /\ at'[d] = "writing" /\ held'[d] = b /\ pc'[d] \in {"check", "list"} /\ body'[d] = b
      BY <1>w, <1>t, <1>c DEF Write, StartWriteId, StartWriteName, Start, Goto, DocVarTypes, TypeOK
    <2>2. Holdings(d) \cup dropped[d] \subseteq held'[d] \cup dropped'[d]
      BY <1>w, <2>1
    <2>3. UNCHANGED <<driveVars, baseline>>
      BY <1>w DEF Write, StartWriteId, StartWriteName, Start
    <2>4. CurrentIsHeld(d)'
      BY <1>h, <2>1, <2>2, <2>3 DEF CurrentIsHeld, Holdings, driveVars
    <2>5. PlaceSane(d)' /\ HeldSane(d)' /\ AnswerSane(d)'
      BY <1>w, <2>1 DEF PlaceSane, HeldSane, AnswerSane, Succeeded, Answered, WritePlaces
    <2>6. QED
      BY <2>4, <2>5 DEF Sane
  <1>r. Return(d) /\ local'[d] = local[d] /\ dropped'[d] = dropped[d]
        /\ Holdings(d) \subseteq local[d] => Sane(d)'
    BY <1>h, ReturnSane
  <1>2. CASE ReadLocal(d)
    <2>1. /\ Write(d, fileId[d], local[d]) /\ Holdings(d) = local[d]
          /\ UNCHANGED <<local, dropped>>
      BY <1>2 DEF ReadLocal, Holdings, Arrived
    <2>2. QED
      BY <1>w, <2>1
  <1>3. CASE Store(d)
    <2>1. /\ Write(d, fileId[d], held[d]) /\ Holdings(d) = held[d]
          /\ local'[d] = held[d] /\ dropped'[d] = dropped[d] \ held[d]
      BY <1>3, <1>t DEF Store, Holdings, DocVarTypes
    <2>2. QED
      BY <1>w, <2>1
  <1>4. CASE WriteSucceeds(d) \/ WriteFails(d)
    <2>1. Holdings(d) \subseteq local[d]
      BY <1>4 DEF WriteSucceeds, WriteFails, Answered, Holdings, Sane, HeldSane
    <2>2. QED
      BY <1>4, <1>r, <2>1 DEF WriteSucceeds, WriteFails
  <1>5. CASE ReadFails(d)
    <2>1. Downloaded(d) = {} /\ at[d] = "reading"
      BY <1>5 DEF ReadFails, Answered, Sane, AnswerSane, Downloaded
    <2>2. Holdings(d) \subseteq local[d]
      BY <2>1 DEF Holdings
    <2>3. QED
      BY <1>5, <1>r, <2>2 DEF ReadFails
  <1>6. CASE Recover(d)
    <2>1. /\ at[d] = "writing" /\ at'[d] = "reading" /\ pc'[d] = "sample"
          /\ UNCHANGED <<local, held, dropped, driveVars, baseline>>
      BY <1>6, <1>t, <1>c DEF Recover, Answered, StartRead, Start, Goto, DocVarTypes, TypeOK
    <2>2. held[d] \subseteq local[d] /\ Holdings(d) = held[d] /\ Holdings(d)' = local[d]
      BY <2>1 DEF Sane, HeldSane, Holdings, Arrived
    <2>3. CurrentIsHeld(d)'
      BY <1>h, <2>1, <2>2 DEF CurrentIsHeld, driveVars
    <2>4. PlaceSane(d)' /\ HeldSane(d)' /\ AnswerSane(d)'
      BY <2>1, <2>2 DEF PlaceSane, ReadPlaces, HeldSane, AnswerSane, Succeeded, Answered
    <2>5. QED
      BY <2>3, <2>4 DEF Sane
  <1>7. CASE ReadSucceeds(d)
    <2>1. /\ at[d] = "reading" /\ pc[d] = "idle" /\ at'[d] = "merge" /\ UNCHANGED fgVars
          /\ UNCHANGED <<local, dropped>>
      BY <1>7, <1>t DEF ReadSucceeds, Answered, DocVarTypes
    <2>2. Holdings(d)' = Holdings(d)
      BY <1>b, <2>1 DEF Holdings, Arrived, Downloaded
    <2>3. PlaceSane(d)' /\ HeldSane(d)'
      BY <1>b, <2>1 DEF PlaceSane, HeldSane
    <2>4. QED
      BY <1>q, <2>1, <2>2, <2>3
  <1>8. CASE Merge(d)
    <2>1. /\ at[d] = "merge" /\ at'[d] = "store" /\ UNCHANGED fgVars
          /\ UNCHANGED <<local, dropped>> /\ held'[d] = local[d] \cup Downloaded(d)
      BY <1>8, <1>t DEF Merge, Merged, DocVarTypes
    <2>2. Holdings(d)' = Holdings(d) /\ Downloaded(d)' = Downloaded(d)
      BY <1>b, <2>1 DEF Holdings, Arrived, Downloaded
    <2>3. PlaceSane(d)' /\ HeldSane(d)'
      BY <1>b, <2>1, <2>2 DEF Sane, PlaceSane, HeldSane
    <2>4. QED
      BY <1>q, <2>1, <2>2, <2>3
  <1>9. CASE Forget(d) \/ \E n \in Names : Rename(d, n)
    <2>1. at[d] = "idle" /\ at' = at /\ UNCHANGED fgVars /\ UNCHANGED <<local, dropped>>
      BY <1>9 DEF Forget, Rename
    <2>2. Holdings(d)' = Holdings(d)
      BY <2>1 DEF Holdings, Arrived
    <2>3. PlaceSane(d)' /\ HeldSane(d)'
      BY <1>b, <2>1 DEF Sane, PlaceSane, HeldSane
    <2>4. QED
      BY <1>q, <2>1, <2>2, <2>3
  <1>10. CASE \E e \in Edits : LocalEdit(d, e)
    <2>1. PICK e \in Edits : LocalEdit(d, e)
      BY <1>10
    <2>2. /\ UNCHANGED fgVars /\ UNCHANGED <<at, held, dropped>>
          /\ local'[d] = local[d] \cup {e}
          /\ at[d] = "store" => late'[d] = late[d] \cup {e}
      BY <2>1, <1>t DEF LocalEdit, DocVarTypes
    <2>3. UNCHANGED <<baseline, pc, version, content, file, known, got, body, outcome, wrote>>
      BY <2>2 DEF fgVars, driveVars, callVars, histVars
    <2>4. Holdings(d) \subseteq Holdings(d)' /\ Downloaded(d)' = Downloaded(d)
      BY <2>2, <2>3 DEF Holdings, Arrived, Downloaded
    <2>5. CurrentIsHeld(d)'
      BY <1>h, <2>2, <2>3, <2>4 DEF CurrentIsHeld
    <2>6. PlaceSane(d)' /\ HeldSane(d)'
      BY <2>2, <2>3, <2>4 DEF Sane, PlaceSane, HeldSane
    <2>7. AnswerSane(d)'
      BY <2>2, <2>3 DEF Sane, AnswerSane, Succeeded, Answered
    <2>8. QED
      BY <2>5, <2>6, <2>7 DEF Sane
  <1>11. CASE Die(d)
    <2>1. /\ Return(d) /\ local' = local
          /\ dropped'[d] = dropped[d] \cup (Downloaded(d) \ local[d])
      BY <1>11, <1>t DEF Die, DocVarTypes
    <2>2. Holdings(d) \subseteq local[d] \cup Downloaded(d)
      BY DEF Sane, HeldSane, Holdings
    <2>3. QED
      BY <1>h, <2>1, <2>2, ReturnSane
  <1>12. QED
    BY <1>1, <1>2, <1>3, <1>4, <1>5, <1>6, <1>7, <1>8, <1>9, <1>10, <1>11 DEF DocStep

\* Every step of the engine keeps the invariant.
LEMMA DocStepSane ==
  ASSUME DocIInv, IInv', DocTypeOK', NEW d \in Devices, DocStep(d)
  PROVE  ContentSane' /\ \A e \in Devices : Sane(e)'
  <1>0. /\ IInv /\ DocTypeOK /\ TypeOK /\ TypeOK' /\ ContentSane /\ d \in Calls
        /\ \A e \in Devices : Sane(e)
    BY DocConstants DEF DocIInv, DocTypeOK
  <1>1. UNCHANGED <<version, content>> \/ Uploads(d)
    <2>1. Return(d) => UNCHANGED <<version, content>>
      BY DEF Return, driveVars
    <2>2. UNCHANGED fgVars => UNCHANGED <<version, content>>
      BY DEF fgVars, driveVars
    <2>3. QED
      BY <1>0, <2>1, <2>2, DocStepKinds, StepUploads
  <1>2. DriveMoves
    BY <1>0, <1>1, UploadsMove DEF DriveMoves
  <1>3. ContentSane'
    <2>1. CASE UNCHANGED <<version, content>>
      BY <1>0, <2>1 DEF ContentSane
    <2>2. CASE Uploads(d)
      <3>1. pc[d] \in {"patch", "create"}
        BY <2>2 DEF Uploads
      <3>2. at[d] = "writing"
        BY <1>0, <3>1 DEF Sane, PlaceSane, ReadPlaces
      <3>3. body[d] \in SUBSET Edits
        BY <1>0, <3>1, <3>2 DEF Sane, HeldSane, DocTypeOK
      <3>4. PICK f \in Files : /\ version' = [version EXCEPT ![f] = @ + 1]
                               /\ content' = [content EXCEPT ![f] = body[d]]
        BY <2>2 DEF Uploads
      <3>5. QED
        BY <1>0, <3>3, <3>4 DEF ContentSane, TypeOK
    <2>3. QED
      BY <1>1, <2>1, <2>2
  <1>4. ASSUME NEW e \in Devices PROVE Sane(e)'
    <2>1. CASE e # d
      BY <1>0, <1>2, <2>1, OthersRest, DocUndisturbed, RestingSane
    <2>2. CASE e = d /\ FilesStep(d)
      <3>1. CallStep(d) /\ UNCHANGED docVars
        BY <2>2 DEF FilesStep
      <3>2. at[d] = "writing" \/ at[d] = "reading"
        BY <1>0, <3>1, CallKinds DEF Sane
      <3>3. QED
        BY <1>0, <2>2, <3>1, <3>2, WritingSane, ReadingSane
    <2>3. CASE e = d /\ ~FilesStep(d)
      BY <1>0, <2>3, EngineSane
    <2>4. QED
      BY <2>1, <2>2, <2>3
  <1>5. QED
    BY <1>3, <1>4

\* So does a file that is trashed.
LEMMA TrashSane ==
  ASSUME DocIInv, IInv', DocTypeOK', NEW f \in Files, Trash(f)
  PROVE  ContentSane' /\ \A e \in Devices : Sane(e)'
  <1>1. UNCHANGED <<version, content, named, baseline, callVars, histVars, docVars>>
    BY DEF Trash
  <1>2. ContentSane' /\ DriveMoves
    BY <1>1 DEF DocIInv, ContentSane, DriveMoves
  <1>3. ASSUME NEW e \in Devices PROVE Sane(e)'
    <2>1. Resting(e) /\ Undisturbed(e)
      BY <1>1 DEF Resting, Undisturbed, Still, callVars, histVars, docVars
    <2>2. QED
      BY <1>2, <2>1, RestingSane DEF DocIInv, DocTypeOK
  <1>4. QED
    BY <1>2, <1>3

\* And a step in which nothing happens.
LEMMA DocStutterSane ==
  ASSUME DocIInv, IInv', DocTypeOK', UNCHANGED vars
  PROVE  ContentSane' /\ \A e \in Devices : Sane(e)'
  <1>1. UNCHANGED <<driveVars, baseline, callVars, histVars, docVars>>
    BY DEF vars, fgVars
  <1>2. ContentSane' /\ DriveMoves
    BY <1>1 DEF DocIInv, ContentSane, DriveMoves, driveVars
  <1>3. ASSUME NEW e \in Devices PROVE Sane(e)'
    <2>1. Resting(e) /\ Undisturbed(e)
      BY <1>1 DEF Resting, Undisturbed, Still, callVars, histVars, docVars
    <2>2. QED
      BY <1>2, <2>1, RestingSane DEF DocIInv, DocTypeOK
  <1>4. QED
    BY <1>2, <1>3

\* Every reachable state satisfies the strengthening the theorems below rest on.
THEOREM DocInductive == DocSpec => []DocIInv
  <1>1. DocIInv /\ [DocNext]_vars => DocIInv'
    <2> SUFFICES ASSUME DocIInv, [DocNext]_vars PROVE DocIInv'
      OBVIOUS
    <2>1. IInv' /\ DocTypeOK' /\ \A d \in Devices : AttemptSane(d)'
      BY DocStepIInv, DocStepType, DocStepAttempts DEF DocIInv
    <2>2. ContentSane' /\ \A d \in Devices : Sane(d)'
      BY <2>1, DocStepSane, TrashSane, DocStutterSane DEF DocNext
    <2>3. QED
      BY <2>1, <2>2 DEF DocIInv
  <1>2. QED
    BY DocInitIInv, <1>1, PTL DEF DocSpec

\* A sync that succeeds has uploaded the document, for any number of devices, files and
\* edits, and whatever retries, failures, reloads and deletions happen in between.
THEOREM SyncedMeansUploadedHolds == DocSpec => []SyncedMeansUploaded
  <1>1. DocIInv => SyncedMeansUploaded
    BY DEF DocIInv, Sane, AnswerSane, SyncedMeansUploaded
  <1>2. QED
    BY <1>1, DocInductive, PTL

\* The text a user types is lost on its own device only between readLocal() and
\* writeLocal() of a merge.
THEOREM LocalLossOnlyInMergeHolds == DocSpec => LocalLossOnlyInMerge
  <1>1. ASSUME DocIInv, [DocNext]_vars, NEW d \in Devices
        PROVE  local[d] \ local'[d] \subseteq late[d]
    <2>t. DocVarTypes
      BY <1>1 DEF DocIInv, DocTypeOK, DocVarTypes
    <2>1. CASE UNCHANGED docVars
      BY <2>1 DEF docVars
    <2>2. ASSUME NEW e \in Devices, DocStep(e), e # d
          PROVE  local'[d] = local[d]
      BY <1>1, <2>2, OthersRest DEF DocIInv, Resting
    <2>3. CASE Store(d)
      <3>1. local'[d] = held[d] /\ at[d] = "store"
        BY <2>3, <2>t DEF Store, DocVarTypes
      <3>2. local[d] \subseteq held[d] \cup late[d]
        BY <1>1, <3>1 DEF DocIInv, Sane, HeldSane
      <3>3. QED
        BY <3>1, <3>2
    <2>4. CASE \E e \in Edits : LocalEdit(d, e)
      BY <2>4, <2>t DEF LocalEdit, DocVarTypes
    <2>5. CASE DocStep(d) /\ ~Store(d) /\ ~(\E e \in Edits : LocalEdit(d, e))
      <3>1. local' = local
        BY <2>5 DEF DocStep, StartSync, Resolve, ReadLocal, WriteSucceeds, Recover, WriteFails,
           ReadSucceeds, ReadFails, Merge, Die, Forget, Rename, FilesStep, docVars
      <3>2. QED
        BY <3>1
    <2>6. QED
      BY <1>1, <2>1, <2>2, <2>3, <2>4, <2>5 DEF DocNext, Trash, vars
  <1>2. DocIInv /\ [DocNext]_vars => [\A d \in Devices : local[d] \ local'[d] \subseteq late[d]]_vars
    BY <1>1
  <1>3. QED
    BY <1>2, DocInductive, PTL DEF DocSpec, LocalLossOnlyInMerge

\* An upload that changes a file finds it live: a step of the engine outside the files API
\* changes no version.
LEMMA DocOverwriteIsOwn ==
  ASSUME DocIInv, [DocNext]_vars, NEW d \in Devices, Overwrites(d)
  PROVE  Live(file[d])
  <1>0. IInv /\ DocTypeOK /\ d \in Calls
    BY DocConstants DEF DocIInv
  <1>1. CASE [Next]_fgVars
    BY <1>0, <1>1, OverwriteIsOwn
  <1>2. ASSUME NEW e \in Devices, Return(e)
        PROVE  FALSE
    BY <1>2 DEF Return, driveVars, Overwrites
  <1>3. ASSUME NEW f \in Files, Trash(f)
        PROVE  FALSE
    BY <1>3 DEF Trash, Overwrites
  <1>4. ASSUME NEW e \in Devices, StartCall(e) \/ CallStep(e)
        PROVE  [Next]_fgVars
    BY <1>4, DocConstants DEF Next
  <1>5. UNCHANGED vars => [Next]_fgVars
    BY DEF vars
  <1>6. QED
    BY <1>0, <1>1, <1>2, <1>3, <1>4, <1>5, DocStepKinds DEF DocNext

\* The engine loses no edit silently: what an upload removes from the file arrived after the
\* upload's staleness check, or the device has downloaded it in a sync that died.
THEOREM NoSilentLossHolds == DocSpec => NoSilentLoss
  <1>1. ASSUME DocIInv, [DocNext]_vars, NEW d \in Devices, Overwrites(d)
        PROVE  \/ version[file[d]] > known[d]
               \/ Lost(d) \subseteq dropped[d]
    <2>1. /\ IInv /\ Sane(d) /\ CallSane(d) /\ pc[d] = "patch" /\ status[file[d]] = "live"
      BY <1>1, DocOverwriteIsOwn, DocConstants DEF DocIInv, IInv, Overwrites, Live
    <2>2. known[d] # 0 /\ known[d] <= version[file[d]] /\ known[d] \in Nat /\ version[file[d]] \in Nat
      BY <2>1, KnownVersions DEF CallSane
    <2>3. body[d] = held[d]
      BY <2>1 DEF Sane, PlaceSane, HeldSane, ReadPlaces
    <2>4. CASE version[file[d]] = known[d]
      BY <2>1, <2>2, <2>3, <2>4 DEF Sane, AnswerSane, Lost
    <2>5. CASE version[file[d]] # known[d]
      BY <2>2, <2>5
    <2>6. QED
      BY <2>4, <2>5
  <1>2. DocIInv /\ [DocNext]_vars =>
          [\A d \in Devices : Overwrites(d) =>
              \/ version[file[d]] > known[d]
              \/ Lost(d) \subseteq dropped[d]]_vars
    BY <1>1
  <1>3. QED
    BY <1>2, DocInductive, PTL DEF DocSpec, NoSilentLoss

-----------------------------------------------------------------------------
(* Two files of one name *)

\* What is known of the live files of the name a device is about to create: it
\* made them itself at an earlier attempt, or it had looked before they came.
Looked(k) ==
    pc[k] = "create" =>
        \A g \in LiveNamed(name[k]) :
            \/ g \in created[k]
            \/ origin[g].by # k /\ k \in origin[g].racing

NamesIInv ==
    /\ DocTypeOK
    /\ created \in [Devices -> SUBSET Files]
    /\ \A d \in Devices : AttemptSane(d)
    /\ \A d \in Devices : Looked(d)
    /\ TwinsOnlyByRaceOrRepeat

\* A step that brings no file under a name.
NothingMade ==
    \A f \in Files : Live(f)' => Live(f) /\ named'[f] = named[f]

\* A call that is about to create was so before, or has just looked.
JustLooked(k) ==
    pc'[k] = "create" =>
        \/ pc[k] = "create" /\ name'[k] = name[k]
        \/ LiveNamed(name'[k]) = {}

\* A create of k that Drive applies.
Makes(k, f) ==
    /\ pc[k] = "create"
    /\ status[f] = "absent"
    /\ status' = [status EXCEPT ![f] = "live"]
    /\ named' = [named EXCEPT ![f] = name[k]]
    /\ pc'[k] = "create" => name'[k] = name[k]

\* A step of a call looks, goes on, or makes a file; it never waits to create
\* a name under which it has seen a file.
LEMMA StepMakes ==
  ASSUME TypeOK, NEW k \in Calls, StartCall(k) \/ CallStep(k)
  PROVE  \/ NothingMade /\ JustLooked(k)
         \/ \E f \in Files : Makes(k, f)
  <1> USE DEF Goto
  <1>u. UNCHANGED <<status, named>> => NothingMade
    BY DEF NothingMade, Live
  <1>s. \A o : Settle(k, o) \/ Finish(k, o) => pc'[k] = "idle"
    BY DEF Settle, Finish, TypeOK
  <1>p. pc'[k] # "create" => JustLooked(k)
    BY DEF JustLooked
  <1>0. CASE StartCall(k)
    <2>1. /\ UNCHANGED <<status, named>>
          /\ pc'[k] \in {"sample", "check", "list", "delete", "probe"}
      BY <1>0, StartShape DEF Start, TypeOK, driveVars
    <2>2. QED
      BY <1>u, <1>p, <2>1
  <1>1. CASE Sample(k) \/ Download(k) \/ Check(k) \/ ListFound(k) \/ CompareFresh(k)
    <2>1. /\ UNCHANGED <<status, named>>
          /\ pc'[k] \in {"download", "keep", "compare", "patch"}
      BY <1>1 DEF Sample, Download, Check, ListFound, CompareFresh, TypeOK, driveVars
    <2>2. QED
      BY <1>u, <1>p, <2>1
  <1>2. CASE ListEmpty(k)
    <2>1. UNCHANGED <<status, named, name>> /\ LiveNamed(name[k]) = {}
      BY <1>2 DEF ListEmpty, Missing, driveVars
    <2>2. QED
      BY <1>u, <2>1 DEF JustLooked
  <1>3. CASE \/ DownloadMissing(k) \/ CompareStale(k) \/ PatchMissing(k) \/ DeleteMissing(k)
             \/ Abort(k) \/ Clear(k) \/ Record(k) \/ Keep(k)
    <2>1. UNCHANGED <<status, named>> /\ \E o : Settle(k, o) \/ Finish(k, o)
      BY <1>3 DEF DownloadMissing, CompareStale, PatchMissing, DeleteMissing, Abort, Clear, Record,
                  Keep, driveVars
    <2>2. pc'[k] = "idle"
      BY <1>s, <2>1
    <2>3. QED
      BY <1>u, <1>p, <2>1, <2>2
  <1>4. CASE Patch(k)
    <2>1. UNCHANGED <<status, named>> /\ pc'[k] = "record"
      BY <1>4 DEF Patch, TypeOK
    <2>2. QED
      BY <1>u, <1>p, <2>1
  <1>5. CASE PatchUnanswered(k)
    <2>1. UNCHANGED <<status, named>> /\ pc[k] = "patch" /\ RetryOrFail(k)
      BY <1>5 DEF PatchUnanswered
    <2>2. pc'[k] # "create"
      BY <1>s, <2>1 DEF RetryOrFail
    <2>3. QED
      BY <1>u, <1>p, <2>1, <2>2
  <1>6. CASE Create(k)
    <2>1. pc[k] = "create" /\ pc'[k] = "record"
      BY <1>6 DEF Create, TypeOK
    <2>2. QED
      BY <1>6, <2>1 DEF Create, Mint, Makes
  <1>7. CASE CreateUnanswered(k)
    <2>1. pc[k] = "create" /\ RetryOrFail(k)
      BY <1>7 DEF CreateUnanswered
    <2>2. pc'[k] = "create" => name'[k] = name[k]
      BY <1>s, <2>1 DEF RetryOrFail, TypeOK
    <2>3. QED
      BY <1>7, <2>1, <2>2 DEF CreateUnanswered, Mint, Makes
  <1>8. CASE Delete(k)
    <2>1. NothingMade
      BY <1>8 DEF Delete, NothingMade, Live, TypeOK
    <2>2. pc'[k] # "create"
      BY <1>8, <1>s DEF Delete, TypeOK
    <2>3. QED
      BY <1>p, <2>1, <2>2
  <1>9. CASE ProbeMeta(k) \/ ProbeBase(k)
    <2>1. UNCHANGED <<status, named>>
      BY <1>9 DEF ProbeMeta, ProbeBase, driveVars
    <2>2. pc'[k] # "create"
      BY <1>9, <1>s DEF ProbeMeta, ProbeBase, TypeOK
    <2>3. QED
      BY <1>u, <1>p, <2>1, <2>2
  <1>10. QED
    BY <1>0, <1>1, <1>2, <1>3, <1>4, <1>5, <1>6, <1>7, <1>8, <1>9 DEF CallStep

\* Nor does a step rename what another call is about to create.
LEMMA OthersName ==
  ASSUME TypeOK, NEW k \in Calls, StartCall(k) \/ CallStep(k), NEW j \in Calls \ {k}
  PROVE  name'[j] = name[j]
  <1>s. \A o : (Finish(k, o) /\ UNCHANGED name) \/ Settle(k, o) => name'[j] = name[j]
    BY DEF Settle
  <1>r. RetryOrFail(k) => name'[j] = name[j]
    BY <1>s DEF RetryOrFail
  <1>1. CASE StartCall(k)
    BY <1>1, StartShape DEF Start, TypeOK
  <1>2. QED
    BY <1>1, <1>s, <1>r
       DEF CallStep, Sample, Download, DownloadMissing, Keep, Check, ListFound,
           ListEmpty, CompareFresh, CompareStale, Patch, PatchUnanswered,
           PatchMissing, Create, CreateUnanswered, Record, Delete, DeleteMissing,
           Clear, ProbeMeta, ProbeBase, Abort

\* A call waits as it did.
SameWait(k) == pc'[k] = pc[k] /\ name'[k] = name[k]

\* Where nothing is made, no file has a new origin and none gets a twin.
LEMMA NothingMadeKeeps ==
  ASSUME TypeOK, NothingMade,
         \A f \in Files : Live(f) => origin'[f] = origin[f],
         \A k \in Devices : pc'[k] = "create" => created[k] \subseteq created'[k],
         \A k \in Devices : Looked(k), TwinsOnlyByRaceOrRepeat,
         \A k \in Devices : SameWait(k) \/ JustLooked(k)
  PROVE  (\A k \in Devices : Looked(k)') /\ TwinsOnlyByRaceOrRepeat'
  <1>1. \A f \in Files : Live(f)' =>
            Live(f) /\ named'[f] = named[f] /\ origin'[f] = origin[f]
    BY DEF NothingMade
  <1>2. \A n : LiveNamed(n)' \subseteq LiveNamed(n)
    BY <1>1 DEF LiveNamed
  <1>3. ASSUME NEW k \in Devices PROVE Looked(k)'
    <2> SUFFICES ASSUME pc'[k] = "create", NEW g \in LiveNamed(name[k])'
                 PROVE  \/ g \in created'[k]
                        \/ origin'[g].by # k /\ k \in origin'[g].racing
      BY DEF Looked
    <2>1. g \in LiveNamed(name'[k]) /\ origin'[g] = origin[g]
      BY <1>1 DEF LiveNamed
    <2>2. pc[k] = "create" /\ name'[k] = name[k] /\ Looked(k)
      BY <2>1 DEF SameWait, JustLooked
    <2>3. QED
      BY <2>1, <2>2 DEF Looked
  <1>4. TwinsOnlyByRaceOrRepeat'
    BY <1>1 DEF TwinsOnlyByRaceOrRepeat, Repeated, Raced
  <1>5. QED
    BY <1>3, <1>4

\* A file that is made gets a twin only by a race or by a repeated request.
LEMMA MakesKeeps ==
  ASSUME TypeOK, created \in [Devices -> SUBSET Files],
         NEW d \in Devices, NEW f \in Files, Makes(d, f), Remember(d),
         \A k \in Devices : Looked(k), TwinsOnlyByRaceOrRepeat,
         \A k \in Devices \ {d} : SameWait(k)
  PROVE  (\A k \in Devices : Looked(k)') /\ TwinsOnlyByRaceOrRepeat'
  <1>0. Minted(f) /\ \A g \in Files \ {f} : ~Minted(g)
    BY DEF Minted, Makes, TypeOK
  <1>1. /\ origin'[f] = [by |-> d, earlier |-> created[d], racing |-> Racing(d)]
        /\ \A g \in Files \ {f} : origin'[g] = origin[g]
    BY <1>0 DEF Remember
  <1>2. /\ named'[f] = name[d] /\ ~Live(f)
        /\ \A g \in Files \ {f} : (Live(g)' <=> Live(g)) /\ named'[g] = named[g]
    BY DEF Makes, Live, TypeOK
  <1>3. /\ pc[d] = "create"
        /\ pc'[d] = "create" => created'[d] = created[d] \cup {f}
        /\ \A k \in Devices \ {d} : created'[k] = created[k]
    BY <1>0 DEF Remember, Makes
  <1>4. ASSUME NEW g \in Files \ {f}, Live(g), named[g] = name[d]
        PROVE  Repeated(f, g)' \/ Raced(f, g)'
    <2>1. \/ g \in created[d]
          \/ origin[g].by # d /\ d \in origin[g].racing
      BY <1>3, <1>4 DEF Looked, LiveNamed
    <2>2. QED
      BY <1>1, <1>3, <2>1 DEF Repeated, Raced
  <1>5. TwinsOnlyByRaceOrRepeat'
    <2> SUFFICES ASSUME NEW g \in Files, NEW h \in Files, g # h,
                        Live(g)', Live(h)', named'[g] = named'[h]
                 PROVE  Repeated(g, h)' \/ Raced(g, h)'
      BY DEF TwinsOnlyByRaceOrRepeat
    <2>1. CASE g = f
      BY <1>2, <1>4, <2>1
    <2>2. CASE h = f
      <3>1. Repeated(f, g)' \/ Raced(f, g)'
        BY <1>2, <1>4, <2>2
      <3>2. QED
        BY <2>2, <3>1 DEF Repeated, Raced
    <2>3. CASE g # f /\ h # f
      <3>1. Repeated(g, h) \/ Raced(g, h)
        BY <1>2, <2>3 DEF TwinsOnlyByRaceOrRepeat
      <3>2. QED
        BY <1>1, <2>3, <3>1 DEF Repeated, Raced
    <2>4. QED
      BY <2>1, <2>2, <2>3
  <1>6. ASSUME NEW k \in Devices PROVE Looked(k)'
    <2> SUFFICES ASSUME pc'[k] = "create", NEW g \in Files, Live(g)', named'[g] = name'[k]
                 PROVE  \/ g \in created'[k]
                        \/ origin'[g].by # k /\ k \in origin'[g].racing
      BY DEF Looked, LiveNamed
    <2>0. pc[k] = "create" /\ name'[k] = name[k] /\ created[k] \subseteq created'[k]
      BY <1>3 DEF SameWait, Makes
    <2>1. CASE g = f /\ k = d
      BY <1>1, <1>3, <2>0, <2>1
    <2>2. CASE g = f /\ k # d
      <3>1. k \in Racing(d)
        BY <1>2, <2>0, <2>2 DEF Racing
      <3>2. QED
        BY <1>1, <2>2, <3>1
    <2>3. CASE g # f
      <3>1. /\ g \in LiveNamed(name[k]) /\ origin'[g] = origin[g]
        BY <1>1, <1>2, <2>0, <2>3 DEF LiveNamed
      <3>2. \/ g \in created[k]
            \/ origin[g].by # k /\ k \in origin[g].racing
        BY <2>0, <3>1 DEF Looked
      <3>3. QED
        BY <2>0, <3>1, <3>2
    <2>4. QED
      BY <2>1, <2>2, <2>3
  <1>7. QED
    BY <1>5, <1>6

\* Whatever the devices lose, repeat, rename or forget and the user deletes, two live files
\* of one name were made by a race of two devices that had both found nothing, or by one
\* create that http.ts sent again: of any number of devices and attempts.
THEOREM TwinsOnlyByRaceOrRepeatHolds == NamesSpec => []TwinsOnlyByRaceOrRepeat
  <1>1. NamesInit => NamesIInv
    <2> SUFFICES ASSUME DocInit, NamesInit PROVE NamesIInv
      BY DEF NamesInit
    <2>1. /\ \A f \in Files : ~Live(f)
          /\ \A d \in Devices : pc[d] # "create" /\ at[d] = "idle" /\ attempt[d] = 0
      BY DocConstants DEF DocInit, Init, Live
    <2>2. (\A d \in Devices : AttemptSane(d) /\ Looked(d)) /\ TwinsOnlyByRaceOrRepeat
      BY <2>1 DEF AttemptSane, Looked, TwinsOnlyByRaceOrRepeat
    <2>3. QED
      BY <2>2, DocInitType DEF NamesIInv, NamesInit
  <1>2. NamesIInv /\ [NamesNext]_namesVars => NamesIInv'
    <2> SUFFICES ASSUME NamesIInv, [NamesNext]_namesVars PROVE NamesIInv'
      OBVIOUS
    <2>0. TypeOK /\ Devices = Calls
      BY DocConstants DEF NamesIInv, DocTypeOK
    <2>1. DocTypeOK' /\ \A d \in Devices : AttemptSane(d)'
      <3>1. [DocNext]_vars
        BY DEF NamesNext, DocNext, namesVars
      <3>2. QED
        BY <3>1, DocStepType, DocStepAttempts DEF NamesIInv
    <2>2. (\A k \in Devices : Looked(k)') /\ TwinsOnlyByRaceOrRepeat'
      <3>1. ASSUME NEW d \in Devices, DocStep(d), Remember(d)
            PROVE  (\A k \in Devices : Looked(k)') /\ TwinsOnlyByRaceOrRepeat'
        <4>1. ASSUME NothingMade, \A k \in Devices : SameWait(k) \/ JustLooked(k)
              PROVE  (\A k \in Devices : Looked(k)') /\ TwinsOnlyByRaceOrRepeat'
          <5>1. \A f \in Files : Live(f) => origin'[f] = origin[f]
            BY <3>1 DEF Remember, Minted, Live
          <5>2. \A k \in Devices : pc'[k] = "create" => created[k] \subseteq created'[k]
            BY <3>1 DEF Remember, NamesIInv
          <5>3. QED
            BY <2>0, <4>1, <5>1, <5>2, NothingMadeKeeps DEF NamesIInv
        <4>2. CASE UNCHANGED fgVars \/ Return(d)
          <5>1. UNCHANGED <<status, named, pc>>
            BY <4>2 DEF fgVars, Return, driveVars, callVars
          <5>2. \A k \in Devices : SameWait(k) \/ JustLooked(k)
            <6> SUFFICES ASSUME NEW k \in Devices PROVE SameWait(k) \/ JustLooked(k)
              OBVIOUS
            <6>1. CASE k = d /\ Return(d)
              BY <5>1, <6>1 DEF Return, JustLooked
            <6>2. CASE ~(k = d /\ Return(d))
              BY <2>0, <4>2, <5>1, <6>2 DEF Return, SameWait, fgVars, callVars, TypeOK
            <6>3. QED
              BY <6>1, <6>2
          <5>3. NothingMade
            BY <5>1 DEF NothingMade, Live
          <5>4. QED
            BY <4>1, <5>2, <5>3
        <4>3. CASE StartCall(d) \/ CallStep(d)
          <5>1. \A k \in Devices \ {d} : SameWait(k)
            BY <2>0, <4>3, StepStill, OthersName DEF SameWait, Still
          <5>2. CASE NothingMade /\ JustLooked(d)
            BY <4>1, <5>1, <5>2
          <5>3. CASE \E f \in Files : Makes(d, f)
            BY <2>0, <3>1, <5>1, <5>3, MakesKeeps DEF NamesIInv
          <5>4. QED
            BY <2>0, <4>3, <5>2, <5>3, StepMakes
        <4>4. QED
          BY <3>1, <4>2, <4>3, DocStepKinds DEF NamesIInv
      <3>2. ASSUME NEW f \in Files, Trash(f), UNCHANGED <<created, origin>>
            PROVE  (\A k \in Devices : Looked(k)') /\ TwinsOnlyByRaceOrRepeat'
        <4>1. /\ status' = [status EXCEPT ![f] = "removed"]
              /\ UNCHANGED <<named, pc, name>>
          BY <3>2 DEF Trash, callVars
        <4>2. NothingMade /\ \A k \in Devices : SameWait(k)
          BY <2>0, <4>1 DEF NothingMade, SameWait, Live, TypeOK
        <4>3. QED
          BY <2>0, <3>2, <4>2, NothingMadeKeeps DEF NamesIInv
      <3>3. CASE UNCHANGED namesVars
        <4>1. UNCHANGED <<status, named, pc, name, created, origin>>
          BY <3>3 DEF namesVars, vars, fgVars, driveVars, callVars
        <4>2. NothingMade /\ \A k \in Devices : SameWait(k)
          BY <4>1 DEF NothingMade, SameWait, Live
        <4>3. QED
          BY <2>0, <4>1, <4>2, NothingMadeKeeps DEF NamesIInv
      <3>4. QED
        BY <3>1, <3>2, <3>3 DEF NamesNext
    <2>3. created' \in [Devices -> SUBSET Files]
      BY DEF NamesIInv, NamesNext, Remember, namesVars
    <2>4. QED
      BY <2>1, <2>2, <2>3 DEF NamesIInv
  <1>3. NamesIInv => TwinsOnlyByRaceOrRepeat
    BY DEF NamesIInv
  <1>4. QED
    BY <1>1, <1>2, <1>3, PTL DEF NamesSpec

-----------------------------------------------------------------------------
(* Devices whose syncs do not fail                                         *)

HealthyDropNothing == \A d \in Devices \ Faulty : dropped[d] = {}

\* A device that does not fail drops nothing.
LEMMA NothingDropped == DocSpec => []HealthyDropNothing
  <1>1. DocInit => HealthyDropNothing
    BY DEF DocInit, HealthyDropNothing
  <1>2. DocTypeOK /\ HealthyDropNothing /\ [DocNext]_vars => HealthyDropNothing'
    <2> SUFFICES ASSUME DocTypeOK, HealthyDropNothing, [DocNext]_vars PROVE HealthyDropNothing'
      OBVIOUS
    <2>1. ASSUME NEW d \in Devices, DocStep(d)
          PROVE  UNCHANGED dropped \/ Store(d) \/ Die(d)
      BY <2>1 DEF DocStep, StartSync, Resolve, ReadLocal, WriteSucceeds, Recover, WriteFails,
                  ReadSucceeds, ReadFails, Merge, Forget, LocalEdit, Rename, FilesStep, docVars
    <2>2. ASSUME NEW d \in Devices, Store(d) PROVE HealthyDropNothing'
      BY <2>2 DEF Store, DocTypeOK, HealthyDropNothing
    <2>3. ASSUME NEW d \in Devices, Die(d) PROVE HealthyDropNothing'
      BY <2>3 DEF Die, DocTypeOK, HealthyDropNothing
    <2>4. CASE UNCHANGED dropped
      BY <2>4 DEF HealthyDropNothing
    <2>5. QED
      BY <2>1, <2>2, <2>3, <2>4 DEF DocNext, Trash, docVars, vars
  <1>3. QED
    BY <1>1, <1>2, DocTypeCorrect, PTL DEF DocSpec

\* What SPEC.md says of a matching baseline is true of every device whose own syncs run to
\* their end, however often those of the others fail: an upload that passes the guard and
\* meets no newer version removes nothing from the file.
HealthyAreCurrent ==
    [][\A d \in Devices \ Faulty :
          Overwrites(d) /\ version[file[d]] = known[d] => Lost(d) = {}]_vars

THEOREM HealthyAreCurrentHolds == DocSpec => HealthyAreCurrent
  <1>1. /\ DocTypeOK /\ HealthyDropNothing
        /\ [\A d \in Devices : Overwrites(d) =>
               \/ version[file[d]] > known[d]
               \/ Lost(d) \subseteq dropped[d]]_vars
        => [\A d \in Devices \ Faulty :
               Overwrites(d) /\ version[file[d]] = known[d] => Lost(d) = {}]_vars
    <2>1. DocTypeOK => \A d \in Devices : known[d] \in Nat
      BY DocConstants DEF DocTypeOK, TypeOK
    <2>2. ASSUME NEW n \in Nat PROVE ~(n > n)
      OBVIOUS
    <2>3. QED
      BY <2>1, <2>2 DEF HealthyDropNothing
  <1>2. QED
    BY <1>1, DocTypeCorrect, NothingDropped, NoSilentLossHolds, PTL
       DEF NoSilentLoss, HealthyAreCurrent

\* So MatchingBaselineIsCurrent, which a sync that dies refutes, holds where none dies.
THEOREM MatchingBaselineIsCurrentHolds ==
  ASSUME Faulty = {}
  PROVE  DocSpec => MatchingBaselineIsCurrent
  <1>1. [\A d \in Devices \ Faulty :
            Overwrites(d) /\ version[file[d]] = known[d] => Lost(d) = {}]_vars
        => [\A d \in Devices :
               Overwrites(d) /\ version[file[d]] = known[d] => Lost(d) = {}]_vars
    OBVIOUS
  <1>2. QED
    BY <1>1, HealthyAreCurrentHolds, PTL DEF HealthyAreCurrent, MatchingBaselineIsCurrent

-----------------------------------------------------------------------------
(* The engine uses the guarded files of GuardedFile                        *)

LEMMA ReturnPromise ==
  ASSUME PromiseIInv, NEW d \in Devices, Return(d)
  PROVE  PromiseIInv' /\ Guarded!GFNext
  <1>1. d \in Calls /\ TypeOK /\ TypeOK' /\ IInv'
    BY ReturnType, ReturnIInv, DocConstants DEF PromiseIInv, IInv
  <1>2. UNCHANGED <<driveVars, baseline, pc, known, got, tries, histVars>> /\ pc[d] = "idle"
    BY DEF Return
  <1>3. PromiseIInv'
    BY <1>1, <1>2 DEF PromiseIInv, FirstAttempt
  <1>4. \A j \in Calls \ {d} : Still(j) /\ tries'[j] = tries[j]
    BY <1>1, <1>2 DEF Return, Still, TypeOK
  <1>5. Guarded!Moves(d) /\ Guarded!To(d, Stage(d)')
    BY <1>1, <1>4, OwnMoves
  <1>6. Stage(d) = "idle" /\ Stage(d)' = "idle"
    BY <1>2 DEF Stage
  <1>7. Guarded!Work(d)
    BY <1>1, <1>2, <1>5, <1>6, HistoryGiven
       DEF Guarded!Work, Guarded!Unadmitted, GivenSame, driveVars
  <1>8. QED
    BY <1>1, <1>3, <1>5, <1>7 DEF Guarded!GFNext, Guarded!CallStep

LEMMA TrashPromise ==
  ASSUME PromiseIInv, NEW f \in Files, Trash(f)
  PROVE  PromiseIInv' /\ Guarded!GFNext
  <1>1. TypeOK /\ IInv'
    BY TrashIInv DEF PromiseIInv, IInv
  <1>2. \A k \in Calls : FirstAttempt(k)'
    BY DEF Trash, callVars, PromiseIInv, FirstAttempt
  <1>3. Guarded!GFNext
    BY <1>1, ElsewherePromise DEF Trash
  <1>4. QED
    BY <1>1, <1>2, <1>3 DEF PromiseIInv

LEMMA StutterPromise ==
  ASSUME PromiseIInv, UNCHANGED fgVars
  PROVE  PromiseIInv' /\ UNCHANGED Guarded!gfVars
  <1>1. IInv'
    BY StutterIInv DEF PromiseIInv
  <1>2. \A k \in Calls : FirstAttempt(k)'
    BY DEF fgVars, callVars, PromiseIInv, FirstAttempt
  <1>3. UNCHANGED Guarded!gfVars
    BY HistoryGiven DEF fgVars, driveVars, callVars, Guarded!gfVars, GivenSame, Stage
  <1>4. QED
    BY <1>1, <1>2, <1>3 DEF PromiseIInv

\* Whatever the engine, its callbacks and its users do, the files they share are changed
\* only as GuardedFile allows.
THEOREM EngineKeepsPromise == DocSpec => KeepsPromise
  <1>1. DocInit => PromiseIInv /\ Guarded!GFInit
    BY InitPromise DEF DocInit
  <1>2. DocTypeOK /\ PromiseIInv /\ [DocNext]_vars
          => PromiseIInv' /\ [Guarded!GFNext]_Guarded!gfVars
    <2> SUFFICES ASSUME DocTypeOK, PromiseIInv, [DocNext]_vars
                 PROVE  PromiseIInv' /\ [Guarded!GFNext]_Guarded!gfVars
      OBVIOUS
    <2>1. ASSUME NEW d \in Devices, StartCall(d) \/ CallStep(d)
          PROVE  PromiseIInv' /\ [Guarded!GFNext]_Guarded!gfVars
      BY <2>1, StepPromiseIInv, StepPromise, DocConstants
    <2>2. CASE UNCHANGED fgVars
      BY <2>2, StutterPromise
    <2>3. QED
      BY <2>1, <2>2, ReturnPromise, TrashPromise, DocStepKinds DEF DocNext, vars
  <1>3. QED
    BY <1>1, <1>2, DocTypeCorrect, PTL DEF DocSpec, KeepsPromise, Guarded!GFSpec
===============================================================================
