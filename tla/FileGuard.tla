------------------------------ MODULE FileGuard ------------------------------
(***************************************************************************)
(* The guarded Drive file calls of packages/drive-sync (files.ts), the     *)
(* per-client baselines they keep in IndexedDB (storage.ts) and the retry  *)
(* loop every request goes through (http.ts).                              *)
(*                                                                         *)
(* A client is one browser profile: its tabs share one IndexedDB, so they  *)
(* share one baseline per file.  A call is one pending files.read, write,  *)
(* remove or status; `pc' is the await it is suspended at, and each action *)
(* is the code from one await to the next.  Drive is the external service: *)
(* it stamps every change of a file with the next version.                 *)
(***************************************************************************)
EXTENDS Naturals, FiniteSets

CONSTANTS
    Clients,      \* browser profiles
    Calls,        \* the calls that may be pending at one time
    ClientOf,     \* [Calls -> Clients], the profile a call runs in
    Files,        \* Drive file ids
    Names,        \* file names (within one folder)
    Contents,     \* file contents
    NoContent,    \* what a call that has downloaded nothing holds
    MaxTries,     \* how often http.ts sends one request: MAX_ATTEMPTS, and again
                  \* up to as often when a 401 brings a fresh token
    MaxVersion    \* bound: Drive accepts no change beyond this version

ASSUME ClientOfType == ClientOf \in [Calls -> Clients]
ASSUME FilesAndNames == Files # {} /\ Names # {}
ASSUME MaxTriesPositive == MaxTries \in Nat \ {0}
ASSUME MaxVersionNat == MaxVersion \in Nat

VARIABLES
    \* Drive
    status,       \* status[f]: "absent" (id not minted yet), "live", "removed"
    version,      \* version[f]: 0 while absent
    content,      \* content[f]
    named,        \* named[f]: the name the file was created under
    \* IndexedDB, one per client
    baseline,     \* baseline[c][f]: FileStateRecord.version, 0 when there is none
    \* pending calls
    pc,           \* the await the call is suspended at, "idle" when none
    file,         \* the file id the call works on
    name,         \* WriteOptions.name of a call by name
    known,        \* the version (or, in a status probe, the baseline) it holds
    got,          \* version of the content a read has downloaded
    body,         \* content to upload, or downloaded
    tries,        \* attempt number inside performFetch
    outcome,      \* how the last call ended
    \* history
    restored,     \* restored[c][f]: versions whose content c has downloaded
    wrote         \* wrote[c][f]: versions Drive told c its writes produced

driveVars == <<status, version, content, named>>
callVars == <<pc, file, name, known, got, body, tries, outcome>>
histVars == <<restored, wrote>>
fgVars == <<driveVars, baseline, callVars, histVars>>

AnyFile == CHOOSE f \in Files : TRUE
AnyName == CHOOSE n \in Names : TRUE

Places == {"idle", "sample", "download", "keep", "check", "list", "compare",
           "patch", "create", "record", "delete", "clear",
           "probe", "probeBase", "probeMeta"}
Outcomes == {"none", "done", "null", "failed", "gone",
             "never-restored", "remote-changed", "clean", "drift"}

TypeOK ==
    /\ status \in [Files -> {"absent", "live", "removed"}]
    /\ version \in [Files -> Nat]
    /\ content \in [Files -> Contents \cup {NoContent}]
    /\ named \in [Files -> Names]
    /\ baseline \in [Clients -> [Files -> Nat]]
    /\ pc \in [Calls -> Places]
    /\ file \in [Calls -> Files]
    /\ name \in [Calls -> Names]
    /\ known \in [Calls -> Nat]
    /\ got \in [Calls -> Nat]
    /\ body \in [Calls -> Contents \cup {NoContent}]
    /\ tries \in [Calls -> 0..MaxTries]
    /\ outcome \in [Calls -> Outcomes]
    /\ restored \in [Clients -> [Files -> SUBSET Nat]]
    /\ wrote \in [Clients -> [Files -> SUBSET Nat]]

Init ==
    /\ status = [f \in Files |-> "absent"]
    /\ version = [f \in Files |-> 0]
    /\ content = [f \in Files |-> NoContent]
    /\ named = [f \in Files |-> AnyName]
    /\ baseline = [c \in Clients |-> [f \in Files |-> 0]]
    /\ pc = [k \in Calls |-> "idle"]
    /\ file = [k \in Calls |-> AnyFile]
    /\ name = [k \in Calls |-> AnyName]
    /\ known = [k \in Calls |-> 0]
    /\ got = [k \in Calls |-> 0]
    /\ body = [k \in Calls |-> NoContent]
    /\ tries = [k \in Calls |-> 0]
    /\ outcome = [k \in Calls |-> "none"]
    /\ restored = [c \in Clients |-> [f \in Files |-> {}]]
    /\ wrote = [c \in Clients |-> [f \in Files |-> {}]]

-----------------------------------------------------------------------------
(* Helpers *)

Live(f) == status[f] = "live"
LiveNamed(n) == {f \in Files : Live(f) /\ named[f] = n}

\* What fetchRemoteVersion() returns: 0 stands for null (a 404).
RemoteVersion(f) == IF Live(f) THEN version[f] ELSE 0

Goto(k, place) == pc' = [pc EXCEPT ![k] = place]

\* The call settles; its locals are garbage from here on.
Finish(k, o) ==
    /\ Goto(k, "idle")
    /\ outcome' = [outcome EXCEPT ![k] = o]
    /\ known' = [known EXCEPT ![k] = 0]
    /\ got' = [got EXCEPT ![k] = 0]
    /\ tries' = [tries EXCEPT ![k] = 0]

\* A call that settles without handing a content to its caller.
Settle(k, o) ==
    /\ Finish(k, o)
    /\ body' = [body EXCEPT ![k] = NoContent]
    /\ UNCHANGED <<file, name>>

\* recordBaseline(): setFileState of the client the call runs in.
RecordBaseline(k, v) ==
    baseline' = [baseline EXCEPT ![ClientOf[k]][file[k]] = v]

\* Drive replaces the content of f and stamps the change.
Stamp(f, b) ==
    /\ version[f] < MaxVersion
    /\ version' = [version EXCEPT ![f] = @ + 1]
    /\ content' = [content EXCEPT ![f] = b]

-----------------------------------------------------------------------------
(* Starting a call *)

Start(k, place, f, n, b) ==
    /\ pc[k] = "idle"
    /\ Goto(k, place)
    /\ file' = [file EXCEPT ![k] = f]
    /\ name' = [name EXCEPT ![k] = n]
    /\ body' = [body EXCEPT ![k] = b]
    /\ outcome' = [outcome EXCEPT ![k] = "none"]
    /\ tries' = [tries EXCEPT ![k] = 1]
    /\ UNCHANGED <<known, got, driveVars, baseline, histVars>>

\* A caller holds only ids that Drive has handed out.
StartRead(k, f) == status[f] # "absent" /\ Start(k, "sample", f, AnyName, NoContent)
StartWriteId(k, f, b) == status[f] # "absent" /\ Start(k, "check", f, AnyName, b)
StartWriteName(k, n, b) == Start(k, "list", AnyFile, n, b)
StartRemove(k, f) == status[f] # "absent" /\ Start(k, "delete", f, AnyName, NoContent)
StartStatus(k, f) == status[f] # "absent" /\ Start(k, "probe", f, AnyName, NoContent)

-----------------------------------------------------------------------------
(* read(): version first, then the content, then the baseline *)

Sample(k) ==
    /\ pc[k] = "sample"
    /\ known' = [known EXCEPT ![k] = RemoteVersion(file[k])]
    /\ Goto(k, "download")
    /\ UNCHANGED <<driveVars, baseline, file, name, got, body, tries, outcome, histVars>>

Download(k) ==
    /\ pc[k] = "download"
    /\ Live(file[k])
    /\ got' = [got EXCEPT ![k] = version[file[k]]]
    /\ body' = [body EXCEPT ![k] = content[file[k]]]
    /\ Goto(k, "keep")
    /\ UNCHANGED <<driveVars, baseline, file, name, known, tries, outcome, histVars>>

\* NotFoundError is caught: the caller gets null, the baseline stays.
DownloadMissing(k) ==
    /\ pc[k] = "download"
    /\ ~Live(file[k])
    /\ Settle(k, "null")
    /\ UNCHANGED <<driveVars, baseline, histVars>>

\* The version sampled before the download, not the one Drive has by now.
KeepVersionLate(k) == version[file[k]]
KeepVersion(k) == known[k]

Keep(k) ==
    /\ pc[k] = "keep"
    /\ IF known[k] = 0 THEN UNCHANGED baseline ELSE RecordBaseline(k, KeepVersion(k))
    /\ restored' = [restored EXCEPT ![ClientOf[k]][file[k]] = @ \cup {got[k]}]
    /\ Finish(k, "done")
    /\ UNCHANGED <<driveVars, file, name, body, wrote>>

-----------------------------------------------------------------------------
(* write(): find the file, compare its version with the baseline, upload *)

\* assertNotStale() of a write by id; a 404 falls through to the upload.
Check(k) ==
    /\ pc[k] = "check"
    /\ known' = [known EXCEPT ![k] = RemoteVersion(file[k])]
    /\ Goto(k, IF Live(file[k]) THEN "compare" ELSE "patch")
    /\ UNCHANGED <<driveVars, baseline, file, name, got, body, tries, outcome, histVars>>

\* A write by name updates the first file list() reports, with the version
\* reported there, and creates the file when there is none.
ListFound(k) ==
    /\ pc[k] = "list"
    /\ \E f \in LiveNamed(name[k]) :
        /\ file' = [file EXCEPT ![k] = f]
        /\ known' = [known EXCEPT ![k] = version[f]]
    /\ Goto(k, "compare")
    /\ UNCHANGED <<driveVars, baseline, name, got, body, tries, outcome, histVars>>

AlwaysMissing(n) == TRUE
Missing(n) == LiveNamed(n) = {}

ListEmpty(k) ==
    /\ pc[k] = "list"
    /\ Missing(name[k])
    /\ Goto(k, "create")
    /\ UNCHANGED <<driveVars, baseline, file, name, known, got, body, tries, outcome, histVars>>

Base(k) == baseline[ClientOf[k]][file[k]]
MatchesAny(k) == Base(k) # 0
Matches(k) == Base(k) = known[k]

CompareFresh(k) ==
    /\ pc[k] = "compare"
    /\ Matches(k)
    /\ Goto(k, "patch")
    /\ UNCHANGED <<driveVars, baseline, file, name, known, got, body, tries, outcome, histVars>>

\* RemoteChangedError
CompareStale(k) ==
    /\ pc[k] = "compare"
    /\ ~Matches(k)
    /\ Settle(k, IF Base(k) = 0 THEN "never-restored" ELSE "remote-changed")
    /\ UNCHANGED <<driveVars, baseline, histVars>>

Patch(k) ==
    /\ pc[k] = "patch"
    /\ Live(file[k])
    /\ Stamp(file[k], body[k])
    /\ known' = [known EXCEPT ![k] = version'[file[k]]]
    /\ Goto(k, "record")
    /\ UNCHANGED <<status, named, baseline, file, name, got, body, tries, outcome, histVars>>

\* After a request whose answer was a 429 or 5xx: another attempt, or the
\* error once they are used up.  A lost connection rejects at once.
MayRetryOnceMore(k) == tries[k] <= MaxTries
MayRetry(k) == tries[k] < MaxTries
RetryOrFail(k) ==
    \/ /\ MayRetry(k)
       /\ tries' = [tries EXCEPT ![k] = @ + 1]
       /\ UNCHANGED <<pc, file, name, known, got, body, outcome>>
    \/ Settle(k, "failed")

\* Drive applied the upload but the client never gets the answer.
PatchUnanswered(k) ==
    /\ pc[k] = "patch"
    /\ Live(file[k])
    /\ Stamp(file[k], body[k])
    /\ RetryOrFail(k)
    /\ UNCHANGED <<status, named, baseline, histVars>>

PatchMissing(k) ==
    /\ pc[k] = "patch"
    /\ ~Live(file[k])
    /\ Settle(k, "gone")
    /\ UNCHANGED <<driveVars, baseline, histVars>>

\* Drive mints a fresh id for the multipart upload.
Mint(f, n, b) ==
    /\ status[f] = "absent"
    /\ Stamp(f, b)
    /\ status' = [status EXCEPT ![f] = "live"]
    /\ named' = [named EXCEPT ![f] = n]

Create(k) ==
    /\ pc[k] = "create"
    /\ \E f \in Files :
        /\ Mint(f, name[k], body[k])
        /\ file' = [file EXCEPT ![k] = f]
        /\ known' = [known EXCEPT ![k] = version'[f]]
    /\ Goto(k, "record")
    /\ UNCHANGED <<baseline, name, got, body, tries, outcome, histVars>>

\* Unlike an upload to an id, a repeated create makes a second file.
CreateUnanswered(k) ==
    /\ pc[k] = "create"
    /\ \E f \in Files : Mint(f, name[k], body[k])
    /\ RetryOrFail(k)
    /\ UNCHANGED <<baseline, histVars>>

\* The version Drive answered with becomes the new baseline.
RecordNothing(k) == UNCHANGED baseline
RecordWritten(k) == RecordBaseline(k, known[k])

Record(k) ==
    /\ pc[k] = "record"
    /\ RecordWritten(k)
    /\ wrote' = [wrote EXCEPT ![ClientOf[k]][file[k]] = @ \cup {known[k]}]
    /\ Settle(k, "done")
    /\ UNCHANGED <<driveVars, restored>>

-----------------------------------------------------------------------------
(* remove() *)

Delete(k) ==
    /\ pc[k] = "delete"
    /\ Live(file[k])
    /\ status' = [status EXCEPT ![file[k]] = "removed"]
    /\ \/ Goto(k, "clear") /\ UNCHANGED <<file, name, known, got, body, tries, outcome>>
       \/ Settle(k, "failed")          \* deleted, but the answer is lost
    /\ UNCHANGED <<version, content, named, baseline, histVars>>

DeleteMissing(k) ==
    /\ pc[k] = "delete"
    /\ ~Live(file[k])
    /\ Settle(k, "gone")
    /\ UNCHANGED <<driveVars, baseline, histVars>>

Clear(k) ==
    /\ pc[k] = "clear"
    /\ RecordBaseline(k, 0)            \* clearFileState()
    /\ Settle(k, "done")
    /\ UNCHANGED <<driveVars, histVars>>

-----------------------------------------------------------------------------
(* status(): the remote version and the baseline are read in parallel *)

VerdictLax(b, remote) ==
    IF remote = 0 THEN "gone" ELSE IF b = 0 \/ b = remote THEN "clean" ELSE "drift"
Verdict(b, remote) ==
    IF remote = 0 THEN "gone" ELSE IF b = remote THEN "clean" ELSE "drift"

ProbeMeta(k) ==
    \/ /\ pc[k] = "probe"
       /\ known' = [known EXCEPT ![k] = RemoteVersion(file[k])]
       /\ Goto(k, "probeBase")
       /\ UNCHANGED <<driveVars, baseline, file, name, got, body, tries, outcome, histVars>>
    \/ /\ pc[k] = "probeMeta"
       /\ Settle(k, Verdict(known[k], RemoteVersion(file[k])))
       /\ UNCHANGED <<driveVars, baseline, histVars>>

ProbeBase(k) ==
    \/ /\ pc[k] = "probe"
       /\ known' = [known EXCEPT ![k] = Base(k)]
       /\ Goto(k, "probeMeta")
       /\ UNCHANGED <<driveVars, baseline, file, name, got, body, tries, outcome, histVars>>
    \/ /\ pc[k] = "probeBase"
       /\ Settle(k, Verdict(Base(k), known[k]))
       /\ UNCHANGED <<driveVars, baseline, histVars>>

-----------------------------------------------------------------------------
(* The call fails before its request reaches Drive (token, network, 403),  *)
(* its IndexedDB access throws, or its tab is closed.                      *)
Abort(k) ==
    /\ pc[k] # "idle"
    /\ Settle(k, "failed")
    /\ UNCHANGED <<driveVars, baseline, histVars>>

\* Someone edits the file with another application: no baseline is involved.
ExternalEdit(f, b) ==
    /\ Live(f)
    /\ Stamp(f, b)
    /\ UNCHANGED <<status, named, baseline, callVars, histVars>>

CallStep(k) ==
    \/ Sample(k) \/ Download(k) \/ DownloadMissing(k) \/ Keep(k)
    \/ Check(k) \/ ListFound(k) \/ ListEmpty(k)
    \/ CompareFresh(k) \/ CompareStale(k)
    \/ Patch(k) \/ PatchUnanswered(k) \/ PatchMissing(k)
    \/ Create(k) \/ CreateUnanswered(k) \/ Record(k)
    \/ Delete(k) \/ DeleteMissing(k) \/ Clear(k)
    \/ ProbeMeta(k) \/ ProbeBase(k)
    \/ Abort(k)

StartCall(k) ==
    \/ \E f \in Files : StartRead(k, f) \/ StartRemove(k, f) \/ StartStatus(k, f)
    \/ \E f \in Files, b \in Contents : StartWriteId(k, f, b)
    \/ \E n \in Names, b \in Contents : StartWriteName(k, n, b)

Next ==
    \/ \E k \in Calls : StartCall(k) \/ CallStep(k)
    \/ \E f \in Files, b \in Contents : ExternalEdit(f, b)

Spec == Init /\ [][Next]_fgVars

-----------------------------------------------------------------------------
(* Properties *)

Seen(c, f) == restored[c][f] \cup wrote[c][f]

\* A recorded baseline is never ahead of what its client has been given: the
\* client has restored, or written, the file at that version or a later one,
\* and Drive has reached it.  (files.ts read(): the version is sampled before
\* the download so that an edit that was never received is not marked seen.)
BaselineCovered ==
    \A c \in Clients, f \in Files :
        baseline[c][f] # 0 =>
            \E v \in Seen(c, f) : baseline[c][f] <= v /\ v <= version[f]

\* The step in which an upload of call k reaches Drive.
Overwrites(k) ==
    /\ pc[k] = "patch"
    /\ version'[file[k]] # version[file[k]]
    /\ pc'[k] # "patch" \/ tries'[k] # tries[k]

\* An upload to an existing file replaces only content its client has seen,
\* or content that arrived after the upload's own staleness check: the guard
\* of updateContent() leaves that window and no other, whatever the calls of
\* the same client, of other clients and of other applications do meanwhile.
NoBlindOverwrite ==
    [][\A k \in Calls : Overwrites(k) =>
          /\ known[k] # 0
          /\ \/ version[file[k]] \in Seen(ClientOf[k], file[k])
             \/ version[file[k]] > known[k]]_fgVars

\* As long as a client has one call pending at a time, a write is never
\* refused because of a version its own acknowledged write produced
\* (updateContent(): back-to-back writes never trip the guard on themselves).
RefusalNotSelf ==
    [][\A k \in Calls :
          /\ pc[k] = "compare"
          /\ outcome'[k] \in {"never-restored", "remote-changed"}
          => known[k] \notin wrote[ClientOf[k]][file[k]]]_fgVars

\* As long as a client has one call pending at a time, status() is right when
\* it answers: on changedSinceRestore no write of this client would pass the
\* guard now, and without it the client has seen the reported version or a
\* later one.
ProbeHonest ==
    [][\A k \in Calls :
          pc[k] \in {"probeBase", "probeMeta"} =>
              /\ outcome'[k] = "drift" =>
                    ~Live(file[k]) \/ Base(k) # version[file[k]]
              /\ outcome'[k] = "clean" =>
                    \E v \in Seen(ClientOf[k], file[k]) : v >= Base(k) /\ Base(k) # 0]_fgVars

\* The guard keeps the promise of GuardedFile: the baselines, which it compares, are
\* an implementation of what a client was given, which it promises about.
Stage(k) ==
    IF pc[k] = "idle" THEN "idle"
    ELSE IF pc[k] = "patch" /\ known[k] # 0 THEN "admitted"
    ELSE IF pc[k] = "record" THEN "stored" ELSE "working"

Guarded == INSTANCE GuardedFile
    WITH given <- [c \in Clients |-> [f \in Files |-> Seen(c, f)]],
         stage <- [k \in Calls |-> Stage(k)],
         at <- known, sent <- tries

KeepsPromise == Guarded!GFSpec
==============================================================================
