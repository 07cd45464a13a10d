----------------------------- MODULE GuardedFile -----------------------------
(***************************************************************************)
(* What the guarded file calls of packages/drive-sync (files.ts) promise   *)
(* those who share a file, whatever baselines, probes and retries they use *)
(* to keep it.  An upload replaces a file only after its call was admitted *)
(* at a version which its client had been given, or which is older than    *)
(* one it had been given; it may replace what arrived after the admission, *)
(* and one admission is good for MaxTries uploads.  What a client is given *)
(* is what it downloaded and what Drive acknowledged of its own uploads.   *)
(* Any other step of a call leaves the files alone.                        *)
(***************************************************************************)
EXTENDS Naturals

CONSTANTS Clients, Calls, ClientOf, Files, MaxTries

VARIABLES
    status,       \* status[f]: "absent", "live" or "removed"
    version,      \* version[f]: how often Drive has changed f
    given,        \* given[c][f]: the versions of f that client c was given
    stage,        \* stage[k]: "idle", "working", "admitted" or "stored"
    file,         \* the file an admitted call replaces, or a stored one has
    at,           \* the version it was admitted at, or has stored
    sent          \* how often it has sent its request

gfVars == <<status, version, given, stage, file, at, sent>>

GFInit ==
    /\ status = [f \in Files |-> "absent"]
    /\ version = [f \in Files |-> 0]
    /\ given = [c \in Clients |-> [f \in Files |-> {}]]
    /\ stage = [k \in Calls |-> "idle"]
    /\ file \in [Calls -> Files]
    /\ at = [k \in Calls |-> 0]
    /\ sent = [k \in Calls |-> 0]

\* The other calls stay as they are.  What a call holds matters only from its
\* admission on.
Moves(k) ==
    /\ file' = [file EXCEPT ![k] = file'[k]] /\ file'[k] \in Files
    /\ at' = [at EXCEPT ![k] = at'[k]] /\ at'[k] \in Nat
    /\ sent' = [sent EXCEPT ![k] = sent'[k]]
    /\ stage' = [stage EXCEPT ![k] = stage'[k]]

To(k, s) == stage'[k] = s

Give(k, f, v) ==
    given' = [given EXCEPT ![ClientOf[k]][f] = @ \cup {v}]

\* Starting, looking, comparing, probing, failing.
Unadmitted == {"idle", "working"}
Work(k) ==
    /\ stage[k] \in Unadmitted
    /\ UNCHANGED <<status, version>>
    /\ \E s \in Unadmitted : To(k, s)
    /\ UNCHANGED given

\* A download reaches the caller.
Restore(k) ==
    /\ stage[k] = "working"
    /\ UNCHANGED <<status, version>>
    /\ To(k, "idle")
    /\ \E v \in 0..version[file[k]] : Give(k, file[k], v)

\* The staleness guard lets a write pass.
Admit(k) ==
    /\ stage[k] = "working"
    /\ sent[k] = 1
    /\ UNCHANGED <<status, version, file, at, sent>>
    /\ To(k, "admitted")
    /\ \E v \in given[ClientOf[k]][file[k]] : at[k] <= v
    /\ UNCHANGED given

\* Drive stores the file f at the version v.
Stores(k, f, v) ==
    /\ version' = [version EXCEPT ![f] = v]
    /\ \/ To(k, "stored") /\ file'[k] = f /\ at'[k] = v
       \/ To(k, "idle")     \* the call fails all the same

Resends(k) ==
    /\ sent[k] < MaxTries
    /\ sent' = [sent EXCEPT ![k] = @ + 1]
    /\ UNCHANGED <<stage, file, at>>

Upload(k) ==
    /\ stage[k] = "admitted"
    /\ status[file[k]] = "live"
    /\ \/ Stores(k, file[k], version[file[k]] + 1)
       \/ version' = [version EXCEPT ![file[k]] = @ + 1] /\ Resends(k)
    /\ UNCHANGED <<status, given>>

\* Nobody has seen the file a call creates.
Create(k) ==
    /\ stage[k] = "working"
    /\ \E f \in Files :
        /\ status[f] = "absent"
        /\ status' = [status EXCEPT ![f] = "live"]
        /\ \/ Stores(k, f, version[f] + 1)
           \/ version' = [version EXCEPT ![f] = @ + 1] /\ Resends(k)
    /\ UNCHANGED given

\* Drive's answer to an upload reaches the caller.
Acknowledge(k) ==
    /\ stage[k] = "stored"
    /\ UNCHANGED <<status, version>>
    /\ To(k, "idle")
    /\ Give(k, file[k], at[k])

\* remove() has no guard.
Delete(k) ==
    /\ stage[k] = "working"
    /\ status[file[k]] = "live"
    /\ status' = [status EXCEPT ![file[k]] = "removed"]
    /\ UNCHANGED version
    /\ \E s \in Unadmitted : To(k, s)
    /\ UNCHANGED given

GiveUp(k) ==
    /\ stage[k] \notin Unadmitted
    /\ To(k, "idle")
    /\ UNCHANGED <<status, version, given>>

\* Others change or remove the file, and no call advances.
Elsewhere(f) ==
    /\ status[f] = "live"
    /\ \/ /\ version' = [version EXCEPT ![f] = @ + 1]
          /\ UNCHANGED status
       \/ /\ status' = [status EXCEPT ![f] = "removed"]
          /\ UNCHANGED version
    /\ UNCHANGED <<given, stage, file, at, sent>>

CallStep(k) ==
    \/ Work(k) \/ Restore(k) \/ Admit(k) \/ Upload(k) \/ Create(k)
    \/ Acknowledge(k) \/ Delete(k) \/ GiveUp(k)

GFNext ==
    \/ \E k \in Calls : Moves(k) /\ CallStep(k)
    \/ \E f \in Files : Elsewhere(f)

GFSpec == GFInit /\ [][GFNext]_gfVars

\* What an upload to a file replaces, its client was given, or it is newer than the
\* version the upload was admitted at.
Uploads(k) ==
    /\ stage[k] = "admitted"
    /\ version'[file[k]] # version[file[k]]
    /\ stage'[k] # "admitted" \/ sent'[k] # sent[k]
Replaceable(k) ==
    \/ version[file[k]] \in given[ClientOf[k]][file[k]]
    \/ version[file[k]] > at[k]
SeesWhatItReplaces == \A k \in Calls : Uploads(k) => Replaceable(k)

NoBlindUpload == [][SeesWhatItReplaces]_gfVars
==============================================================================
