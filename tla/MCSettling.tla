----------------------------- MODULE MCSettling -----------------------------
(***************************************************************************)
(* The components in which something must come to an end: a request to      *)
(* Google, the deletion of a database, the persists of the sync state.      *)
(* They share no state: a behaviour is one of the component named by `part'. *)
(***************************************************************************)
EXTENDS DriveAuth, DataStore, SyncState

VARIABLE part

vars == <<part, authVars, dataVars, stateVars>>

Parts == {"auth", "data", "state"}

MCInit ==
  /\ part \in Parts
  /\ AuthInit /\ DataInit /\ StateInit
  /\ part # "auth" => ~exchange

Rests(p, v) == IF part = p THEN TRUE ELSE UNCHANGED v

MCNext ==
  /\ UNCHANGED part
  /\ \/ part = "auth" /\ AuthNext
     \/ part = "data" /\ DataNext
     \/ part = "state" /\ StateNext
  /\ Rests("auth", authVars) /\ Rests("data", dataVars) /\ Rests("state", stateVars)

MCSpec == MCInit /\ [][MCNext]_vars /\ AuthFairness /\ DataFairness /\ StateFairness
=============================================================================
