----------------------------- MODULE SettleOnce -----------------------------
(***************************************************************************)
(* What a caller may rely on of a promise: once begun it settles, and it   *)
(* settles exactly once.                                                   *)
(***************************************************************************)
VARIABLE outcome

Init == outcome = "idle"
Begin == outcome = "idle" /\ outcome' = "pending"
Settle == outcome = "pending" /\ outcome' \in {"ok", "failed"}
Next == Begin \/ Settle

Spec == Init /\ [][Next]_outcome /\ WF_outcome(Settle)
=============================================================================
