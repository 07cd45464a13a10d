---------------------------- MODULE MCFileGuard -----------------------------
(* Instances of FileGuard for TLC. *)
EXTENDS FileGuard, TLC

CONSTANTS c1, c2, k1, k2

\* One pending call per client.
OneCallEach == (k1 :> c1) @@ (k2 :> c2)

\* Exchanging the two clients together with their calls
\* maps ClientOf to itself and every behaviour to a behaviour.
ClientSymmetry ==
    {p \in Permutations({c1, c2, k1, k2}) :
        /\ p[c1] \in {c1, c2}
        /\ (p[c1] = c1) = (p[k1] = k1)
        /\ p[k1] \in {k1, k2}}

\* How a call ended, and what its locals held, matters in the step that ends it; no
\* action or property asks it of an idle call, and Start overwrites it.
Remembered(k) ==
    IF pc[k] = "idle" THEN <<>>
    ELSE <<pc[k], file[k], name[k], known[k], got[k], body[k], tries[k], outcome[k]>>

WithoutGarbage ==
    <<driveVars, baseline, histVars, [k \in Calls |-> Remembered(k)]>>
=============================================================================
