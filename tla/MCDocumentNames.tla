-------------------------- MODULE MCDocumentNames --------------------------
(* Instances of DocumentNames for TLC. *)
EXTENDS DocumentNames, TLC

CONSTANTS d1, d2, e1, e2

Identity == [d \in Calls |-> d]
EditSets == SUBSET Edits

OneEditEach == (e1 :> d1) @@ (e2 :> d2)
ByFirst == [e \in Edits |-> d1]

\* The state without the histories that no step and, the type invariant apart,
\* no property of the run reads: those of the names, and `restored'.
DocView == <<driveVars, baseline, callVars, wrote, docVars>>
=============================================================================
