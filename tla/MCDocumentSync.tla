--------------------------- MODULE MCDocumentSync ---------------------------
(* Instances of DocumentSync for TLC. *)
EXTENDS DocumentSync, TLC

CONSTANTS d1, d2, e1

Identity == [d \in Calls |-> d]
EditSets == SUBSET Edits

BySecond == [e \in Edits |-> d2]
=============================================================================
