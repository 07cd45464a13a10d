------------------------- MODULE MCCalendarController -------------------------
(* Instances of CalendarController for TLC. *)
EXTENDS CalendarController, TLC

\* The slots of pending calls are alike.
CallSymmetry == Permutations(Calls)
===============================================================================
