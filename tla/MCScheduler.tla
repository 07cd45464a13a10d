----------------------------- MODULE MCScheduler -----------------------------
(* Instances of Scheduler for TLC. *)
EXTENDS Scheduler

NoTabs == {}
TwoTabs == {1, 2}
LastTab == {2}
==============================================================================
