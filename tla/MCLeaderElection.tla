--------------------------- MODULE MCLeaderElection ---------------------------
(* Instances of LeaderElection for TLC. *)
EXTENDS LeaderElection

NoTabs == {}
TwoTabs == {1, 2}
LastTab == {3}
ThreeTabs == {1, 2, 3}
==============================================================================
