------------------------ MODULE MC_OpnsenseSessions ------------------------
(* Instances of OpnsenseSessions for TLC.                                  *)
EXTENDS OpnsenseSessions, TLC

CONSTANTS m1, m2, l1, l2

TwoMonitors == {m1, m2}
TwoLogs == {l1, l2}
Symmetry == Permutations(TwoMonitors) \cup Permutations(TwoLogs)
=============================================================================
