--------------------------- MODULE MCHostAccess ----------------------------
(* Constants for model checking HostAccess.                                *)
EXTENDS HostAccess, TLC

CONSTANTS p1, p2, j1, j2, d1, d2, s1, s2, h1

TwoProcs == {p1, p2}
TwoProjects == {j1, j2}
OnePath == {d1}
TwoPaths == {d1, d2}
OneSerial == {s1}
TwoSerials == {s1, s2}
OnePort == {h1}
NoPorts == {}
Symmetry ==
  Permutations(TwoProcs) \cup Permutations(TwoProjects) \cup Permutations(TwoSerials)
=============================================================================
