---------------------------- MODULE MCBaseImages ---------------------------
(* Constants for model checking BaseImages.                                *)
EXTENDS BaseImages, TLC

CONSTANTS p1, p2, j1, j2, a, b

TwoProcs == {p1, p2}
TwoProjects == {j1, j2}
TwoSetups == {a, b}
Symmetry == Permutations(Procs) \cup Permutations(Projects) \cup Permutations(Setups)
=============================================================================
