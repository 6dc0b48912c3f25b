---------------------------- MODULE MCRunningVM ----------------------------
(* Constants for model checking RunningVM.                                 *)
EXTENDS RunningVM, TLC

CONSTANTS p1, p2, a1

TwoProcs == {p1, p2}
OneAddress == {a1}
TwoProcsSymmetry == Permutations(TwoProcs)
\* project vm start, project vm exec and zaigr shell root stand for the commands
\* that differ from them only in the session at the end.
MostCommands == Commands \ {"shell", "root exec"}
AnyNumber == {}
=============================================================================
