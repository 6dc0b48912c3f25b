------------------------- MODULE MCImageReplacement -------------------------
(* Constants for model checking ImageReplacement.                          *)
EXTENDS ImageReplacement, TLC

CONSTANTS f1, f2

MCFiles == {f1, f2}
MCTruncatedFiles == {f1}
=============================================================================
