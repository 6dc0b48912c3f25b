--------------------------- MODULE MCProjectGate ---------------------------
(* Constants for model checking ProjectGate.                               *)
EXTENDS ProjectGate, TLC

CONSTANTS p1, p2, p3

TwoProcs == {p1, p2}
ThreeProcs == {p1, p2, p3}
TwoProcsSymmetry == Permutations(TwoProcs)
ThreeProcsSymmetry == Permutations(ThreeProcs)

\* Which commands the user runs one at a time.
AnyNumber == {}
CaptureEnds == {"capture accept", "capture discard"}

\* Which commands run.
WithoutCaptureAccept == Commands \ {"capture accept"}
WithoutHostAccess == Commands \ {"host access"}
AcceptAndHostAccess == {"capture accept", "host access"}
=============================================================================
