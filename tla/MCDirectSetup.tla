--------------------------- MODULE MCDirectSetup ---------------------------
(* Constants for model checking DirectSetup.                               *)
EXTENDS DirectSetup

CONSTANTS n1, n2, v1, v2

MCNames == {n1, n2}
MCVersions == {v1, v2}
MCSetups == {<<n1, v1>>, <<n1, v2>>, <<n2, v1>>}
RecoveringCommands == {"setup run", "host access"}
WithShell == {"setup run", "shell"}
=============================================================================
