-------------------------- MODULE MCDomainFirewall --------------------------
(* Constants for model checking DomainFirewall.                            *)
EXTENDS DomainFirewall, TLC

CONSTANTS p1, p2, d1, d2

TwoProcs == {p1, p2}
TwoDomains == {d1, d2}
EitherSymmetry == Permutations(TwoProcs) \cup Permutations(TwoDomains)
\* Commands that change the guest's list, and edits of the account's list, one of each at
\* a time.
Syncs == {"shell", "vm start", "setup run"}
=============================================================================
