--------------------------- MODULE MCCoverageGate ---------------------------
(* CoverageGate for TLC: invocations of one kind, and commits, are          *)
(* interchangeable.                                                         *)
EXTENDS CoverageGate, TLC

AnyInvocation == Permutations(Workers) \cup Permutations(Floors) \cup Permutations(Heads)
=============================================================================
