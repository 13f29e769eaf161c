----------------------------- MODULE MCJobSlots -----------------------------
(* JobSlots for TLC: the job ids are interchangeable.                       *)
EXTENDS JobSlots, TLC

AnyJob == Permutations(Jobs)
=============================================================================
