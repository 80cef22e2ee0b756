-------------------------- MODULE MCDistributedLock --------------------------
(* Model-checking instance of DistributedLock. *)
EXTENDS DistributedLock, TLC

CONSTANTS p1, p2, p3, r1, r2

MCProcs == {p1, p2, p3}
MCResources == {r1, r2}
Symmetry == Permutations(MCProcs) \cup Permutations(MCResources)
=============================================================================
