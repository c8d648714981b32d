------------------------------ MODULE MCMoverAi ------------------------------
(* Small instances of MoverAi for TLC.                                     *)
EXTENDS MoverAi, TLC

CONSTANTS r1, r2, v1, t1, m1, m2, k1, k2

Interchangeable == Permutations(Regions) \cup Permutations(Movers) \cup Permutations(Calls)

=============================================================================
