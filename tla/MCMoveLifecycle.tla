--------------------------- MODULE MCMoveLifecycle ---------------------------
(* Small instances of MoveLifecycle for TLC.                               *)
EXTENDS MoveLifecycle, TLC

CONSTANTS r1, r2, c1, c2, m1, m2, m3, m4, k1, k2

\* All requests belong to one customer.
OneOwner == [r \in Requests |-> c1]

\* r1 is c1's request, every other one c2's.
TwoOwners == [r \in Requests |-> IF r = r1 THEN c1 ELSE c2]

NoLegacy == {}

\* r2 was confirmed for m1 before deposits existed.
LegacyPair == {<<r2, m1>>}

\* Movers and calls are interchangeable where no legacy pair names one.
Interchangeable == Permutations(Movers) \cup Permutations(Calls)

=============================================================================
