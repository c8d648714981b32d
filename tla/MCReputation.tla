---------------------------- MODULE MCReputation ----------------------------
(* Small instances of Reputation for TLC.                                  *)
EXTENDS Reputation, TLC

CONSTANTS c1, m1, m2, r1, r2, k1, k2

\* One customer has moved twice with m1.
Authors  == [r \in Reviews |-> c1]
Subjects == [r \in Reviews |-> m1]

Interchangeable == Permutations(Calls)

=============================================================================
