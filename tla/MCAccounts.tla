----------------------------- MODULE MCAccounts -----------------------------
(* Small instances of Accounts for TLC.                                    *)
EXTENDS Accounts, TLC

CONSTANTS k1, k2, k3, m1, m2, s1, s2

Interchangeable == Permutations(Calls) \cup Permutations(Moves) \cup Permutations(Services)

=============================================================================
