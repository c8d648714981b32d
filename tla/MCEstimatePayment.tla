-------------------------- MODULE MCEstimatePayment --------------------------
(* Small instances of EstimatePayment for TLC.                             *)
EXTENDS EstimatePayment, TLC

CONSTANTS k1, k2, x1, x2, x3

Interchangeable == Permutations(Calls) \cup Permutations(Charges)

=============================================================================
