-------------------------- MODULE MCVerificationCode --------------------------
(* Small instances of VerificationCode for TLC.                            *)
EXTENDS VerificationCode, TLC

CONSTANTS k1, k2, k3

Interchangeable == Permutations(Calls)

=============================================================================
