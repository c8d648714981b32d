------------------------------- MODULE MCLists -------------------------------
(* Small instances of Lists for TLC.                                       *)
EXTENDS Lists, TLC

CONSTANTS a, b, c

Interchangeable == Permutations(Rows \ Bare)

=============================================================================
