----------------------------- MODULE MCChatRoom -----------------------------
(* Small instances of ChatRoom for TLC.                                    *)
EXTENDS ChatRoom, TLC

CONSTANTS k1, k2, k3, s1, s2

CustomersTabs == [c \in Connections |-> "CUSTOMER"]

Interchangeable == Permutations(Calls) \cup Permutations(Connections)

=============================================================================
