---------------------------- MODULE MCMoverSearch ----------------------------
(* Small instances of MoverSearch for TLC.                                 *)
EXTENDS MoverSearch

Row(rating, reviews, career, confirmed) ==
  [rating |-> rating, review |-> reviews, career |-> career, confirmed |-> confirmed]

\* Nobody's review, many fair ones, one good one; equal figures, and near ones.
ThreeRows == {Row(0, 0, 2, 0), Row(45, 3, 1, 1), Row(50, 1, 2, 0)}

OtherMovers == {[sum |-> 0, count |-> 0], [sum |-> 20, count |-> 1]}

=============================================================================
