---------------------------- MODULE MCNmsTwoBoxs ----------------------------
(***************************************************************************)
(* Vectors for NmsTwoBoxs: three boxes in a row, A-B and B-C overlapping   *)
(* at 0.5, A-C not, with two scores for each.                              *)
(***************************************************************************)
EXTENDS NmsTwoBoxs

Row(x, s) == [score |-> s, x1 |-> x, y1 |-> 0, x2 |-> x + 12, y2 |-> 12, area |-> 144]

Pool == {Row(x, s) : x \in {0, 4, 8}, s \in {1, 2}}

UpToThree == UNION {[1..n -> Pool] : n \in 0..3}
UpToTwo   == UNION {[1..n -> Pool] : n \in 0..2}
=============================================================================
