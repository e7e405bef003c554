------------------------------- MODULE Boxes -------------------------------
(***************************************************************************)
(* struct Bbox and the overlap that MTCNN::nms and MTCNN::nmsTwoBoxs       *)
(* compute inline.  Coordinates, areas and scores are integers (a score is *)
(* an order-preserving code of the float); thresholds are tenths.          *)
(***************************************************************************)
EXTENDS Integers, Sequences, Functions

Larger(a, b)  == IF a >= b THEN a ELSE b
Smaller(a, b) == IF a <= b THEN a ELSE b

Bbox == [score : Int, x1 : Int, y1 : Int, x2 : Int, y2 : Int, area : Int]

\* The value every writer of Bbox::area assigns to it: no "+ 1" on the sides.
AreaOf(b) == (b.x2 - b.x1) * (b.y2 - b.y1)

\* The overlap of two intervals, with the "+ 1" AreaOf does not have.
Extent(lo, hi) == Larger(hi - lo + 1, 0)

Inter(a, b) == Extent(Larger(a.x1, b.x1), Smaller(a.x2, b.x2))
               * Extent(Larger(a.y1, b.y1), Smaller(a.y2, b.y2))

\* n / d > t / 10 as IEEE floats decide it for n >= 0 and t > 0: n / 0 is
\* +inf unless n = 0 (NaN, which no comparison accepts), n / d <= 0 for d < 0.
RatioAbove(n, d, t) == \/ d > 0 /\ 10 * n > t * d
                       \/ d = 0 /\ n > 0

\* IOU > overlap_threshold for the measure named by modelname.
Suppresses(a, b, t, mode) ==
  LET n == Inter(a, b)
  IN  \/ mode = "Union" /\ RatioAbove(n, a.area + b.area - n, t)
      \/ mode = "Min" /\ RatioAbove(n, Smaller(a.area, b.area), t)

Ascending(s) == \A i, j \in DOMAIN s : i < j => s[i].score <= s[j].score

Arrangements(n) == Bijection(1..n, 1..n)

\* What std::sort(cmpScore) may leave in the vector: it is not stable, so any
\* arrangement of s with ascending scores.
SortedByScore(s) ==
  {r \in {[i \in DOMAIN s |-> s[p[i]]] : p \in Arrangements(Len(s))} : Ascending(r)}

\* The contract of greedy suppression: r holds boxes of s, best first, none
\* suppressing another, and every box of s is suppressed by a box of r that
\* scores at least as high.
IsGreedy(s, r, t, mode) ==
  /\ \A k \in DOMAIN r : \E i \in DOMAIN s : r[k] = s[i]
  /\ \A j, k \in DOMAIN r : j # k => ~Suppresses(r[j], r[k], t, mode)
  /\ \A j, k \in DOMAIN r : j < k => r[j].score >= r[k].score
  /\ \A i \in DOMAIN s : \E k \in DOMAIN r : /\ Suppresses(s[i], r[k], t, mode)
                                             /\ s[i].score <= r[k].score

\* The contract of rescanning: of s stay, sorted, the boxes that stand: they
\* do not both overlap and outscore a box of an earlier vector.
Outscores(b, p, t, mode) == Suppresses(b, p, t, mode) /\ b.score > p.score

Standing(s, prev, t, mode) ==
  {i \in DOMAIN s : \A j \in DOMAIN prev : ~Outscores(s[i], prev[j], t, mode)}

Rescanned(s, prev, t, mode) ==
  LET stand   == Standing(s, prev, t, mode)
      lineups == UNION {Bijection(1..n, stand) : n \in 0..Len(s)}
  IN  {r \in {[k \in DOMAIN p |-> s[p[k]]] : p \in lineups} : Ascending(r)}
=============================================================================
