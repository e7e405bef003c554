------------------------------- MODULE MCNms -------------------------------
(***************************************************************************)
(* Vectors of up to MaxLen boxes.  The wide boxes are ones generateBbox    *)
(* makes for a 60x60 image with minsize 40 (two scales); the thin ones are *)
(* what the clipping in refine can leave at the right edge of that image.  *)
(***************************************************************************)
EXTENDS Nms

CONSTANT MaxLen, Scores

Rect(x1, y1, x2, y2, s) ==
  [score |-> s, x1 |-> x1, y1 |-> y1, x2 |-> x2, y2 |-> y2,
   area |-> (x2 - x1) * (y2 - y1)]

Wide == UNION {{Rect(3, 3, 43, 43, s), Rect(10, 3, 50, 43, s),
                Rect(23, 23, 63, 63, s), Rect(5, 5, 61, 61, s)} : s \in Scores}
Thin == UNION {{Rect(59, 10, 59, 50, s), Rect(57, 10, 59, 12, s),
                Rect(60, 10, 58, 50, s)} : s \in Scores}

Vectors == UNION {[1..n -> Wide \cup Thin] : n \in 0..MaxLen}
=============================================================================
