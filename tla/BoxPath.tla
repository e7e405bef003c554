------------------------------ MODULE BoxPath ------------------------------
(***************************************************************************)
(* The geometry of one face candidate on its way through MTCNN::detect:    *)
(* the scales (Pyramid), generateBbox at one of them, then refine after    *)
(* each network.  The networks only choose the four regression offsets,    *)
(* which nothing bounds: fractions of the box's side with denominator      *)
(* Grain, which makes refine exact in 2 * Grain-ths of a pixel.            *)
(***************************************************************************)
EXTENDS Boxes, Pyramid

CONSTANTS Width, Height,  \* img_w, img_h
          Grain,          \* the unit of Offsets: so many to a side of the box
          Offsets         \* regreCoord values the networks may give

ASSUME BoxPathAssumption == /\ {Width, Height, Grain} \subseteq Nat \ {0}
                            /\ Sides = {Smaller(Width, Height)}
                            /\ Offsets \subseteq Int

VARIABLES stage,  \* "scales", "first", "rnet", "second", "onet", "third" or "final"
          box,
          jumped  \* an offset moved a side by more than a quarter of it (history)

vars == <<pyramidVars, stage, box, jumped>>

CeilDiv(n, d) == (n + d - 1) \div d

\* Side of the score map for an image side: resized, then conv 3x3, pool 2x2
\* (rounding up) and two more conv 3x3 of det1.param.
MapSide(length, scale) == CeilDiv(CeilDiv(length * scale, Unit) - 2, 2) - 4

\* round(n / scale) for n >= 0.
ToImage(n, scale) == Round(n * Unit, scale)

WithArea(b) == [b EXCEPT !.area = AreaOf(b)]

\* The box of one score map cell: stride 2, cellsize 12.
Cell(row, col, scale) ==
  WithArea([x1 |-> ToImage(2 * col + 1, scale),  y1 |-> ToImage(2 * row + 1, scale),
            x2 |-> ToImage(2 * col + 13, scale), y2 |-> ToImage(2 * row + 13, scale),
            area |-> 0])

\* round(n / (2 * Grain)): half away from zero.
RoundFine(n) == IF n >= 0 THEN (n + Grain) \div (2 * Grain) ELSE -((Grain - n) \div (2 * Grain))

\* One side after regression, in 2 * Grain-ths: where it starts and how long it is.
Shifted(lo, hi, r, s) ==
  LET len == hi - lo + 1
      a   == 2 * Grain * lo + 2 * r * len
  IN  [from |-> a, len |-> 2 * Grain * hi + 2 * s * len - a + 2 * Grain]

\* The side recentred in a square of the given side, rounded.
Squared(edge, square) ==
  LET a == edge.from + (edge.len - square) \div 2
  IN  <<RoundFine(a), RoundFine(a + square - 2 * Grain)>>

ClipHighOnly(p, size) ==                                   \* mutant of Clip
  <<p[1], IF p[2] > size THEN size - 1 ELSE p[2]>>

\* "boundary check": each end against one edge only.
Clip(p, size) == <<Larger(p[1], 0), IF p[2] > size THEN size - 1 ELSE p[2]>>

\* The loop body of refine: regression, squaring, clipping ...
Moved(b, r) ==
  LET sx     == Shifted(b.x1, b.x2, r[1], r[3])
      sy     == Shifted(b.y1, b.y2, r[2], r[4])
      square == Larger(sx.len, sy.len)
      px     == Clip(Squared(sx, square), Width)
      py     == Clip(Squared(sy, square), Height)
  IN  [b EXCEPT !.x1 = px[1], !.x2 = px[2], !.y1 = py[1], !.y2 = py[2]]

MovedOnly(b, r) == Moved(b, r)                             \* mutant of Refined

\* ... and the area.
Refined(b, r) == WithArea(Moved(b, r))
-----------------------------------------------------------------------------
Init == /\ PyramidInit /\ stage = "scales" /\ jumped = FALSE
        /\ box = [x1 |-> 0, y1 |-> 0, x2 |-> 0, y2 |-> 0, area |-> 0]

Scaling == stage = "scales" /\ PyramidNext /\ UNCHANGED <<stage, box, jumped>>

Generate ==
  /\ stage = "scales" /\ pc = "idle" /\ stage' = "first"
  /\ \E k \in DOMAIN scales :
       \E row \in 0..(MapSide(Height, scales[k]) - 1), col \in 0..(MapSide(Width, scales[k]) - 1) :
         box' = Cell(row, col, scales[k])
  /\ UNCHANGED <<pyramidVars, jumped>>

UpToQuarter(r) == -Grain <= 4 * r /\ 4 * r <= Grain

Refine(from, to) ==
  /\ stage = from /\ stage' = to
  /\ \E r \in [1..4 -> Offsets] : /\ box' = Refined(box, r)
                                  /\ jumped' = (jumped \/ \E i \in 1..4 : ~UpToQuarter(r[i]))
  /\ UNCHANGED pyramidVars

\* RNet and ONet cut the box out of the image and recompute its area.
Network(from, to) == /\ stage = from /\ stage' = to /\ box' = WithArea(box)
                     /\ UNCHANGED <<pyramidVars, jumped>>

Next == \/ Scaling \/ Generate
        \/ Refine("first", "rnet")  \/ Network("rnet", "second")
        \/ Refine("second", "onet") \/ Network("onet", "third")
        \/ Refine("third", "final")

Spec == Init /\ [][Next]_vars
-----------------------------------------------------------------------------
\* No network has moved a side of this box by more than a quarter of it, and
\* minsize was at least the 40 the program sets (FaceMtcnnWrapper.mm:25).
Gentle == ~jumped /\ asked >= 40

\* What copy_cut_border needs: its four margins are never negative, whatever
\* the networks say, and gentle offsets leave a pixel between them.
CutNotEmpty ==
  stage \in {"rnet", "onet"} =>
    /\ 0 <= box.x1 /\ box.x2 <= Width /\ 0 <= box.y1 /\ box.y2 <= Height
    /\ Gentle => box.x1 < box.x2 /\ box.y1 < box.y2

\* The sides with which a box suppresses itself.
Wide(b, mode) ==
  LET w == b.x2 - b.x1
      h == b.y2 - b.y1
  IN  IF mode = "Min" THEN 0 <= w /\ 0 <= h ELSE 2 <= w /\ 2 <= h /\ 4 < w + h

Drains(t, mode) == /\ Suppresses(box, box, t, mode) <=> Wide(box, mode)
                   /\ Gentle => Wide(box, mode)

\* Every nms call on the way is given boxes that suppress themselves, which is
\* what its loop needs to stop (OverrunOnlyIfDegenerate in Nms), unless an
\* offset has left one thin or inverted: with any offsets, only such a box.
NmsDrains == /\ stage = "first"  => Drains(5, "Union")
             /\ stage = "second" => Drains(7, "Union")
             /\ stage = "final"  => Drains(7, "Min")

\* The comment "boundary check" in refine: afterwards both corners of the box
\* are in the image.
BoundaryCheck ==
  stage \in {"rnet", "onet", "final"} => /\ {box.x1, box.x2} \subseteq 0..Width
                                         /\ {box.y1, box.y2} \subseteq 0..Height
=============================================================================
