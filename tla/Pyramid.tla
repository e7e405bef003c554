------------------------------ MODULE Pyramid ------------------------------
(***************************************************************************)
(* The scale loop of PNet() and detectMaxFace, and SetMinFace.  The floats *)
(* minl and m are fixed-point and rounded at each step, more coarsely than *)
(* the program rounds; Inf is the float's infinity.                        *)
(***************************************************************************)
EXTENDS Integers, Sequences

CONSTANTS Sides,     \* the shorter side of an image, in pixels
          MinSizes,  \* arguments of SetMinFace; a negative one leaves no scale
          MaxScales, \* bound: length of scales_
          MaxCalls   \* bound: images

\* The fixed point is fine enough for sides up to 1500 pixels: beyond, rounding
\* m loses a pixel of minl that the float keeps.  The camera's are 480.
ASSUME PyramidAssumption == /\ Sides \subseteq {s \in Nat : s <= 1500}
                            /\ MinSizes \subseteq Nat
                            /\ {MaxScales, MaxCalls} \subseteq Nat

VARIABLES pc, call,   \* "idle" or "loop"; images so far
          minsize,    \* the member
          side, asked, \* of the image; minsize when the call began (history)
          minl, m,    \* thousandths of a pixel; hundred-thousandths
          scales      \* scales_, descending

pyramidVars == <<pc, call, minsize, side, asked, minl, m, scales>>

MIN_DET_SIZE == 12
Pixel        == 1000
Unit         == 100000
Inf          == 2000000000

Round(n, d) == (2 * n + d) \div (2 * d)

\* (float)MIN_DET_SIZE / minsize.
FirstScale == IF minsize = 0 THEN Inf ELSE Round(MIN_DET_SIZE * Unit, minsize)

\* minl *= m; 0 * inf is NaN, which the loop's test rejects as it does 0.
FirstMinl(s, f) == IF f = Inf THEN IF s = 0 THEN 0 ELSE Inf
                   ELSE Round(s * f, Unit \div Pixel)

Halved(x) == IF x = Inf THEN Inf ELSE x \div 2       \* mutant of Reduced

\* x * pre_facetor.
Reduced(x) == IF x = Inf THEN Inf ELSE Round(x * 709, 1000)

OneMore(x)   == x > Reduced(MIN_DET_SIZE * Pixel)    \* mutant of Above
Unlimited(x) == x # 0                                \* mutant of Above
Above(x)     == x > MIN_DET_SIZE * Pixel
-----------------------------------------------------------------------------
PyramidInit ==
  /\ pc = "idle" /\ call = 0 /\ minsize = 40 /\ side = 0 /\ asked = 40
  /\ minl = 0 /\ m = 0 /\ scales = <<>>

SetMinFace == /\ pc = "idle" /\ minsize' \in MinSizes
              /\ UNCHANGED <<pc, call, side, asked, minl, m, scales>>

Begin == /\ pc = "idle" /\ call < MaxCalls
         /\ pc' = "loop" /\ call' = call + 1 /\ side' \in Sides /\ asked' = minsize
         /\ m' = FirstScale /\ minl' = FirstMinl(side', m') /\ scales' = <<>>
         /\ UNCHANGED minsize

PushScale == /\ pc = "loop" /\ Above(minl) /\ Len(scales) < MaxScales
             /\ scales' = Append(scales, m)
             /\ minl' = Reduced(minl) /\ m' = Reduced(m)
             /\ UNCHANGED <<pc, call, minsize, side, asked>>

\* PNet() runs the network at these scales, detectMaxFace in ascending order.
EndLoop == /\ pc = "loop" /\ ~Above(minl) /\ pc' = "idle"
           /\ UNCHANGED <<call, minsize, side, asked, minl, m, scales>>

Loop        == PushScale \/ EndLoop
PyramidNext == SetMinFace \/ Begin \/ Loop

\* A call is straight-line code; nobody has to call.
PyramidSpec == PyramidInit /\ [][PyramidNext]_pyramidVars /\ WF_pyramidVars(Loop)
-----------------------------------------------------------------------------
\* The side a face of f pixels has at scale k, in pixels.
Seen(f, k) == Round(f * scales[k], Unit)

\* The pyramid misses no size: when the scales are made, every face from
\* minsize up to the shorter side of the image is brought by one of them to
\* the 12 to 17 pixels (12 / 0.709) the first network looks for, unless no
\* face can be larger than minsize.
SizesCovered ==
  pc = "idle" /\ asked > 0 /\ side > asked =>
    \A f \in asked..side : \E k \in DOMAIN scales : Seen(f, k) \in 12..17

\* Every image given to the first network has at least the 12 pixels of one
\* cell: the side is computed from m, the loop's test from minl.
EnoughPixels ==
  asked # 0 => \A k \in DOMAIN scales : side * scales[k] > 11 * Unit

\* The loop ends unless SetMinFace(0) made m infinite, for which nothing
\* checks.
ScalesEnd == (pc = "loop" /\ asked # 0) ~> (pc = "idle")
=============================================================================
