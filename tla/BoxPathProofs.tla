--------------------------- MODULE BoxPathProofs ---------------------------
(***************************************************************************)
(* The scale loop and the geometry of a box, for every image the module's  *)
(* assumptions allow: the rounding errors of the loop stay small, the clip *)
(* of refine keeps margins for any offsets, and gentle ones take no more   *)
(* than half of a side at each refinement.                                 *)
(***************************************************************************)
EXTENDS BoxPath, TLAPS

LEMMA TimesMonotone ==
  ASSUME NEW a \in Int, NEW b \in Int, NEW s \in Nat, a <= b
  PROVE  s * a <= s * b
OBVIOUS

LEMMA DivBounds ==
  ASSUME NEW n \in Int, NEW d \in Nat \ {0}
  PROVE  n \div d \in Int /\ d * (n \div d) <= n /\ n < d * (n \div d) + d
OBVIOUS

\* Round is within a half of the quotient.
LEMMA RoundBounds ==
  ASSUME NEW n \in Nat, NEW d \in Nat \ {0}
  PROVE  /\ Round(n, d) \in Nat
         /\ 2 * (d * Round(n, d)) <= 2 * n + d
         /\ 2 * n + d < 2 * (d * Round(n, d)) + 2 * d
<1> DEFINE a == 2 * n + d
           c == 2 * d
           q == a \div c
<1>1. a \in Nat /\ c \in Nat \ {0}
  OBVIOUS
<1>2. Round(n, d) = q
  BY DEF Round
<1>3. q \in Int /\ c * q <= a /\ a < c * q + c
  <2> HIDE DEF a, c
  <2> QED
    BY <1>1, DivBounds
<1> HIDE DEF q
<1>4. c * q = 2 * (d * q)
  BY <1>3
<1>5. q \in Nat
  <2> HIDE DEF a, c
  <2> SUFFICES ASSUME q <= -1 PROVE FALSE
    BY <1>3
  <2>1. c * q <= c * (-1)
    BY <1>1, <1>3, TimesMonotone
  <2> QED
    BY <1>1, <1>3, <2>1
<1> QED
  BY <1>2, <1>3, <1>4, <1>5
-----------------------------------------------------------------------------
\* One multiplication by 0.709.
LEMMA ReducedBounds ==
  ASSUME NEW x \in Nat, x < Inf
  PROVE  /\ Reduced(x) \in Nat /\ Reduced(x) <= x
         /\ 1000 * Reduced(x) <= 709 * x + 500
         /\ 709 * x <= 1000 * Reduced(x) + 500
<1>1. Reduced(x) = (1418 * x + 1000) \div 2000
  BY DEF Reduced, Round, Inf
<1> QED
  BY <1>1

\* minl (l) is the side s scaled by m (f), up to the rounding of the fixed
\* point: the loop's test and the size of the scaled image agree.
Close(s, l, f) == /\ f \in Nat /\ f <= 1200000 /\ l \in Nat /\ l <= 18000001
                  /\ 100 * l - s * f <= 2 * (100 + s)
                  /\ s * f - 100 * l <= 2 * (100 + s)

LEMMA FirstClose ==
  ASSUME NEW s \in Nat, s <= 1500, NEW f \in Nat, f <= 1200000
  PROVE  Close(s, FirstMinl(s, f), f)
<1> DEFINE p == s * f
<1>1. p \in Nat /\ p <= 1800000000
  <2>1. f * s <= f * 1500
    BY TimesMonotone
  <2> QED
    BY <2>1
<1> HIDE DEF p
<1>2. FirstMinl(s, f) = (2 * p + 100) \div 200
  BY DEF FirstMinl, Round, Unit, Pixel, Inf, p
<1> QED
  BY <1>1, <1>2 DEF Close, p

\* Multiplying both by 0.709 does not accumulate the error.
LEMMA ReducedClose ==
  ASSUME NEW s \in Nat, s <= 1500, NEW l, NEW f, Close(s, l, f)
  PROVE  Close(s, Reduced(l), Reduced(f))
<1> DEFINE g == Reduced(f)
           k == Reduced(l)
           p == s * f
           q == s * g
<1>1. /\ f \in Nat /\ l \in Nat /\ f <= 1200000 /\ l <= 18000001
      /\ 100 * l - p <= 2 * (100 + s) /\ p - 100 * l <= 2 * (100 + s)
  BY DEF Close
<1>2. g \in Nat /\ g <= f /\ 1000 * g <= 709 * f + 500 /\ 709 * f <= 1000 * g + 500
  BY <1>1, ReducedBounds DEF Inf
<1>3. k \in Nat /\ k <= l /\ 1000 * k <= 709 * l + 500 /\ 709 * l <= 1000 * k + 500
  BY <1>1, ReducedBounds DEF Inf
<1> HIDE DEF g, k
<1>4. 1000 * q <= 709 * p + 500 * s /\ 709 * p <= 1000 * q + 500 * s /\ q \in Int /\ p \in Int
  <2>1. s * (1000 * g) <= s * (709 * f + 500) /\ s * (709 * f) <= s * (1000 * g + 500)
    BY <1>1, <1>2, TimesMonotone
  <2>2. s * (1000 * g) = 1000 * q /\ s * (709 * f + 500) = 709 * p + 500 * s
    BY <1>1, <1>2
  <2>3. s * (709 * f) = 709 * p /\ s * (1000 * g + 500) = 1000 * q + 500 * s
    BY <1>1, <1>2
  <2> QED
    BY <2>1, <2>2, <2>3, <1>1, <1>2
<1> HIDE DEF p, q
<1>5. 100 * k - q <= 2 * (100 + s) /\ q - 100 * k <= 2 * (100 + s)
  BY <1>1, <1>3, <1>4
<1> QED
  BY <1>1, <1>2, <1>3, <1>5 DEF Close, g, k, q

\* While the loop goes on, the scaled image has more than 11 pixels.
LEMMA AboveEnough ==
  ASSUME NEW s \in Nat, s <= 1500, NEW l, NEW f, Close(s, l, f), Above(l)
  PROVE  s * f > 11 * Unit /\ f # 0
<1> DEFINE p == s * f
<1>1. p \in Int /\ (f = 0 => p = 0)
  BY DEF Close
<1>2. l > 12000 /\ l \in Int /\ p - 100 * l <= 2 * (100 + s) /\ 100 * l - p <= 2 * (100 + s)
  BY DEF Close, Above, MIN_DET_SIZE, Pixel
<1> HIDE DEF p
<1>3. p > 1100000
  BY <1>1, <1>2
<1> QED
  BY <1>1, <1>3 DEF Unit, p

\* When it ends, the last scale g has brought the image to less than 17.5.
LEMMA EndBound ==
  ASSUME NEW s \in Nat, s <= 1500, NEW l, NEW g \in Nat, g <= 1200000, Close(s, l, Reduced(g)), ~Above(l)
  PROVE  s * g < 1750000
<1> DEFINE f == Reduced(g)
           p == s * f
           q == s * g
<1>1. f \in Nat /\ 709 * g <= 1000 * f + 500
  BY ReducedBounds DEF Inf
<1>2. l \in Int /\ l <= 12000 /\ p - 100 * l <= 2 * (100 + s)
  BY DEF Close, Above, MIN_DET_SIZE, Pixel
<1> HIDE DEF f
<1>3. 709 * q <= 1000 * p + 500 * s /\ p \in Int /\ q \in Int
  <2>1. s * (709 * g) <= s * (1000 * f + 500)
    BY <1>1, TimesMonotone
  <2>2. s * (709 * g) = 709 * q /\ s * (1000 * f + 500) = 1000 * p + 500 * s
    BY <1>1
  <2> QED
    BY <2>1, <2>2, <1>1
<1> HIDE DEF p, q
<1>4. q < 1750000
  BY <1>2, <1>3
<1> QED
  BY <1>4 DEF q

LEMMA FirstScaleBounds ==
  ASSUME minsize \in Nat \ {0}
  PROVE  /\ FirstScale \in Nat /\ FirstScale <= 1200000
         /\ minsize >= 40 => FirstScale <= 30000
         /\ 2 * (minsize * FirstScale) <= 2400000 + minsize
         /\ 2 * (minsize * FirstScale) > 2400000 - minsize
<1> DEFINE f == FirstScale
           p == minsize * f
<1>1. f = Round(1200000, minsize)
  BY DEF FirstScale, MIN_DET_SIZE, Unit
<1> HIDE DEF f
<1>2. f \in Nat /\ p \in Int /\ 2 * p <= 2400000 + minsize /\ 2 * p > 2400000 - minsize
  <2>1. /\ Round(1200000, minsize) \in Nat
        /\ 2 * (minsize * Round(1200000, minsize)) <= 2 * 1200000 + minsize
        /\ 2 * 1200000 + minsize < 2 * (minsize * Round(1200000, minsize)) + 2 * minsize
    BY RoundBounds
  <2> QED
    BY <1>1, <2>1
<1>3. f <= 1200000
  <2> SUFFICES ASSUME f >= 1200001 PROVE FALSE
    BY <1>2
  <2>1. minsize * 1200001 <= p
    BY <1>2, TimesMonotone
  <2> HIDE DEF p
  <2> QED
    BY <1>2, <2>1
<1>4. ASSUME minsize >= 40 PROVE f <= 30000
  <2> SUFFICES ASSUME f >= 30001 PROVE FALSE
    BY <1>2
  <2>1. minsize * 30001 <= p
    BY <1>2, TimesMonotone
  <2> HIDE DEF p
  <2> QED
    BY <1>2, <1>4, <2>1
<1> QED
  BY <1>2, <1>3, <1>4 DEF f

\* An image larger than minsize has at least one scale.
LEMMA FirstAbove ==
  ASSUME minsize \in Nat \ {0}, NEW s \in Nat, s <= 1500, s > minsize
  PROVE  Above(FirstMinl(s, FirstScale))
<1> DEFINE f == FirstScale
           p == minsize * f
           q == s * f
<1>1. f \in Nat /\ f <= 1200000 /\ 2 * p > 2400000 - minsize
  BY FirstScaleBounds
<1> HIDE DEF f
<1>2. 2 * f >= minsize + 99
  <2> SUFFICES ASSUME 2 * f <= minsize + 98 PROVE FALSE
    BY <1>1
  <2>1. minsize * (2 * f) <= minsize * 1597
    BY <1>1, TimesMonotone
  <2>2. minsize * (2 * f) = 2 * p
    BY <1>1
  <2> HIDE DEF p
  <2> QED
    BY <1>1, <2>1, <2>2
<1>3. q >= p + f /\ q \in Int /\ p \in Int
  <2>1. f * (minsize + 1) <= f * s
    BY <1>1, TimesMonotone
  <2>2. f * (minsize + 1) = p + f /\ f * s = q
    BY <1>1
  <2> QED
    BY <2>1, <2>2, <1>1
<1> HIDE DEF p
<1>4. FirstMinl(s, f) = (2 * q + 100) \div 200
  BY <1>1 DEF FirstMinl, Round, Unit, Pixel, Inf
<1> HIDE DEF q
<1>5. (2 * q + 100) \div 200 > 12000
  BY <1>1, <1>2, <1>3
<1> QED
  BY <1>4, <1>5 DEF Above, MIN_DET_SIZE, Pixel, f

LEMMA ReducedType == \A x \in Nat : Reduced(x) \in Nat
<1> TAKE x \in Nat
<1>1. x * 709 \in Nat /\ Round(x * 709, 1000) \in Nat
  BY RoundBounds
<1> QED
  BY <1>1 DEF Reduced, Inf

LEMMA FirstType ==
  ASSUME minsize \in Nat, NEW s \in Nat
  PROVE  FirstScale \in Nat /\ FirstMinl(s, FirstScale) \in Nat
<1>1. FirstScale \in Nat
  <2>1. minsize # 0 => Round(1200000, minsize) \in Nat
    BY RoundBounds
  <2> QED
    BY <2>1 DEF FirstScale, MIN_DET_SIZE, Unit, Inf
<1>2. \A f \in Nat : FirstMinl(s, f) \in Nat
  <2> TAKE f \in Nat
  <2>1. s * f \in Nat
    OBVIOUS
  <2>2. Round(s * f, 100) \in Nat
    BY <2>1, RoundBounds
  <2> QED
    BY <2>2 DEF FirstMinl, Unit, Pixel, Inf
<1> QED
  BY <1>1, <1>2

\* From 1150000 up a face has 12 pixels, below 1750000 at most 17.
LEMMA RightSize ==
  ASSUME NEW n \in Nat, n >= 1150000, n < 1750000
  PROVE  Round(n, Unit) \in 12..17
<1>1. Round(n, Unit) = (2 * n + 100000) \div 200000
  BY DEF Round, Unit
<1>2. (2 * n + 100000) \div 200000 >= 12 /\ (2 * n + 100000) \div 200000 <= 17
  OBVIOUS
<1> QED
  BY <1>1, <1>2

\* The first scale shows every face from minsize up with 12 pixels or more.
LEMMA FirstReaches ==
  ASSUME minsize \in Nat \ {0}, NEW f \in Nat, minsize <= f, f <= 1500
  PROVE  f * FirstScale >= 1150000
<1> DEFINE k == FirstScale
           p == minsize * k
           q == f * k
<1>1. k \in Nat /\ 2 * p > 2400000 - minsize
  BY FirstScaleBounds
<1> HIDE DEF k
<1>2. p <= q /\ p \in Int /\ q \in Int
  <2>1. k * minsize <= k * f
    BY <1>1, TimesMonotone
  <2> QED
    BY <2>1, <1>1
<1> HIDE DEF p, q
<1>3. q >= 1150000
  BY <1>1, <1>2
<1> QED
  BY <1>3 DEF q, k

\* A face that has 12 pixels now and will not at the next scale has at most 17.
LEMMA NowOrNext ==
  ASSUME NEW f \in Nat, f <= 1500, NEW k \in Nat, k <= 1200000, f * k >= 1150000
  PROVE  f * Reduced(k) >= 1150000 \/ Round(f * k, Unit) \in 12..17
<1> DEFINE g == Reduced(k)
           p == f * k
           q == f * g
<1>1. g \in Nat /\ 709 * k <= 1000 * g + 500
  BY ReducedBounds DEF Inf
<1> HIDE DEF g
<1>2. 709 * p <= 1000 * q + 500 * f /\ p \in Nat /\ q \in Nat
  <2>1. f * (709 * k) <= f * (1000 * g + 500)
    BY <1>1, TimesMonotone
  <2>2. f * (709 * k) = 709 * p /\ f * (1000 * g + 500) = 1000 * q + 500 * f
    BY <1>1
  <2> QED
    BY <2>1, <2>2, <1>1
<1>3. p >= 1150000
  OBVIOUS
<1> HIDE DEF p, q
<1>4. q < 1150000 => p < 1750000
  BY <1>2
<1>5. q >= 1150000 \/ Round(p, Unit) \in 12..17
  BY <1>2, <1>3, <1>4, RightSize
<1> QED
  BY <1>5 DEF p, q, g

\* A face that would still have 12 pixels at the next scale has at most 17 at
\* this one if the whole image has.
LEMMA LastReaches ==
  ASSUME NEW s \in Nat, NEW f \in Nat, f <= s, NEW g \in Nat, g <= 1200000,
         s * g < 1750000, f * Reduced(g) >= 1150000
  PROVE  Round(f * g, Unit) \in 12..17
<1> DEFINE k == Reduced(g)
           p == f * g
<1>1. k \in Nat /\ k <= g
  BY ReducedBounds DEF Inf
<1> HIDE DEF k
<1>2. f * k <= p /\ p \in Nat /\ f * k \in Nat
  BY <1>1, TimesMonotone
<1>3. p <= s * g
  <2>1. g * f <= g * s
    BY TimesMonotone
  <2> QED
    BY <2>1
<1>4. f * k >= 1150000
  BY DEF k
<1> HIDE DEF p
<1>5. p >= 1150000 /\ p < 1750000
  <2> DEFINE q == f * k
             r == s * g
  <2>1. q <= p /\ q \in Nat /\ p <= r /\ r \in Nat /\ q >= 1150000 /\ r < 1750000
    BY <1>2, <1>3, <1>4
  <2> HIDE DEF q, r
  <2> QED
    BY <2>1, <1>2
<1>6. Round(p, Unit) \in 12..17
  BY <1>2, <1>5, RightSize
<1> QED
  BY <1>6 DEF p
-----------------------------------------------------------------------------
PyramidTypes == /\ pc \in {"idle", "loop"} /\ {minsize, asked, minl, m} \subseteq Nat
                /\ side \in Nat /\ side <= 1500 /\ scales \in Seq(Nat)

FixedPointInv == asked # 0 => Close(side, minl, m)

Covered(f) == \E k \in DOMAIN scales : Seen(f, k) \in 12..17

\* A face no scale so far has brought to size will have at least 12 pixels at
\* the next one, and there will be a next one unless there was one.
CoverInv ==
  pc = "loop" /\ asked # 0 /\ side > asked =>
    /\ \A f \in asked..side : f * m >= 1150000 \/ Covered(f)
    /\ scales = <<>> => Above(minl)
    /\ scales # <<>> => /\ m = Reduced(scales[Len(scales)])
                        /\ scales[Len(scales)] <= 1200000

PyramidInv == PyramidTypes /\ FixedPointInv /\ EnoughPixels /\ CoverInv /\ SizesCovered

LEMMA PyramidInitInv == PyramidInit => PyramidInv
<1> SUFFICES ASSUME PyramidInit PROVE PyramidInv
  OBVIOUS
<1>1. /\ pc = "idle" /\ minsize = 40 /\ side = 0 /\ asked = 40
      /\ minl = 0 /\ m = 0 /\ scales = <<>>
  BY DEF PyramidInit
<1>2. PyramidTypes /\ DOMAIN scales = {}
  BY <1>1 DEF PyramidTypes
<1>3. FixedPointInv
  BY <1>1 DEF FixedPointInv, Close
<1>4. EnoughPixels /\ SizesCovered /\ CoverInv
  BY <1>1, <1>2 DEF EnoughPixels, SizesCovered, CoverInv
<1> QED
  BY <1>2, <1>3, <1>4 DEF PyramidInv

\* A new call starts with every size still to come.
LEMMA BeginStep ==
  ASSUME PyramidInv, Begin
  PROVE  PyramidInv'
<1>1. /\ pc' = "loop" /\ side' \in Sides /\ asked' = minsize /\ minsize' = minsize
      /\ m' = FirstScale /\ minl' = FirstMinl(side', m') /\ scales' = <<>>
  BY DEF Begin
<1>2. minsize \in Nat /\ side' \in Nat /\ side' <= 1500
  BY <1>1, PyramidAssumption DEF PyramidInv, PyramidTypes
<1>3. PyramidTypes'
  BY <1>1, <1>2, FirstType DEF PyramidTypes
<1>4. FixedPointInv'
  <2> SUFFICES ASSUME minsize # 0 PROVE Close(side', minl', m')
    BY <1>1 DEF FixedPointInv
  <2> QED
    BY <1>1, <1>2, FirstScaleBounds, FirstClose
<1>5. DOMAIN scales' = {}
  BY <1>1
<1>6. EnoughPixels' /\ SizesCovered'
  BY <1>1, <1>5 DEF EnoughPixels, SizesCovered
<1>7. CoverInv'
  <2> SUFFICES ASSUME minsize # 0, side' > minsize
               PROVE  Above(minl') /\ \A f \in minsize..side' : f * m' >= 1150000
    BY <1>1 DEF CoverInv
  <2>1. Above(minl')
    BY <1>1, <1>2, FirstAbove
  <2>2. ASSUME NEW f \in minsize..side' PROVE f * m' >= 1150000
    <3>1. f \in Nat /\ minsize <= f /\ f <= 1500
      BY <1>2
    <3> QED
      BY <3>1, <1>1, <1>2, FirstReaches
  <2> QED
    BY <2>1, <2>2
<1> QED
  BY <1>3, <1>4, <1>6, <1>7 DEF PyramidInv

LEMMA PushStep ==
  ASSUME PyramidInv, PushScale
  PROVE  PyramidInv'
<1> DEFINE n == Len(scales)
<1>1. /\ pc = "loop" /\ Above(minl) /\ scales' = Append(scales, m)
      /\ minl' = Reduced(minl) /\ m' = Reduced(m)
      /\ UNCHANGED <<pc, minsize, side, asked>>
  BY DEF PushScale
<1>2. PyramidTypes
  BY DEF PyramidInv
<1>3. /\ scales' \in Seq(Nat) /\ n \in Nat /\ Len(scales') = n + 1
      /\ DOMAIN scales = 1..n /\ DOMAIN scales' = 1..(n + 1)
      /\ scales'[n + 1] = m /\ \A k \in 1..n : scales'[k] = scales[k]
  BY <1>1, <1>2 DEF PyramidTypes
<1>4. PyramidTypes'
  BY <1>1, <1>2, <1>3, ReducedType DEF PyramidTypes
<1>5. asked # 0 => Close(side, minl, m)
  BY DEF PyramidInv, FixedPointInv
<1>6. side \in Nat /\ side <= 1500 /\ m \in Nat /\ minl \in Nat /\ asked \in Nat
  BY <1>2 DEF PyramidTypes
<1>7. FixedPointInv'
  BY <1>1, <1>5, <1>6, ReducedClose DEF FixedPointInv
<1>8. EnoughPixels'
  <2> SUFFICES ASSUME asked # 0, NEW k \in 1..(n + 1) PROVE side * scales'[k] > 11 * Unit
    BY <1>1, <1>3 DEF EnoughPixels
  <2>1. CASE k = n + 1
    BY <2>1, <1>1, <1>3, <1>5, <1>6, AboveEnough
  <2>2. CASE k # n + 1
    <3>1. k \in 1..n
      BY <2>2, <1>3
    <3> QED
      BY <3>1, <1>3 DEF PyramidInv, EnoughPixels
  <2> QED
    BY <2>1, <2>2
<1>9. SizesCovered'
  BY <1>1 DEF SizesCovered
<1>10. CoverInv'
  <2> SUFFICES ASSUME asked # 0, side > asked
               PROVE  /\ \A f \in asked..side : f * m' >= 1150000 \/ Covered(f)'
                      /\ scales' # <<>>
                      /\ m' = Reduced(scales'[n + 1]) /\ scales'[n + 1] <= 1200000
    BY <1>1, <1>3 DEF CoverInv
  <2>1. m <= 1200000
    BY <1>5 DEF Close
  <2>2. ASSUME NEW f \in asked..side PROVE f * m' >= 1150000 \/ Covered(f)'
    <3>1. f * m >= 1150000 \/ Covered(f)
      BY <1>1 DEF PyramidInv, CoverInv
    <3>2. CASE Covered(f)
      <4>1. PICK k \in 1..n : Round(f * scales[k], Unit) \in 12..17
        BY <3>2, <1>3 DEF Covered, Seen
      <4>2. k \in 1..(n + 1) /\ scales'[k] = scales[k]
        BY <1>3
      <4>3. Covered(f)'
        BY <4>1, <4>2, <1>3, Zenon DEF Covered, Seen
      <4> QED
        BY <4>3
    <3>3. CASE f * m >= 1150000
      <4>1. f \in Nat /\ f <= 1500
        BY <1>6
      <4>2. f * m' >= 1150000 \/ Round(f * m, Unit) \in 12..17
        BY <4>1, <3>3, <2>1, <1>1, <1>6, NowOrNext
      <4>3. n + 1 \in DOMAIN scales' /\ scales'[n + 1] = m
        BY <1>3
      <4> QED
        BY <4>2, <4>3 DEF Covered, Seen
    <3> QED
      BY <3>1, <3>2, <3>3
  <2> QED
    BY <2>1, <2>2, <1>1, <1>3
<1> QED
  BY <1>4, <1>7, <1>8, <1>9, <1>10 DEF PyramidInv

\* When the loop ends, the last scale shows what the next one would not reach.
LEMMA EndStep ==
  ASSUME PyramidInv, EndLoop
  PROVE  PyramidInv'
<1> DEFINE n == Len(scales)
           g == scales[n]
<1>1. pc = "loop" /\ ~Above(minl) /\ pc' = "idle"
      /\ UNCHANGED <<minsize, side, asked, minl, m, scales>>
  BY DEF EndLoop
<1>2. /\ scales \in Seq(Nat) /\ DOMAIN scales = 1..n /\ n \in Nat
      /\ side \in Nat /\ side <= 1500 /\ asked \in Nat
  BY DEF PyramidInv, PyramidTypes
<1>3. PyramidTypes' /\ FixedPointInv' /\ EnoughPixels' /\ CoverInv'
  BY <1>1 DEF PyramidInv, PyramidTypes, FixedPointInv, EnoughPixels, CoverInv
<1>4. SizesCovered'
  <2> SUFFICES ASSUME asked # 0, side > asked, NEW f \in asked..side
               PROVE  Covered(f)
    BY <1>1, <1>2 DEF SizesCovered, Covered, Seen
  <2>1. scales # <<>> /\ m = Reduced(g) /\ g <= 1200000 /\ Close(side, minl, m)
    BY <1>1 DEF PyramidInv, CoverInv, FixedPointInv
  <2>2. n \in DOMAIN scales /\ g \in Nat /\ f \in Nat /\ f <= side
    BY <1>2, <2>1
  <2> HIDE DEF g
  <2>3. CASE f * m >= 1150000
    <3>1. side * g < 1750000
      BY <1>1, <1>2, <2>1, <2>2, EndBound
    <3>2. Round(f * g, Unit) \in 12..17
      <4>1. f * Reduced(g) >= 1150000 /\ g <= 1200000
        BY <2>1, <2>3
      <4>2. side \in Nat /\ f \in Nat /\ f <= side /\ g \in Nat
        BY <1>2, <2>2
      <4> QED
        BY ONLY <3>1, <4>1, <4>2, LastReaches
    <3> QED
      BY <2>2, <3>2 DEF Covered, Seen, g
  <2> QED
    BY <2>3, <1>1 DEF PyramidInv, CoverInv
<1> QED
  BY <1>3, <1>4 DEF PyramidInv

LEMMA PyramidStep == PyramidInv /\ [PyramidNext]_pyramidVars => PyramidInv'
<1> SUFFICES ASSUME PyramidInv, [PyramidNext]_pyramidVars PROVE PyramidInv'
  OBVIOUS
<1>1. CASE SetMinFace
  <2>1. minsize' \in Nat /\ UNCHANGED <<pc, side, asked, minl, m, scales>>
    BY <1>1, PyramidAssumption DEF SetMinFace
  <2> QED
    BY <2>1 DEF PyramidInv, PyramidTypes, FixedPointInv, EnoughPixels, CoverInv, Covered,
                SizesCovered, Seen
<1>2. CASE UNCHANGED pyramidVars
  BY <1>2 DEF pyramidVars, PyramidInv, PyramidTypes, FixedPointInv, EnoughPixels, CoverInv,
              Covered, SizesCovered, Seen
<1> QED
  BY <1>1, <1>2, BeginStep, PushStep, EndStep DEF PyramidNext, Loop

LEMMA PyramidInvariant == PyramidSpec => []PyramidInv
<1> QED
  BY PyramidInitInv, PyramidStep, PTL DEF PyramidSpec

\* No scaled image is smaller than a cell of the first network, whatever the
\* image and minsize.
THEOREM PyramidEnoughPixels == PyramidSpec => []EnoughPixels
<1>1. PyramidInv => EnoughPixels
  BY DEF PyramidInv
<1> QED
  BY <1>1, PyramidInvariant, PTL

\* The scales miss no face from minsize up to the side of the image.
THEOREM PyramidSizesCovered == PyramidSpec => []SizesCovered
<1>1. PyramidInv => SizesCovered
  BY DEF PyramidInv
<1> QED
  BY <1>1, PyramidInvariant, PTL
\* minl after k turns of the loop is at most Most[k + 1], for the largest image
\* and a minsize of 1 pixel.
Most == << 18000001, 12762001, 9048259, 6415216, 4548388, 3224807, 2286388, 1621049,
           1149324, 814871, 577744, 409620, 290421, 205908, 145989, 103506, 73386,
           52031, 36890, 26155, 18544, 13148, 9322 >>

FewScales == asked # 0 => Len(scales) <= 22

FewInv == asked # 0 => /\ Len(scales) <= 22
                       /\ pc = "loop" => minl <= Most[Len(scales) + 1]

LEMMA MostFalls ==
  ASSUME NEW k \in 0..22, NEW l \in Nat, l <= Most[k + 1], Above(l)
  PROVE  k + 1 \in 0..22 /\ Reduced(l) <= Most[k + 2] /\ Reduced(l) < l
<1>1. l > 12000 /\ l <= 18000001
  <2>1. Most[k + 1] \in Nat /\ Most[k + 1] <= 18000001
    BY DEF Most
  <2>2. l > 12000
    BY DEF Above, MIN_DET_SIZE, Pixel
  <2> QED
    BY <2>1, <2>2
<1>2. Reduced(l) \in Nat /\ 1000 * Reduced(l) <= 709 * l + 500
  BY <1>1, ReducedBounds DEF Inf
<1>3. k # 22
  BY <1>1 DEF Most
<1>4. 709 * Most[k + 1] + 500 < 1000 * Most[k + 2] + 1000 /\ Most[k + 1] \in Nat /\ Most[k + 2] \in Nat
  BY <1>3 DEF Most
<1> QED
  BY <1>1, <1>2, <1>3, <1>4

LEMMA FewStep == PyramidInv /\ FewInv /\ [PyramidNext]_pyramidVars => FewInv'
<1> SUFFICES ASSUME PyramidInv, FewInv, [PyramidNext]_pyramidVars PROVE FewInv'
  OBVIOUS
<1>1. CASE UNCHANGED pyramidVars \/ SetMinFace \/ EndLoop
  <2>1. UNCHANGED <<asked, scales, minl>> /\ (pc' = "loop" => pc = "loop")
    BY <1>1 DEF pyramidVars, SetMinFace, EndLoop
  <2> QED
    BY <2>1 DEF FewInv
<1>2. CASE Begin
  <2>1. PyramidInv'
    BY PyramidStep
  <2>2. asked' # 0 => minl' <= 18000001
    BY <2>1 DEF PyramidInv, FixedPointInv, Close
  <2>3. scales' = <<>> /\ Most[1] = 18000001
    BY <1>2 DEF Begin, Most
  <2>4. Len(scales') = 0
    BY <2>3
  <2> QED
    BY <2>2, <2>3, <2>4 DEF FewInv
<1>3. CASE PushScale
  <2> SUFFICES ASSUME asked # 0
               PROVE  Len(scales') <= 22 /\ minl' <= Most[Len(scales') + 1]
    BY <1>3 DEF FewInv, PushScale
  <2>1. /\ Len(scales) \in 0..22 /\ minl \in Nat /\ minl <= Most[Len(scales) + 1] /\ Above(minl)
        /\ Len(scales') = Len(scales) + 1 /\ minl' = Reduced(minl)
    <3>1. scales \in Seq(Nat) /\ minl \in Nat /\ pc = "loop" /\ scales' = Append(scales, m)
      BY <1>3 DEF PushScale, PyramidInv, PyramidTypes
    <3>2. Len(scales') = Len(scales) + 1 /\ Len(scales) \in Nat
      BY <3>1
    <3>3. Len(scales) <= 22 /\ minl <= Most[Len(scales) + 1]
      BY <3>1 DEF FewInv
    <3>4. Above(minl) /\ minl' = Reduced(minl)
      BY <1>3 DEF PushScale
    <3>5. Len(scales) \in 0..22
      <4>1. Len(scales) \in Nat /\ Len(scales) <= 22
        BY <3>2, <3>3
      <4>2. \A x \in Nat : x <= 22 => x \in 0..22
        OBVIOUS
      <4> QED
        BY <4>1, <4>2
    <3> QED
      BY <3>1, <3>2, <3>3, <3>4, <3>5, Zenon
  <2> DEFINE k == Len(scales)
  <2>2. k \in 0..22 /\ minl \in Nat /\ minl <= Most[k + 1] /\ Above(minl)
    BY <2>1
  <2>3. Len(scales') = k + 1 /\ minl' = Reduced(minl)
    BY <2>1
  <2> HIDE DEF k
  <2>4. k + 1 \in 0..22 /\ Reduced(minl) <= Most[k + 2]
    BY <2>2, MostFalls
  <2>5. Len(scales') <= 22 /\ Len(scales') + 1 = k + 2
    BY <2>2, <2>3, <2>4
  <2> QED
    BY <2>3, <2>4, <2>5
<1> QED
  BY <1>1, <1>2, <1>3 DEF PyramidNext, Loop

\* A pyramid has at most 22 scales, whatever the image and a minsize that is
\* not 0: the bound MaxScales stops nothing if it is not below that.
THEOREM PyramidFewScales == PyramidSpec => []FewScales
<1>1. PyramidInit => FewInv
  BY DEF PyramidInit, FewInv
<1>2. FewInv => FewScales
  BY DEF FewInv, FewScales
<1> QED
  BY <1>1, <1>2, FewStep, PyramidInvariant, PTL DEF PyramidSpec

LoopLeft == IF pc = "loop" THEN minl + 1 ELSE 0

LoopLowers == LoopLeft \in Nat /\ LoopLeft' \in Nat /\ LoopLeft' < LoopLeft

\* Every turn of the scale loop lowers minl unless minsize is 0: the argument
\* behind ScalesEnd.
THEOREM PyramidLoopBounded == PyramidSpec => [][Loop /\ asked # 0 => LoopLowers]_pyramidVars
<1>1. PyramidInv /\ PyramidInv' /\ [PyramidNext]_pyramidVars
        => [Loop /\ asked # 0 => LoopLowers]_pyramidVars
  <2> SUFFICES ASSUME PyramidInv, PyramidInv', asked # 0, Loop PROVE LoopLowers
    OBVIOUS
  <2>1. minl \in Nat /\ minl' \in Nat /\ pc = "loop" /\ Close(side, minl, m)
    BY DEF PyramidInv, PyramidTypes, FixedPointInv, Loop, PushScale, EndLoop
  <2>2. CASE PushScale
    <3>1. pc' = "loop" /\ minl' = Reduced(minl) /\ minl > 12000
      BY <2>1, <2>2 DEF PushScale, Above, MIN_DET_SIZE, Pixel
    <3>2. 1000 * minl' <= 709 * minl + 500
      BY <2>1, <3>1, ReducedBounds DEF Close, Inf
    <3> QED
      BY <2>1, <3>1, <3>2 DEF LoopLowers, LoopLeft
  <2>3. CASE EndLoop
    <3>1. pc' = "idle"
      BY <2>3 DEF EndLoop
    <3> QED
      BY <2>1, <3>1 DEF LoopLowers, LoopLeft
  <2> QED
    BY <2>2, <2>3 DEF Loop
<1> QED
  BY <1>1, PyramidInvariant, PTL DEF PyramidSpec
-----------------------------------------------------------------------------
\* A box with a fresh area suppresses itself exactly if its sides are wide
\* enough, whatever the threshold of nms: not negative under "Min"; under
\* "Union", where the intersection's + 1 makes the union smaller than the area,
\* two pixels each and not both two.
THEOREM SuppressesItselfIffWide ==
  ASSUME NEW b, {b.x1, b.y1, b.x2, b.y2} \subseteq Int, b.area = AreaOf(b), NEW t \in 1..10,
         NEW mode \in {"Union", "Min"}
  PROVE  Suppresses(b, b, t, mode) <=> Wide(b, mode)
<1> DEFINE w == b.x2 - b.x1
           h == b.y2 - b.y1
           a == w * h
           n == Inter(b, b)
<1>1. w \in Int /\ h \in Int /\ b.area = a
  BY DEF AreaOf
<1>2. n = Extent(0, w) * Extent(0, h)
  BY DEF Inter, Extent, Larger, Smaller
<1>3. /\ Suppresses(b, b, t, mode) <=> \/ mode = "Union" /\ RatioAbove(n, a + a - n, t)
                                       \/ mode = "Min" /\ RatioAbove(n, a, t)
      /\ Wide(b, mode) <=> IF mode = "Min" THEN 0 <= w /\ 0 <= h
                                           ELSE 2 <= w /\ 2 <= h /\ 4 < w + h
  BY <1>1 DEF Suppresses, Smaller, Wide
<1> HIDE DEF w, h, n
<1>4. a \in Int /\ n \in Int
  BY <1>1, <1>2 DEF Extent, Larger
<1>5. CASE w < 0 \/ h < 0
  <2>1. n = 0
    BY <1>1, <1>2, <1>5 DEF Extent, Larger
  <2>2. \A d \in Int : ~RatioAbove(n, d, t)
    <3> SUFFICES ASSUME NEW d \in Int, d > 0 PROVE 0 <= t * d
      BY <2>1 DEF RatioAbove
    <3> QED
      OBVIOUS
  <2> QED
    BY <1>1, <1>3, <1>4, <1>5, <2>2
<1>6. CASE 0 <= w /\ 0 <= h
  <2>1. n = a + w + h + 1 /\ a >= 0
    BY <1>1, <1>2, <1>6 DEF Extent, Larger
  <2>2. \A d \in Int : d < n => (RatioAbove(n, d, t) <=> d >= 0)
    <3> HIDE DEF a
    <3> SUFFICES ASSUME NEW d \in Int, d < n PROVE RatioAbove(n, d, t) <=> d >= 0
      OBVIOUS
    <3>1. d >= 0 => t * d <= 10 * d
      OBVIOUS
    <3> QED
      BY <1>4, <1>6, <2>1, <3>1, <1>1 DEF RatioAbove
  <2>3. a + a - n >= 0 <=> 2 <= w /\ 2 <= h /\ 4 < w + h
    <3>1. CASE w <= 1 \/ h <= 1
      <4>1. w = 0 \/ w = 1 \/ h = 0 \/ h = 1
        BY <3>1, <1>1, <1>6
      <4> QED
        BY <4>1, <2>1, <1>1, <1>6
    <3>2. CASE w = 2
      BY <3>2, <2>1, <1>1, <1>6
    <3>3. CASE w >= 3 /\ h >= 2
      <4>1. 3 * (h - 1) <= w * (h - 1)
        <5>1. (h - 1) * 3 <= (h - 1) * w
          BY <3>3, <1>1, TimesMonotone
        <5> QED
          BY <5>1, <1>1
      <4>2. w * (h - 1) = a - w
        BY <1>1
      <4> HIDE DEF a
      <4> QED
        BY <3>3, <4>1, <4>2, <2>1, <1>1, <1>4
    <3> QED
      BY <3>1, <3>2, <3>3, <1>1
  <2> HIDE DEF a
  <2>4. a + a - n < n /\ a < n /\ a + a - n \in Int
    BY <1>1, <1>4, <1>6, <2>1
  <2> QED
    BY <1>3, <1>4, <1>6, <2>1, <2>2, <2>3, <2>4
<1> QED
  BY <1>1, <1>5, <1>6
-----------------------------------------------------------------------------
\* A side of a box that is inside the image and at least so long.
Inside(lo, hi, size, least) == /\ {lo, hi} \subseteq Int
                               /\ 0 <= lo /\ hi <= size /\ hi - lo >= least

\* A side as generateBbox makes it: it may stick out of the image, but not so
\* far that the clip would leave too little of it after a quarter's shift.
Roomy(lo, hi, size) == /\ {lo, hi} \subseteq Int
                       /\ 0 <= lo /\ hi - lo >= 40 /\ 3 * lo + hi + 75 < 4 * size

\* The sides of the cells of a score map.
LEMMA CellRoomy ==
  ASSUME NEW size \in Nat, NEW k \in Nat, k >= 1, k <= 30000,
         NEW i \in Int, i >= 0, i <= MapSide(size, k) - 1
  PROVE  Roomy(ToImage(2 * i + 1, k), ToImage(2 * i + 13, k), size)
<1> DEFINE n == (2 * i + 1) * 100000
           l == (2 * i + 13) * 100000
           a == ToImage(2 * i + 1, k)
           b == ToImage(2 * i + 13, k)
           c == k * a
           d == k * b
           p == size * k
<1>1. n \in Nat /\ l \in Nat /\ p \in Nat /\ l = n + 1200000
  OBVIOUS
<1>2. a = Round(n, k) /\ b = Round(l, k)
  BY DEF ToImage, Unit
<1>3. (2 * i + 10) * 100000 < p
  <2> DEFINE w == (p + 99999) \div 100000
  <2>1. CeilDiv(size * k, Unit) = w
    BY DEF CeilDiv, Unit
  <2> HIDE DEF p
  <2>2. w \in Int /\ 100000 * w <= p + 99999
    BY <1>1
  <2> HIDE DEF w
  <2>3. MapSide(size, k) = (w - 1) \div 2 - 4
    BY <2>1, <2>2 DEF MapSide, CeilDiv
  <2>4. 2 * i + 10 <= w - 1
    BY <2>2, <2>3
  <2> QED
    BY <2>2, <2>4, <1>1
<1>4. /\ a \in Nat /\ 2 * c <= 2 * n + k /\ 2 * n + k < 2 * c + 2 * k
      /\ b \in Nat /\ 2 * d <= 2 * l + k /\ 2 * l + k < 2 * d + 2 * k
  <2> HIDE DEF n, l
  <2>1. k \in Nat \ {0}
    OBVIOUS
  <2> QED
    BY <1>1, <1>2, <2>1, RoundBounds
<1> HIDE DEF a, b
<1>5. c \in Int /\ d \in Int /\ k * (b - a) = d - c /\ k * (3 * a + b + 75) = 3 * c + d + 75 * k
  BY <1>4
<1>6. b - a >= 40
  <2> SUFFICES ASSUME b - a <= 39 PROVE FALSE
    BY <1>4
  <2>1. k * (b - a) <= k * 39
    BY <1>4, TimesMonotone
  <2> HIDE DEF c, d, n, l
  <2> QED
    BY <1>1, <1>4, <1>5, <2>1
<1>7. 3 * a + b + 75 < 4 * size
  <2> SUFFICES ASSUME 4 * size <= 3 * a + b + 75 PROVE FALSE
    BY <1>4
  <2>1. k * (4 * size) <= k * (3 * a + b + 75)
    BY <1>4, TimesMonotone
  <2>2. k * (4 * size) = 4 * p
    OBVIOUS
  <2>3. n = 200000 * i + 100000
    OBVIOUS
  <2> HIDE DEF c, d, n, l, p
  <2> QED
    BY <1>1, <1>3, <1>4, <1>5, <2>1, <2>2, <2>3
<1> QED
  BY <1>4, <1>6, <1>7 DEF Roomy, a, b

\* RoundFine is within a half of the quotient.
LEMMA RoundFineBounds ==
  ASSUME NEW n \in Int
  PROVE  /\ RoundFine(n) \in Int
         /\ n - Grain <= 2 * (Grain * RoundFine(n))
         /\ 2 * (Grain * RoundFine(n)) <= n + Grain
<1> DEFINE d == 2 * Grain
<1>1. Grain \in Int /\ Grain > 0
  BY BoxPathAssumption
<1>2. \A x \in Int : /\ x \div d \in Int /\ d * (x \div d) <= x /\ x < d * (x \div d) + d
                     /\ d * (x \div d) = 2 * (Grain * (x \div d))
  <2> TAKE x \in Int
  <2>1. d \in Nat \ {0}
    BY <1>1
  <2>2. x \div d \in Int /\ d * (x \div d) <= x /\ x < d * (x \div d) + d
    <3> HIDE DEF d
    <3> QED
      BY <2>1, DivBounds
  <2> DEFINE q == x \div d
  <2> HIDE DEF q
  <2>3. q \in Int => d * q = 2 * (Grain * q)
    BY <1>1
  <2> QED
    BY <2>2, <2>3 DEF q
<1> HIDE DEF d
<1>3. CASE n >= 0
  <2> DEFINE q == (n + Grain) \div d
  <2>1. RoundFine(n) = q
    BY <1>3 DEF RoundFine, d
  <2>2. /\ q \in Int /\ d * q <= n + Grain /\ n + Grain < d * q + d
        /\ d * q = 2 * (Grain * q)
    BY <1>1, <1>2
  <2> HIDE DEF q
  <2> QED
    BY <1>1, <2>1, <2>2 DEF d
<1>4. CASE n < 0
  <2> DEFINE q == (Grain - n) \div d
  <2>1. RoundFine(n) = -q
    BY <1>4 DEF RoundFine, d
  <2>2. /\ q \in Int /\ d * q <= Grain - n /\ Grain - n < d * q + d
        /\ d * q = 2 * (Grain * q)
    BY <1>1, <1>2
  <2> HIDE DEF q
  <2>3. Grain * (-q) = -(Grain * q) /\ Grain * q \in Int
    BY <1>1, <2>2
  <2> QED
    BY <1>1, <2>1, <2>2, <2>3 DEF d
<1> QED
  BY <1>3, <1>4

\* One side after the body of refine.
Side(lo, hi, r, s, square, size) == Clip(Squared(Shifted(lo, hi, r, s), square), size)

LEMMA ShiftedTypes ==
  ASSUME NEW lo \in Int, NEW hi \in Int, NEW r \in Int, NEW s \in Int
  PROVE  /\ Shifted(lo, hi, r, s).from \in Int
         /\ Shifted(lo, hi, r, s).len \in Int
<1>1. Grain \in Int
  BY BoxPathAssumption
<1> DEFINE x == 2 * r * (hi - lo + 1)
           y == 2 * s * (hi - lo + 1)
           g == 2 * Grain * lo
           k == 2 * Grain * hi
<1>2. x \in Int /\ y \in Int /\ g \in Int /\ k \in Int
  BY <1>1
<1>3. Shifted(lo, hi, r, s) = [from |-> g + x, len |-> k + y - (g + x) + 2 * Grain]
  BY DEF Shifted
<1> HIDE DEF x, y, g, k
<1> QED
  BY <1>1, <1>2, <1>3

\* Whatever the offsets, the clip leaves a side's beginning right of one edge
\* of the image and its end left of the other.
LEMMA SideClipped ==
  ASSUME NEW lo \in Int, NEW hi \in Int, NEW size \in Int, NEW r \in Int, NEW s \in Int,
         NEW square \in Int
  PROVE  LET p == Side(lo, hi, r, s, square, size)
         IN  {p[1], p[2]} \subseteq Int /\ 0 <= p[1] /\ p[2] <= size
<1> DEFINE e  == Shifted(lo, hi, r, s)
           at == e.from + (e.len - square) \div 2
           u  == RoundFine(at)
           v  == RoundFine(at + square - 2 * Grain)
           p  == Side(lo, hi, r, s, square, size)
<1>1. e.from \in Int /\ e.len \in Int /\ Grain \in Int
  BY ShiftedTypes, BoxPathAssumption
<1>2. p = Clip(<<u, v>>, size)
  BY DEF Side, Squared
<1> HIDE DEF e
<1>3. at \in Int /\ at + square - 2 * Grain \in Int
  BY <1>1
<1> HIDE DEF at
<1>4. u \in Int /\ v \in Int
  BY <1>3, RoundFineBounds
<1> HIDE DEF u, v
<1> QED
  BY <1>2, <1>4 DEF Clip, Larger

\* A fraction of a side, both in Grain-ths.
LEMMA QuarterOfSide ==
  ASSUME NEW len \in Nat, NEW r \in Int, UpToQuarter(r)
  PROVE  -(Grain * len) <= 2 * (2 * r * len) /\ 2 * (2 * r * len) <= Grain * len
<1>1. Grain \in Int /\ -Grain <= 4 * r /\ 4 * r <= Grain
  BY BoxPathAssumption DEF UpToQuarter
<1>2. len * (-Grain) <= len * (4 * r) /\ len * (4 * r) <= len * Grain
  BY <1>1, TimesMonotone
<1>3. len * (-Grain) = -(Grain * len) /\ len * (4 * r) = 2 * (2 * r * len) /\ len * Grain = Grain * len
  BY <1>1
<1> QED
  BY <1>2, <1>3

\* With offsets of up to a quarter both ends move by at most a quarter of the
\* side and half a pixel.
LEMMA SideBounds ==
  ASSUME NEW lo \in Int, NEW hi \in Int, 0 <= lo, lo <= hi, NEW size \in Int,
         NEW r \in Int, NEW s \in Int, UpToQuarter(r), UpToQuarter(s),
         NEW square \in Int, Shifted(lo, hi, r, s).len <= square
  PROVE  LET p == Side(lo, hi, r, s, square, size)
         IN  /\ {p[1], p[2]} \subseteq Int /\ 0 <= p[1] /\ 4 * p[1] <= 3 * lo + hi + 3
             /\ p[2] <= size /\ (4 * p[2] >= 3 * hi + lo - 3 \/ p[2] = size - 1)
<1> DEFINE len == hi - lo + 1
           g   == Grain * lo
           h   == Grain * hi
           k   == Grain * len
           x   == 2 * r * len
           y   == 2 * s * len
           a   == 2 * g + x
           n   == 2 * h + y - a + 2 * Grain
           e   == Shifted(lo, hi, r, s)
           at  == a + (n - square) \div 2
           u   == RoundFine(at)
           to  == at + square - 2 * Grain
           v   == RoundFine(to)
           p   == Side(lo, hi, r, s, square, size)
<1>1. Grain \in Int /\ Grain > 0 /\ len \in Nat
  BY BoxPathAssumption
<1>2. g \in Int /\ h \in Int /\ k = h - g + Grain /\ x \in Int /\ y \in Int
  BY <1>1
<1>3. -k <= 2 * x /\ 2 * x <= k /\ -k <= 2 * y /\ 2 * y <= k
  BY <1>1, QuarterOfSide
<1>4. e = [from |-> a, len |-> n]
  <2>1. 2 * Grain * lo = 2 * g /\ 2 * Grain * hi = 2 * h
    BY <1>1
  <2> QED
    BY <2>1 DEF Shifted
<1>5. p = Clip(<<u, v>>, size) /\ n <= square
  BY <1>4 DEF Side, Squared
<1> HIDE DEF g, h, k, x, y, len
<1>6. /\ at \in Int /\ at <= 2 * g + x
      /\ to \in Int /\ to >= 2 * h + y
  BY <1>1, <1>2, <1>5
<1> HIDE DEF at, to
<1>7. /\ u \in Int /\ 2 * (Grain * u) <= at + Grain
      /\ v \in Int /\ to - Grain <= 2 * (Grain * v)
  BY <1>6, RoundFineBounds
<1> HIDE DEF u, v
<1>8. 4 * u <= 3 * lo + hi + 3
  <2> SUFFICES ASSUME 3 * lo + hi + 4 <= 4 * u PROVE FALSE
    BY <1>7
  <2>1. Grain * (3 * lo + hi + 4) <= Grain * (4 * u)
    BY <1>1, <1>7, TimesMonotone
  <2>2. Grain * (3 * lo + hi + 4) = 3 * g + h + 4 * Grain
    BY <1>1 DEF g, h
  <2> DEFINE z == Grain * u
  <2>3. Grain * (4 * u) = 4 * z /\ z \in Int
    BY <1>1, <1>7
  <2>4. 2 * z <= at + Grain
    BY <1>7
  <2> HIDE DEF z
  <2> QED
    BY <1>1, <1>2, <1>3, <1>6, <2>1, <2>2, <2>3, <2>4
<1>9. 4 * v >= 3 * hi + lo - 3
  <2> SUFFICES ASSUME 4 * v <= 3 * hi + lo - 4 PROVE FALSE
    BY <1>7
  <2>1. Grain * (4 * v) <= Grain * (3 * hi + lo - 4)
    BY <1>1, <1>7, TimesMonotone
  <2>2. Grain * (3 * hi + lo - 4) = 3 * h + g - 4 * Grain
    BY <1>1 DEF g, h
  <2> DEFINE z == Grain * v
  <2>3. Grain * (4 * v) = 4 * z /\ z \in Int
    BY <1>1, <1>7
  <2>4. to - Grain <= 2 * z
    BY <1>7
  <2> HIDE DEF z
  <2> QED
    BY <1>1, <1>2, <1>3, <1>6, <2>1, <2>2, <2>3, <2>4
<1>10. p[1] = Larger(u, 0) /\ p[2] = IF v > size THEN size - 1 ELSE v
  BY <1>5 DEF Clip
<1> HIDE DEF p
<1>11. /\ {p[1], p[2]} \subseteq Int /\ 0 <= p[1] /\ 4 * p[1] <= 3 * lo + hi + 3
       /\ p[2] <= size /\ (4 * p[2] >= 3 * hi + lo - 3 \/ p[2] = size - 1)
  BY <1>7, <1>8, <1>9, <1>10 DEF Larger
<1> QED
  BY <1>11 DEF p

\* What each refinement leaves of a side: less than half is lost.
LEMMA SideInside ==
  ASSUME NEW lo, NEW hi, NEW size \in Int, NEW r \in Int, NEW s \in Int,
         UpToQuarter(r), UpToQuarter(s),
         NEW square \in Int, Shifted(lo, hi, r, s).len <= square
  PROVE  LET p == Side(lo, hi, r, s, square, size)
         IN  /\ Roomy(lo, hi, size)      => Inside(p[1], p[2], size, 18)
             /\ Inside(lo, hi, size, 18) => Inside(p[1], p[2], size, 8)
             /\ Inside(lo, hi, size, 8)  => Inside(p[1], p[2], size, 3)
<1> DEFINE p == Side(lo, hi, r, s, square, size)
<1>1. ASSUME lo \in Int, hi \in Int, 0 <= lo, lo <= hi
      PROVE  /\ {p[1], p[2]} \subseteq Int /\ 0 <= p[1] /\ 4 * p[1] <= 3 * lo + hi + 3
             /\ p[2] <= size /\ (4 * p[2] >= 3 * hi + lo - 3 \/ p[2] = size - 1)
  BY <1>1, SideBounds
<1> HIDE DEF p
<1>2. Roomy(lo, hi, size) => Inside(p[1], p[2], size, 18)
  BY <1>1 DEF Roomy, Inside
<1>3. Inside(lo, hi, size, 18) => Inside(p[1], p[2], size, 8)
  BY <1>1 DEF Inside
<1>4. Inside(lo, hi, size, 8) => Inside(p[1], p[2], size, 3)
  BY <1>1 DEF Inside
<1> QED
  BY <1>2, <1>3, <1>4 DEF p

Boxed == [x1 : Int, y1 : Int, x2 : Int, y2 : Int, area : Int]

LEMMA WithAreaFresh ==
  ASSUME NEW b \in Boxed
  PROVE  /\ WithArea(b) \in Boxed /\ WithArea(b).area = AreaOf(WithArea(b))
         /\ WithArea(b).x1 = b.x1 /\ WithArea(b).x2 = b.x2
         /\ WithArea(b).y1 = b.y1 /\ WithArea(b).y2 = b.y2
BY DEF Boxed, WithArea, AreaOf

\* A box that has the given sides.
BoxWithin(b, n) == Inside(b.x1, b.x2, Width, n) /\ Inside(b.y1, b.y2, Height, n)
BoxRoomy(b)     == Roomy(b.x1, b.x2, Width) /\ Roomy(b.y1, b.y2, Height)

\* Margins as copy_cut_border gets them.
InMargins(b) == 0 <= b.x1 /\ b.x2 <= Width /\ 0 <= b.y1 /\ b.y2 <= Height

\* refine, first with any offsets and then with gentle ones.
LEMMA RefinedWithin ==
  ASSUME NEW b \in Boxed, NEW r \in [1..4 -> Int]
  PROVE  /\ Refined(b, r) \in Boxed
         /\ Refined(b, r).area = AreaOf(Refined(b, r))
         /\ InMargins(Refined(b, r))
         /\ (\A i \in 1..4 : UpToQuarter(r[i])) =>
              /\ BoxRoomy(b)      => BoxWithin(Refined(b, r), 18)
              /\ BoxWithin(b, 18) => BoxWithin(Refined(b, r), 8)
              /\ BoxWithin(b, 8)  => BoxWithin(Refined(b, r), 3)
<1> DEFINE sx     == Shifted(b.x1, b.x2, r[1], r[3])
           sy     == Shifted(b.y1, b.y2, r[2], r[4])
           square == Larger(sx.len, sy.len)
           px     == Side(b.x1, b.x2, r[1], r[3], square, Width)
           py     == Side(b.y1, b.y2, r[2], r[4], square, Height)
<1>1. /\ r[1] \in Int /\ r[2] \in Int /\ r[3] \in Int /\ r[4] \in Int
      /\ {b.x1, b.x2, b.y1, b.y2} \subseteq Int /\ {Width, Height} \subseteq Int
  BY BoxPathAssumption DEF Boxed
<1>2. square \in Int /\ sx.len <= square /\ sy.len <= square
  <2>1. sx.len \in Int /\ sy.len \in Int
    BY <1>1, ShiftedTypes
  <2> HIDE DEF sx, sy
  <2> QED
    BY <2>1 DEF Larger
<1>3. Moved(b, r) = [b EXCEPT !.x1 = px[1], !.x2 = px[2], !.y1 = py[1], !.y2 = py[2]]
  BY DEF Moved, Side
<1> HIDE DEF square
<1>4. /\ {px[1], px[2], py[1], py[2]} \subseteq Int
      /\ 0 <= px[1] /\ px[2] <= Width /\ 0 <= py[1] /\ py[2] <= Height
  <2>1. {px[1], px[2]} \subseteq Int /\ 0 <= px[1] /\ px[2] <= Width
    BY <1>1, <1>2, SideClipped
  <2>2. {py[1], py[2]} \subseteq Int /\ 0 <= py[1] /\ py[2] <= Height
    BY <1>1, <1>2, SideClipped
  <2> HIDE DEF px, py
  <2> QED
    BY <2>1, <2>2
<1>5. ASSUME \A i \in 1..4 : UpToQuarter(r[i])
      PROVE  /\ Roomy(b.x1, b.x2, Width)      => Inside(px[1], px[2], Width, 18)
             /\ Inside(b.x1, b.x2, Width, 18) => Inside(px[1], px[2], Width, 8)
             /\ Inside(b.x1, b.x2, Width, 8)  => Inside(px[1], px[2], Width, 3)
             /\ Roomy(b.y1, b.y2, Height)      => Inside(py[1], py[2], Height, 18)
             /\ Inside(b.y1, b.y2, Height, 18) => Inside(py[1], py[2], Height, 8)
             /\ Inside(b.y1, b.y2, Height, 8)  => Inside(py[1], py[2], Height, 3)
  <2>1. UpToQuarter(r[1]) /\ UpToQuarter(r[2]) /\ UpToQuarter(r[3]) /\ UpToQuarter(r[4])
    BY <1>5
  <2>2. /\ Roomy(b.x1, b.x2, Width)      => Inside(px[1], px[2], Width, 18)
        /\ Inside(b.x1, b.x2, Width, 18) => Inside(px[1], px[2], Width, 8)
        /\ Inside(b.x1, b.x2, Width, 8)  => Inside(px[1], px[2], Width, 3)
    BY <1>1, <1>2, <2>1, SideInside
  <2>3. /\ Roomy(b.y1, b.y2, Height)      => Inside(py[1], py[2], Height, 18)
        /\ Inside(b.y1, b.y2, Height, 18) => Inside(py[1], py[2], Height, 8)
        /\ Inside(b.y1, b.y2, Height, 8)  => Inside(py[1], py[2], Height, 3)
    BY <1>1, <1>2, <2>1, SideInside
  <2> QED
    BY <2>2, <2>3
<1> HIDE DEF px, py
<1>6. /\ Refined(b, r) \in Boxed /\ Refined(b, r).area = AreaOf(Refined(b, r))
      /\ Refined(b, r).x1 = px[1] /\ Refined(b, r).x2 = px[2]
      /\ Refined(b, r).y1 = py[1] /\ Refined(b, r).y2 = py[2]
  <2>1. /\ Moved(b, r) \in Boxed
        /\ Moved(b, r).x1 = px[1] /\ Moved(b, r).x2 = px[2]
        /\ Moved(b, r).y1 = py[1] /\ Moved(b, r).y2 = py[2]
    BY <1>3, <1>4, Zenon DEF Boxed
  <2> QED
    BY <2>1, WithAreaFresh DEF Refined
<1> QED
  BY <1>4, <1>5, <1>6, Zenon DEF BoxWithin, BoxRoomy, InMargins
-----------------------------------------------------------------------------
\* No scale is 0, and from a minsize of 40 none enlarges 12 pixels from less.
ScaleInv == /\ asked = 0 => m = Inf
            /\ asked >= 40 => m <= 30000
            /\ \A k \in DOMAIN scales : scales[k] >= 1 /\ (asked >= 40 => scales[k] <= 30000)

\* The margins hold for any offsets, what is left of the box at each stage for
\* gentle ones.
BoxInv == /\ box \in Boxed /\ box.area = AreaOf(box) /\ jumped \in BOOLEAN
          /\ stage \notin {"scales", "first"} => InMargins(box)
          /\ Gentle /\ stage = "first" => BoxRoomy(box)
          /\ Gentle /\ stage \in {"rnet", "second"} => BoxWithin(box, 18)
          /\ Gentle /\ stage \in {"onet", "third"}  => BoxWithin(box, 8)
          /\ Gentle /\ stage = "final" => BoxWithin(box, 3)

BoxPathInv == PyramidInv /\ ScaleInv /\ BoxInv

LEMMA BoxPathInitInv == Init => BoxPathInv
<1> SUFFICES ASSUME Init PROVE BoxPathInv
  OBVIOUS
<1>1. PyramidInv
  BY PyramidInitInv DEF Init
<1>2. ScaleInv
  <2>1. asked = 40 /\ m = 0 /\ DOMAIN scales = {}
    BY DEF Init, PyramidInit
  <2> QED
    BY <2>1 DEF ScaleInv
<1>3. BoxInv
  <2>1. /\ stage = "scales" /\ jumped = FALSE
        /\ box = [x1 |-> 0, y1 |-> 0, x2 |-> 0, y2 |-> 0, area |-> 0]
    BY DEF Init
  <2>2. box \in Boxed /\ box.area = AreaOf(box)
    BY <2>1 DEF Boxed, AreaOf
  <2> QED
    BY <2>1, <2>2 DEF BoxInv
<1> QED
  BY <1>1, <1>2, <1>3 DEF BoxPathInv

LEMMA ScaleStep ==
  ASSUME PyramidInv, ScaleInv, [PyramidNext]_pyramidVars
  PROVE  ScaleInv'
<1>1. CASE SetMinFace
  <2>1. UNCHANGED <<asked, m, scales>>
    BY <1>1 DEF SetMinFace
  <2> QED
    BY <2>1 DEF ScaleInv
<1>2. CASE Begin
  <2>1. asked' = minsize /\ minsize' = minsize /\ m' = FirstScale /\ scales' = <<>>
    BY <1>2 DEF Begin
  <2>2. minsize \in Nat
    BY DEF PyramidInv, PyramidTypes
  <2>3. (minsize >= 40 => FirstScale <= 30000) /\ (minsize = 0 => FirstScale = Inf)
    <3>1. minsize >= 40 => FirstScale <= 30000
      BY <2>2, FirstScaleBounds
    <3>2. minsize = 0 => FirstScale = Inf
      BY DEF FirstScale
    <3> QED
      BY <3>1, <3>2
  <2>4. DOMAIN scales' = {}
    BY <2>1
  <2> QED
    BY <2>1, <2>2, <2>3, <2>4 DEF ScaleInv
<1>3. CASE PushScale
  <2> DEFINE n == Len(scales)
  <2>1. /\ Above(minl) /\ scales' = Append(scales, m) /\ m' = Reduced(m)
        /\ UNCHANGED <<minsize, asked, side>>
    BY <1>3 DEF PushScale
  <2>2. scales \in Seq(Nat) /\ m \in Nat /\ asked \in Nat
    BY DEF PyramidInv, PyramidTypes
  <2>3. /\ asked >= 40 => m <= 30000 /\ Reduced(m) <= 30000
        /\ asked = 0 => m = Inf /\ Reduced(m) = Inf
    <3>1. ASSUME asked >= 40 PROVE m <= 30000 /\ Reduced(m) <= 30000
      <4>1. m <= 30000 /\ m < Inf
        BY <2>2, <3>1 DEF ScaleInv, Inf
      <4>2. Reduced(m) \in Nat /\ Reduced(m) <= m
        BY ONLY <2>2, <4>1, ReducedBounds
      <4> QED
        BY <2>2, <4>1, <4>2
    <3>2. asked = 0 => m = Inf /\ Reduced(m) = Inf
      BY DEF ScaleInv, Reduced
    <3> QED
      BY <3>1, <3>2
  <2>4. m >= 1
    <3>1. CASE asked # 0
      <4>1. side \in Nat /\ side <= 1500 /\ Close(side, minl, m)
        BY <3>1 DEF PyramidInv, PyramidTypes, FixedPointInv
      <4>2. m # 0
        BY <2>1, <4>1, AboveEnough
      <4> QED
        BY <2>2, <4>2
    <3>2. CASE asked = 0
      BY <2>3, <3>2 DEF Inf
    <3> QED
      BY <3>1, <3>2
  <2>5. /\ DOMAIN scales' = 1..(n + 1) /\ n \in Nat /\ DOMAIN scales = 1..n
        /\ scales'[n + 1] = m /\ \A k \in 1..n : scales'[k] = scales[k]
    BY <2>1, <2>2
  <2>6. ASSUME NEW k \in 1..(n + 1)
        PROVE  scales'[k] >= 1 /\ (asked >= 40 => scales'[k] <= 30000)
    <3>1. CASE k = n + 1
      BY <3>1, <2>2, <2>3, <2>4, <2>5
    <3>2. CASE k # n + 1
      <4>1. k \in 1..n
        BY <3>2, <2>5
      <4> QED
        BY <4>1, <2>5 DEF ScaleInv
    <3> QED
      BY <3>1, <3>2
  <2> QED
    BY <2>1, <2>2, <2>3, <2>5, <2>6 DEF ScaleInv
<1>4. CASE EndLoop \/ UNCHANGED pyramidVars
  BY <1>4 DEF EndLoop, pyramidVars, ScaleInv
<1> QED
  BY <1>1, <1>2, <1>3, <1>4 DEF PyramidNext, Loop

LEMMA GenerateStep ==
  ASSUME PyramidInv, ScaleInv, BoxInv, Generate
  PROVE  BoxInv'
<1>1. /\ stage' = "first"
      /\ \E k \in DOMAIN scales :
           \E row \in 0..(MapSide(Height, scales[k]) - 1), col \in 0..(MapSide(Width, scales[k]) - 1) :
             box' = Cell(row, col, scales[k])
  BY DEF Generate
<1>2. PICK k \in DOMAIN scales :
        \E row \in 0..(MapSide(Height, scales[k]) - 1), col \in 0..(MapSide(Width, scales[k]) - 1) :
          box' = Cell(row, col, scales[k])
  BY <1>1
<1> DEFINE f == scales[k]
<1>3. f \in Nat /\ f >= 1 /\ (asked >= 40 => f <= 30000)
  BY DEF PyramidInv, PyramidTypes, ScaleInv
<1>4. PICK row \in 0..(MapSide(Height, f) - 1), col \in 0..(MapSide(Width, f) - 1) :
        box' = Cell(row, col, f)
  BY <1>2
<1> HIDE DEF f
<1>5. Width \in Nat /\ Height \in Nat
  BY BoxPathAssumption
<1>6. \A size \in Nat : MapSide(size, f) \in Int
  BY <1>3 DEF MapSide, CeilDiv, Unit
<1>7. /\ row \in Int /\ row >= 0 /\ row <= MapSide(Height, f) - 1
      /\ col \in Int /\ col >= 0 /\ col <= MapSide(Width, f) - 1
  BY <1>5, <1>6
<1> DEFINE b == [x1 |-> ToImage(2 * col + 1, f),  y1 |-> ToImage(2 * row + 1, f),
                 x2 |-> ToImage(2 * col + 13, f), y2 |-> ToImage(2 * row + 13, f),
                 area |-> 0]
<1>8. asked >= 40 => Roomy(b.x1, b.x2, Width) /\ Roomy(b.y1, b.y2, Height)
  BY <1>3, <1>5, <1>7, CellRoomy
<1>9. b \in Boxed
  <2>1. \A n \in Nat : ToImage(n, f) \in Int
    <3> TAKE n \in Nat
    <3>1. n * Unit \in Nat /\ f \in Nat \ {0}
      BY <1>3 DEF Unit
    <3> QED
      BY <3>1, RoundBounds DEF ToImage
  <2>2. /\ 2 * col + 1 \in Nat /\ 2 * col + 13 \in Nat
        /\ 2 * row + 1 \in Nat /\ 2 * row + 13 \in Nat
    BY <1>7
  <2> QED
    BY <2>1, <2>2 DEF Boxed
<1>10. box' = WithArea(b)
  BY <1>4 DEF Cell
<1> HIDE DEF b
<1>11. /\ box' \in Boxed /\ box'.area = AreaOf(box')
       /\ asked >= 40 => BoxRoomy(box')
  BY <1>8, <1>9, <1>10, WithAreaFresh DEF BoxRoomy
<1>12. Gentle' => BoxRoomy(box')
  <2>1. asked' = asked
    BY DEF Generate, pyramidVars
  <2> QED
    BY <1>11, <2>1 DEF Gentle
<1>13. jumped' \in BOOLEAN
  BY DEF Generate, BoxInv
<1> QED
  BY <1>1, <1>11, <1>12, <1>13 DEF BoxInv, BoxRoomy, AreaOf

LEMMA RefineStep ==
  ASSUME BoxInv,
         \/ Refine("first", "rnet") \/ Refine("second", "onet") \/ Refine("third", "final")
  PROVE  BoxInv'
<1>1. PICK r \in [1..4 -> Offsets] : /\ box' = Refined(box, r)
                                     /\ jumped' = (jumped \/ \E i \in 1..4 : ~UpToQuarter(r[i]))
  BY DEF Refine
<1>2. /\ stage = "first"  => stage' = "rnet" /\ (Gentle => BoxRoomy(box))
      /\ stage = "second" => stage' = "onet" /\ (Gentle => BoxWithin(box, 18))
      /\ stage = "third"  => stage' = "final" /\ (Gentle => BoxWithin(box, 8))
      /\ stage \in {"first", "second", "third"} /\ box \in Boxed
  BY DEF Refine, BoxInv
<1>3. r \in [1..4 -> Int]
  BY BoxPathAssumption
<1>4. /\ box' \in Boxed /\ box'.area = AreaOf(box') /\ InMargins(box')
      /\ (\A i \in 1..4 : UpToQuarter(r[i])) =>
           /\ BoxRoomy(box)      => BoxWithin(box', 18)
           /\ BoxWithin(box, 18) => BoxWithin(box', 8)
           /\ BoxWithin(box, 8)  => BoxWithin(box', 3)
  BY <1>1, <1>2, <1>3, RefinedWithin
<1>5. Gentle' => Gentle /\ \A i \in 1..4 : UpToQuarter(r[i])
  <2>1. asked' = asked
    BY DEF Refine, pyramidVars
  <2> QED
    BY <1>1, <2>1, Zenon DEF Gentle
<1>6. jumped' \in BOOLEAN
  BY <1>1
<1>7. /\ stage' \in {"rnet", "onet", "final"}
      /\ Gentle' /\ stage' = "rnet"  => BoxWithin(box', 18)
      /\ Gentle' /\ stage' = "onet"  => BoxWithin(box', 8)
      /\ Gentle' /\ stage' = "final" => BoxWithin(box', 3)
  BY <1>2, <1>4, <1>5
<1> QED
  BY <1>4, <1>6, <1>7 DEF BoxInv, BoxWithin, InMargins, AreaOf

LEMMA NetworkStep ==
  ASSUME BoxInv, Network("rnet", "second") \/ Network("onet", "third")
  PROVE  BoxInv'
<1>1. /\ stage = "rnet" => stage' = "second" /\ (Gentle => BoxWithin(box, 18))
      /\ stage = "onet" => stage' = "third" /\ (Gentle => BoxWithin(box, 8))
      /\ stage \in {"rnet", "onet"} /\ box \in Boxed /\ box' = WithArea(box)
      /\ InMargins(box) /\ jumped' \in BOOLEAN
  BY DEF Network, BoxInv
<1>2. Gentle' <=> Gentle
  BY DEF Network, pyramidVars, Gentle
<1>3. /\ box' \in Boxed /\ box'.area = AreaOf(box') /\ InMargins(box')
      /\ BoxWithin(box, 18) => BoxWithin(box', 18)
      /\ BoxWithin(box, 8)  => BoxWithin(box', 8)
  BY <1>1, WithAreaFresh DEF BoxWithin, InMargins
<1>4. /\ stage' \in {"second", "third"}
      /\ Gentle' /\ stage' = "second" => BoxWithin(box', 18)
      /\ Gentle' /\ stage' = "third"  => BoxWithin(box', 8)
  BY <1>1, <1>2, <1>3
<1> QED
  BY <1>1, <1>3, <1>4 DEF BoxInv, BoxWithin, InMargins, AreaOf

LEMMA BoxPathStep == BoxPathInv /\ [Next]_vars => BoxPathInv'
<1> SUFFICES ASSUME BoxPathInv, [Next]_vars PROVE BoxPathInv'
  OBVIOUS
<1>1. [PyramidNext]_pyramidVars
  BY DEF Next, Scaling, Generate, Refine, Network, vars
<1>2. PyramidInv' /\ ScaleInv'
  BY <1>1, PyramidStep, ScaleStep DEF BoxPathInv
<1>3. BoxInv'
  <2>1. CASE Scaling
    <3>1. stage = "scales" /\ UNCHANGED <<stage, box, jumped>>
      BY <2>1 DEF Scaling
    <3> QED
      BY <3>1 DEF BoxPathInv, BoxInv, AreaOf
  <2>2. CASE UNCHANGED vars
    <3>1. UNCHANGED <<stage, box, jumped>> /\ (Gentle' <=> Gentle)
      BY <2>2 DEF vars, pyramidVars, Gentle
    <3> QED
      BY <3>1 DEF BoxPathInv, BoxInv, BoxRoomy, BoxWithin, InMargins, AreaOf
  <2> QED
    BY <2>1, <2>2, GenerateStep, RefineStep, NetworkStep DEF BoxPathInv, Next
<1> QED
  BY <1>2, <1>3 DEF BoxPathInv

LEMMA BoxPathInvariant == Spec => []BoxPathInv
BY BoxPathInitInv, BoxPathStep, PTL DEF Spec

\* In an image of any size PyramidAssumption allows, for any offsets and any
\* minsize, no margin of a cut for RNet or ONet is negative; and the cut is not
\* empty unless an offset has moved a side by more than a quarter of the box.
THEOREM BoxCutNotEmpty == Spec => []CutNotEmpty
<1>1. BoxPathInv => CutNotEmpty
  <2> SUFFICES ASSUME BoxPathInv, stage \in {"rnet", "onet"}
               PROVE  InMargins(box) /\ (Gentle => box.x1 < box.x2 /\ box.y1 < box.y2)
    BY DEF CutNotEmpty, InMargins
  <2>1. InMargins(box)
    BY DEF BoxPathInv, BoxInv
  <2>2. Gentle => box.x1 < box.x2 /\ box.y1 < box.y2
    BY DEF BoxPathInv, BoxInv, BoxWithin, Inside
  <2> QED
    BY <2>1, <2>2
<1> QED
  BY <1>1, BoxPathInvariant, PTL

\* For any offsets, what is given to nms suppresses itself exactly if its sides
\* are wide enough: no area is stale. They are unless an offset has moved a
\* side by more than a quarter of the box.
THEOREM BoxNmsDrains == Spec => []NmsDrains
<1>1. ASSUME BoxPathInv, NEW t \in 1..10, NEW mode \in {"Union", "Min"},
             stage \in {"first", "second", "final"}
      PROVE  Drains(t, mode)
  <2>1. box \in Boxed /\ box.area = AreaOf(box)
    BY <1>1 DEF BoxPathInv, BoxInv
  <2>2. {box.x1, box.y1, box.x2, box.y2} \subseteq Int
    BY <2>1 DEF Boxed
  <2>3. Suppresses(box, box, t, mode) <=> Wide(box, mode)
    BY <1>1, <2>1, <2>2, SuppressesItselfIffWide
  <2>4. Gentle => box.x2 - box.x1 >= 3 /\ box.y2 - box.y1 >= 3
    BY <1>1, <2>2 DEF BoxPathInv, BoxInv, BoxRoomy, BoxWithin, Roomy, Inside
  <2>5. Gentle => Wide(box, mode)
    BY <2>2, <2>4 DEF Wide
  <2> QED
    BY <2>3, <2>5 DEF Drains
<1>2. BoxPathInv => NmsDrains
  BY <1>1 DEF NmsDrains
<1> QED
  BY <1>2, BoxPathInvariant, PTL

\* The "boundary check" keeps both corners in the image as long as no offset
\* moves a side by more than a quarter of the box, in any image and from any
\* cell; the run boundary_check shows an offset with which it does not.
THEOREM BoxBoundaryCheck == Spec => [](Gentle => BoundaryCheck)
<1>1. BoxPathInv => (Gentle => BoundaryCheck)
  BY BoxPathAssumption DEF BoxPathInv, BoxInv, BoxWithin, Inside, BoundaryCheck
<1> QED
  BY <1>1, BoxPathInvariant, PTL
=============================================================================
