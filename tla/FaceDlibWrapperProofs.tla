----------------------- MODULE FaceDlibWrapperProofs -----------------------
(***************************************************************************)
(* Proofs about FaceDlibWrapper: copies, conversions and findFace, for     *)
(* every buffer and every face.                                            *)
(***************************************************************************)
EXTENDS FaceDlibWrapper, TLAPS

\* Pixel k is read at (k - 1) * bytes.
CopyInv == /\ \A k \in DOMAIN img : img[k] = (k - 1) * buffer.bytes
           /\ method # "image" => buffer.bytes = 4 /\ buffer.space = "rgb"
           /\ method = "image" => Packed(buffer) /\ Len(faces) = 1

\* The rectangles of a frame are the converted bounds, in order.
RectInv == method = "sample" =>
             \A i \in DOMAIN rects : i \in DOMAIN faces /\ rects[i] = Converted(faces[i])

\* maxFace is the widest feature findFace has looked at.
WidestInv ==
  /\ \A i \in DOMAIN faces : i < it =>
       IF maxFace = 0 THEN faces[i].w = 0 ELSE faces[i].w <= faces[maxFace].w
  /\ method = "find" /\ done => it > Len(faces)

WrapperInv == TypeOK /\ CopyInv /\ RectInv /\ WidestInv
-----------------------------------------------------------------------------
\* Truncation moves a coordinate by less than a pixel and keeps the order.
LEMMA TruncNear ==
  ASSUME NEW q \in Int
  PROVE  Trunc(q) \in Int /\ 4 * Trunc(q) - q \in -3..3
BY DEF Trunc

LEMMA TruncFar ==
  ASSUME NEW a \in Int, NEW w \in Nat
  PROVE  a <= Trunc(4 * a + w)
BY DEF Trunc

LEMMA ConvertedNear ==
  ASSUME NEW f \in Bounds
  PROVE  /\ Near(Converted(f), f)
         /\ Converted(f) \in [left : Int, top : Int, right : Int, bottom : Int]
<1>1. f.x \in Int /\ f.y \in Int /\ f.w \in Nat /\ f.h \in Nat
  BY WrapperAssumption
<1> DEFINE left   == Trunc(f.x)
           top    == Trunc(f.y)
           right  == Trunc(4 * left + f.w)
           bottom == Trunc(4 * top + f.h)
<1>2. /\ left \in Int /\ 4 * left - f.x \in -3..3
      /\ top \in Int /\ 4 * top - f.y \in -3..3
  BY <1>1, TruncNear
<1>3. 4 * left + f.w \in Int /\ 4 * top + f.h \in Int
  BY <1>1, <1>2
<1>4. /\ right \in Int /\ 4 * right - (4 * left + f.w) \in -3..3
      /\ bottom \in Int /\ 4 * bottom - (4 * top + f.h) \in -3..3
  BY <1>3, TruncNear
<1>5. left <= right /\ top <= bottom
  BY <1>1, <1>2, TruncFar
<1>6. Converted(f) = [left |-> left, top |-> top, right |-> right, bottom |-> bottom]
  BY DEF Converted
<1> HIDE DEF left, top, right, bottom
<1>7. 4 * right - f.x - f.w \in -7..7 /\ 4 * bottom - f.y - f.h \in -7..7
  BY <1>1, <1>2, <1>4
<1> QED
  BY <1>2, <1>4, <1>5, <1>6, <1>7 DEF Near

\* The bytes of pixel k, as many as the pixels have, are in the buffer.
LEMMA PixelInBuffer ==
  ASSUME NEW b \in Buffers, NEW k \in Nat, k >= 1, k <= b.width * b.height
  PROVE  (k - 1) * b.bytes + b.bytes <= Size(b)
<1> DEFINE w == b.width
           h == b.height
           e == b.bytes
           s == b.stride
<1>1. w \in Nat /\ h \in Nat /\ e \in Nat /\ s \in Nat /\ s >= e * w /\ k <= w * h
  BY WrapperAssumption
<1> HIDE DEF w, h, e, s
<1>2. w * h \in Nat /\ e * w \in Nat /\ s * h \in Nat
  BY <1>1
<1>3. (e * w) * h <= s * h
  BY <1>1, <1>2
<1>4. (e * w) * h = e * (w * h)
  BY <1>1
<1>5. e * k <= e * (w * h)
  BY <1>1, <1>2
<1>6. (k - 1) * e + e = e * k
  BY <1>1
<1> DEFINE a == e * k
           c == e * (w * h)
           d == s * h
<1>7. a \in Int /\ c \in Int /\ d \in Int
  BY <1>1, <1>2
<1>8. a <= d
  <2>1. a <= c /\ c <= d
    BY <1>3, <1>4, <1>5
  <2> HIDE DEF a, c, d
  <2> QED
    BY <1>7, <2>1
<1> QED
  BY <1>6, <1>8 DEF w, h, e, s, Size

LEMMA LargerSquare ==
  ASSUME NEW a \in Nat, NEW b \in Nat
  PROVE  /\ a * a > b * b => a > b
         /\ ~(a * a > b * b) => a <= b
<1>1. a >= b => a * a >= b * b
  OBVIOUS
<1>2. b >= a => b * b >= a * a
  OBVIOUS
<1>3. a > b => a * a > b * b
  OBVIOUS
<1> QED
  BY <1>1, <1>2, <1>3
-----------------------------------------------------------------------------
LEMMA WrapperInit == Init => WrapperInv
<1> SUFFICES ASSUME Init PROVE WrapperInv
  OBVIOUS
<1>1. /\ buffer \in Buffers /\ done = FALSE /\ img = <<>> /\ rects = <<>> /\ it = 1 /\ maxFace = 0
      /\ method \in {"sample", "image", "find"}
      /\ method # "image" => buffer.bytes = 4 /\ buffer.space = "rgb"
      /\ method = "image" => Packed(buffer) /\ Len(faces) = 1
  BY DEF Init
<1>2. faces \in Seq(Bounds) /\ Len(faces) \in Nat /\ DOMAIN faces = 1..Len(faces)
  BY DEF Init
<1>3. buffer.width \in Nat /\ buffer.height \in Nat
  BY <1>1, WrapperAssumption
<1>4. CopyInv
  BY <1>1, <1>3 DEF CopyInv
<1>5. RectInv
  BY <1>1 DEF RectInv
<1>6. WidestInv
  BY <1>1, <1>2 DEF WidestInv
<1>7. TypeOK
  <2>1. it \in 1..(Len(faces) + 1) /\ maxFace \in 0..Len(faces)
    BY <1>1, <1>2
  <2>2. /\ img \in Seq(Nat) /\ Len(img) <= buffer.width * buffer.height
        /\ rects \in Seq([left : Int, top : Int, right : Int, bottom : Int])
    <3>1. 0 <= buffer.width * buffer.height
      BY <1>3
    <3> QED
      BY <1>1, <3>1
  <2> QED
    BY <1>1, <1>2, <2>1, <2>2, Zenon DEF TypeOK
<1> QED
  BY <1>4, <1>5, <1>6, <1>7 DEF WrapperInv

LEMMA CopyStep == WrapperInv /\ CopyPixel => WrapperInv'
<1> SUFFICES ASSUME WrapperInv, CopyPixel PROVE WrapperInv'
  OBVIOUS
<1> DEFINE n == Len(img)
<1>1. /\ img' = Append(img, Offset(n, buffer)) /\ n # buffer.width * buffer.height
      /\ UNCHANGED <<method, buffer, faces, done, rects, it, maxFace>>
  BY DEF CopyPixel, Copied, arguments
<1>2. /\ buffer \in Buffers /\ img \in Seq(Nat) /\ n \in Nat /\ DOMAIN img = 1..n
      /\ n <= buffer.width * buffer.height
      /\ \A k \in 1..n : img[k] = (k - 1) * buffer.bytes
  BY DEF WrapperInv, TypeOK, CopyInv
<1>3. buffer.width \in Nat /\ buffer.height \in Nat /\ buffer.width * buffer.height \in Nat
      /\ buffer.bytes \in Nat
  <2>1. buffer.width \in Nat /\ buffer.height \in Nat /\ buffer.bytes \in Nat
    BY <1>2, WrapperAssumption
  <2> QED
    BY <2>1
<1>4. n < buffer.width * buffer.height
  BY <1>1, <1>2, <1>3
<1>5. n * buffer.bytes \in Nat /\ Offset(n, buffer) = n * buffer.bytes
  BY <1>2, <1>3 DEF Offset
<1> HIDE DEF n
<1>6. /\ img' \in Seq(Nat) /\ Len(img') = n + 1 /\ DOMAIN img' = 1..(n + 1)
      /\ img'[n + 1] = n * buffer.bytes /\ \A k \in 1..n : img'[k] = img[k]
  BY <1>1, <1>2, <1>5 DEF n
<1>7. \A k \in 1..(n + 1) : img'[k] = (k - 1) * buffer.bytes
  <2> TAKE k \in 1..(n + 1)
  <2>1. CASE k = n + 1
    <3>1. k - 1 = n
      BY <1>2, <2>1
    <3> QED
      BY <1>6, <2>1, <3>1
  <2>2. CASE k # n + 1
    <3>1. k \in 1..n
      BY <1>2, <2>2
    <3> QED
      BY <1>2, <1>6, <3>1
  <2> QED
    BY <2>1, <2>2
<1>8. n + 1 <= buffer.width * buffer.height
  BY <1>2, <1>3, <1>4
<1>9. CopyInv'
  BY <1>1, <1>6, <1>7 DEF CopyInv, WrapperInv
<1>10. RectInv' /\ WidestInv'
  BY <1>1 DEF WrapperInv, RectInv, WidestInv
<1>11. TypeOK'
  BY <1>1, <1>6, <1>8 DEF WrapperInv, TypeOK
<1> QED
  BY <1>9, <1>10, <1>11 DEF WrapperInv

LEMMA PredictStep == WrapperInv /\ Predict => WrapperInv'
<1> SUFFICES ASSUME WrapperInv, Predict PROVE WrapperInv'
  OBVIOUS
<1> DEFINE Rects == [left : Int, top : Int, right : Int, bottom : Int]
<1>1. /\ method # "find" /\ done' = TRUE /\ UNCHANGED <<method, buffer, faces, img, it, maxFace>>
      /\ rects' = IF method = "sample" THEN [i \in DOMAIN faces |-> Converted(faces[i])]
                                       ELSE <<FromRect(faces[1])>>
  BY DEF Predict, arguments
<1>2. faces \in Seq(Bounds) /\ Len(faces) \in Nat /\ DOMAIN faces = 1..Len(faces)
  BY DEF WrapperInv, TypeOK
<1>3. rects' \in Seq(Rects)
  <2>1. CASE method = "sample"
    <3>1. \A i \in 1..Len(faces) : Converted(faces[i]) \in Rects
      BY <1>2, ConvertedNear
    <3> HIDE DEF Rects
    <3> QED
      BY <1>1, <1>2, <2>1, <3>1
  <2>2. CASE method # "sample"
    <3>1. Len(faces) = 1 /\ faces[1] \in Bounds
      BY <1>1, <1>2, <2>2 DEF WrapperInv, TypeOK, CopyInv
    <3>2. faces[1].x \in Int /\ faces[1].y \in Int /\ faces[1].w \in Int /\ faces[1].h \in Int
      BY <3>1, WrapperAssumption
    <3>3. FromRect(faces[1]) \in Rects
      BY <3>2, TruncNear DEF FromRect
    <3> HIDE DEF Rects
    <3> QED
      BY <1>1, <2>2, <3>3
  <2> QED
    BY <2>1, <2>2
<1>4. TypeOK'
  BY <1>1, <1>3 DEF WrapperInv, TypeOK
<1>5. RectInv'
  BY <1>1 DEF RectInv
<1>6. CopyInv' /\ WidestInv'
  BY <1>1 DEF WrapperInv, CopyInv, WidestInv
<1> QED
  BY <1>4, <1>5, <1>6 DEF WrapperInv

LEMMA FeatureStep == WrapperInv /\ Feature => WrapperInv'
<1> SUFFICES ASSUME WrapperInv, Feature PROVE WrapperInv'
  OBVIOUS
<1>1. /\ method = "find" /\ it <= Len(faces) /\ it' = it + 1
      /\ maxFace' = IF Better(faces[it]) THEN it ELSE maxFace
      /\ UNCHANGED <<method, buffer, faces, done, img, rects>>
  BY DEF Feature, arguments
<1>2. /\ faces \in Seq(Bounds) /\ Len(faces) \in Nat /\ DOMAIN faces = 1..Len(faces)
      /\ it \in 1..Len(faces) /\ maxFace \in 0..Len(faces)
  BY <1>1 DEF WrapperInv, TypeOK
<1>3. \A i \in DOMAIN faces : faces[i].w \in Nat
  <2> TAKE i \in DOMAIN faces
  <2>1. faces[i] \in Bounds
    BY <1>2
  <2> QED
    BY <2>1, WrapperAssumption
<1>4. /\ maxFace = 0 => (Better(faces[it]) <=> faces[it].w * faces[it].w > 0)
      /\ maxFace # 0 => (Better(faces[it]) <=>
                           faces[it].w * faces[it].w > faces[maxFace].w * faces[maxFace].w)
  BY DEF Better, Area
<1>5. \A i \in DOMAIN faces : i < it =>
        IF maxFace = 0 THEN faces[i].w = 0 ELSE faces[i].w <= faces[maxFace].w
  BY DEF WrapperInv, WidestInv
<1>6. \A i \in DOMAIN faces : i < it' =>
        IF maxFace' = 0 THEN faces[i].w = 0 ELSE faces[i].w <= faces[maxFace'].w
  <2> SUFFICES ASSUME NEW i \in DOMAIN faces, i < it'
               PROVE  IF maxFace' = 0 THEN faces[i].w = 0 ELSE faces[i].w <= faces[maxFace'].w
    OBVIOUS
  <2> DEFINE w == faces[it].w
             v == faces[i].w
             m == faces[maxFace].w
  <2>1. i = it \/ i < it
    BY <1>1, <1>2
  <2>2. w \in Nat /\ v \in Nat /\ (maxFace # 0 => m \in Nat)
    BY <1>2, <1>3
  <2>3. CASE maxFace = 0
    <3>1. Better(faces[it]) <=> w * w > 0
      BY <1>4, <2>3
    <3>2. i < it => v = 0
      BY <1>5, <2>3
    <3> HIDE DEF w, v
    <3>3. w * w > 0 <=> w > 0
      BY <2>2, LargerSquare
    <3>4. CASE Better(faces[it])
      <4>1. maxFace' = it /\ it # 0
        BY <1>1, <1>2, <3>4
      <4>2. v <= w
        BY <2>1, <2>2, <3>2 DEF v, w
      <4> QED
        BY <4>1, <4>2 DEF v, w
    <3>5. CASE ~Better(faces[it])
      <4>1. maxFace' = 0
        BY <1>1, <2>3, <3>5
      <4>2. w = 0
        BY <2>2, <3>1, <3>3, <3>5
      <4>3. v = 0
        BY <2>1, <3>2, <4>2 DEF v, w
      <4> QED
        BY <4>1, <4>3 DEF v
    <3> QED
      BY <3>4, <3>5
  <2>4. CASE maxFace # 0
    <3>1. Better(faces[it]) <=> w * w > m * m
      BY <1>4, <2>4
    <3>2. i < it => v <= m
      BY <1>5, <2>4
    <3> HIDE DEF w, v, m
    <3>3. w * w > m * m <=> w > m
      BY <2>2, <2>4, LargerSquare
    <3>4. CASE Better(faces[it])
      <4>1. maxFace' = it /\ it # 0
        BY <1>1, <1>2, <3>4
      <4>2. v <= w
        <5>1. CASE i = it
          BY <5>1, <2>2 DEF v, w
        <5>2. CASE i < it
          BY <5>2, <2>2, <2>4, <3>1, <3>2, <3>3, <3>4
        <5> QED
          BY <2>1, <5>1, <5>2
      <4> QED
        BY <4>1, <4>2 DEF v, w
    <3>5. CASE ~Better(faces[it])
      <4>1. maxFace' = maxFace
        BY <1>1, <3>5
      <4>2. w <= m
        BY <2>2, <2>4, <3>1, <3>3, <3>5
      <4>3. v <= m
        BY <2>1, <3>2, <4>2 DEF v, w
      <4> QED
        BY <2>4, <4>1, <4>3 DEF v, m
    <3> QED
      BY <3>4, <3>5
  <2> QED
    BY <2>3, <2>4
<1>7. it' \in 1..(Len(faces) + 1) /\ maxFace' \in 0..Len(faces)
  BY <1>1, <1>2
<1>8. TypeOK'
  BY <1>1, <1>7 DEF WrapperInv, TypeOK
<1>9. ~done
  BY <1>1, <1>2 DEF WrapperInv, WidestInv
<1>10. WidestInv'
  BY <1>1, <1>6, <1>9 DEF WidestInv
<1>11. CopyInv' /\ RectInv'
  BY <1>1 DEF WrapperInv, CopyInv, RectInv
<1> QED
  BY <1>8, <1>10, <1>11 DEF WrapperInv

LEMMA FoundStep == WrapperInv /\ (Found \/ UNCHANGED vars) => WrapperInv'
<1> SUFFICES ASSUME WrapperInv, Found \/ UNCHANGED vars PROVE WrapperInv'
  OBVIOUS
<1>1. /\ UNCHANGED <<method, buffer, faces, img, rects, it, maxFace>>
      /\ done' = done \/ (done' = TRUE /\ it > Len(faces))
  BY DEF Found, vars, arguments
<1>2. CopyInv' /\ RectInv' /\ TypeOK'
  BY <1>1 DEF WrapperInv, CopyInv, RectInv, TypeOK
<1>3. WidestInv'
  BY <1>1 DEF WrapperInv, WidestInv
<1> QED
  BY <1>2, <1>3 DEF WrapperInv

LEMMA WrapperStep == WrapperInv /\ [Next]_vars => WrapperInv'
BY CopyStep, PredictStep, FeatureStep, FoundStep DEF Next

\* What has been copied, converted and compared so far is right.
THEOREM WrapperInvariant == Spec => []WrapperInv
BY WrapperInit, WrapperStep, PTL DEF Spec
-----------------------------------------------------------------------------
\* No method writes more pixels than the image has, and findFace never returns
\* a feature the array does not have.
THEOREM WrapperTypeOK == Spec => []TypeOK
<1>1. WrapperInv => TypeOK
  BY DEF WrapperInv
<1> QED
  BY <1>1, WrapperInvariant, PTL

\* The copy reads past the end only of images with fewer bytes a pixel than it
\* reads of one.
THEOREM WrapperOverreadOnlyIfNarrow == Spec => []OverreadOnlyIfNarrow
<1>1. WrapperInv => OverreadOnlyIfNarrow
  <2> SUFFICES ASSUME WrapperInv, NEW k \in DOMAIN img, ~(buffer.bytes < Span(buffer))
               PROVE  ~(img[k] + Span(buffer) > Size(buffer))
    BY DEF OverreadOnlyIfNarrow
  <2>1. buffer \in Buffers /\ k \in Nat /\ k >= 1 /\ k <= Len(img) /\ Len(img) \in Nat
        /\ Len(img) <= buffer.width * buffer.height /\ img[k] = (k - 1) * buffer.bytes
    BY DEF WrapperInv, TypeOK, CopyInv
  <2>2. buffer.bytes \in Nat /\ buffer.width * buffer.height \in Nat /\ Size(buffer) \in Nat
    <3>1. /\ buffer.bytes \in Nat /\ buffer.width \in Nat /\ buffer.height \in Nat
          /\ buffer.stride \in Nat
      BY <2>1, WrapperAssumption
    <3> QED
      BY <3>1 DEF Size
  <2>3. (k - 1) * buffer.bytes + buffer.bytes <= Size(buffer)
    <3>1. k <= buffer.width * buffer.height
      BY <2>1, <2>2
    <3> QED
      BY <2>1, <3>1, PixelInBuffer
  <2>4. (k - 1) * buffer.bytes \in Int
    BY <2>1, <2>2
  <2>5. Span(buffer) \in Nat
    BY DEF Span
  <2> DEFINE x == (k - 1) * buffer.bytes
             e == buffer.bytes
             n == Size(buffer)
             r == Span(buffer)
  <2>6. /\ x \in Int /\ e \in Nat /\ n \in Nat /\ r \in Nat
        /\ x + e <= n /\ ~(e < r) /\ img[k] = x
    BY <2>1, <2>2, <2>3, <2>4, <2>5
  <2> HIDE DEF x, e, n, r
  <2>7. ~(img[k] + r > n)
    BY <2>6
  <2> QED
    BY <2>7 DEF r, n
<1> QED
  BY <1>1, WrapperInvariant, PTL

\* Where position * bytes looks for a pixel, by its row and column.
LEMMA PlaceOf ==
  ASSUME NEW b \in Buffers, NEW n \in Nat
  PROVE  LET q == n \div b.width
             c == n % b.width
         IN  /\ q \in Nat /\ c \in Nat
             /\ n * b.bytes = q * (b.bytes * b.width) + c * b.bytes
<1> DEFINE w == b.width
           e == b.bytes
           q == n \div w
           c == n % w
<1>1. w \in Nat /\ w > 0 /\ e \in Nat
  BY WrapperAssumption
<1>2. q \in Nat /\ c \in Nat /\ n = w * q + c
  <2> HIDE DEF w
  <2> QED
    BY <1>1
<1> HIDE DEF w, e, q, c
<1>3. n * e = (w * q + c) * e
  BY <1>2
<1>4. (w * q + c) * e = q * (e * w) + c * e
  BY <1>1, <1>2
<1> QED
  BY <1>2, <1>3, <1>4 DEF w, e, q, c

\* x times two different numbers is the same only for 0.
LEMMA SameProduct ==
  ASSUME NEW x \in Nat, NEW a \in Nat, NEW b \in Nat
  PROVE  x * a = x * b <=> x = 0 \/ a = b
<1>1. a < b /\ x > 0 => x * a < x * b
  OBVIOUS
<1>2. b < a /\ x > 0 => x * b < x * a
  OBVIOUS
<1>3. x = 0 => x * a = x * b
  OBVIOUS
<1>4. x * a \in Int /\ x * b \in Int
  OBVIOUS
<1> QED
  BY <1>1, <1>2, <1>3, <1>4

\* Which pixels of a frame or an image of any size the copy gets right.
THEOREM WrapperInPlaceExactly == Spec => []InPlaceExactly
<1>1. WrapperInv => InPlaceExactly
  <2> SUFFICES ASSUME WrapperInv, NEW k \in DOMAIN img
               PROVE  img[k] = Place(k) <=> /\ Row(k) = 0 \/ Packed(buffer)
                                            /\ Column(k) = 0 \/ buffer.bytes = Depth(buffer)
    BY DEF InPlaceExactly
  <2> DEFINE q == Row(k)
             c == Column(k)
             e == buffer.bytes
             d == Depth(buffer)
             s == buffer.stride
             t == e * buffer.width
  <2>1. buffer \in Buffers /\ k - 1 \in Nat /\ img[k] = (k - 1) * e
    BY DEF WrapperInv, TypeOK, CopyInv
  <2>2. q \in Nat /\ c \in Nat /\ img[k] = q * t + c * e
    BY <2>1, PlaceOf DEF Row, Column
  <2>3. e \in Nat /\ s \in Nat /\ t \in Nat /\ d \in Nat
    <3>1. e \in Nat /\ s \in Nat /\ buffer.width \in Nat
      BY <2>1, WrapperAssumption
    <3> QED
      BY <3>1 DEF Depth
  <2>4. Place(k) = q * s + c * d
    BY DEF Place
  <2>5. Packed(buffer) <=> s = t
    BY DEF Packed
  <2>6. s = t \/ e = d
    BY <2>5 DEF WrapperInv, TypeOK, CopyInv, Depth, IsGray
  <2> HIDE DEF q, c, e, d, s, t
  <2>7. /\ q * t \in Int /\ q * s \in Int /\ c * e \in Int /\ c * d \in Int
        /\ q * t = q * s <=> q = 0 \/ t = s
        /\ c * e = c * d <=> c = 0 \/ e = d
    BY <2>2, <2>3, SameProduct
  <2>8. q * t + c * e = q * s + c * d <=> (q = 0 \/ s = t) /\ (c = 0 \/ e = d)
    <3> DEFINE x == q * t
               y == q * s
               u == c * e
               v == c * d
    <3>1. x \in Int /\ y \in Int /\ u \in Int /\ v \in Int /\ (x = y \/ u = v)
      BY <2>6, <2>7
    <3> HIDE DEF x, y, u, v
    <3>2. x + u = y + v <=> x = y /\ u = v
      BY <3>1
    <3> QED
      BY <2>7, <3>2 DEF x, y, u, v
  <2>9. img[k] = Place(k) <=> (q = 0 \/ s = t) /\ (c = 0 \/ e = d)
    BY <2>2, <2>4, <2>8
  <2> QED
    BY <2>5, <2>9 DEF q, c, e, d
<1> QED
  BY <1>1, WrapperInvariant, PTL

\* Every rectangle a frame gives the predictor covers its face, wherever the
\* face lies.
THEOREM WrapperRectsCoverFaces == Spec => []RectsCoverFaces
<1>1. WrapperInv => RectsCoverFaces
  <2> SUFFICES ASSUME WrapperInv, method = "sample", NEW i \in DOMAIN rects
               PROVE  Near(rects[i], faces[i])
    BY DEF RectsCoverFaces
  <2>1. i \in DOMAIN faces /\ rects[i] = Converted(faces[i])
    BY DEF WrapperInv, RectInv
  <2>2. faces[i] \in Bounds
    BY <2>1 DEF WrapperInv, TypeOK
  <2> QED
    BY <2>1, <2>2, ConvertedNear
<1> QED
  BY <1>1, WrapperInvariant, PTL

\* findFace returns the widest face, and nothing only if none has a width.
THEOREM WrapperWidestFound == Spec => []WidestFound
<1>1. WrapperInv => WidestFound
  <2> SUFFICES ASSUME WrapperInv, method = "find", done, NEW i \in DOMAIN faces
               PROVE  IF maxFace = 0 THEN faces[i].w = 0 ELSE faces[i].w <= faces[maxFace].w
    BY DEF WidestFound
  <2>1. i \in Int /\ i <= Len(faces) /\ Len(faces) \in Int /\ it \in Int
    BY DEF WrapperInv, TypeOK
  <2>2. it > Len(faces)
    BY DEF WrapperInv, WidestInv
  <2>3. i < it
    BY <2>1, <2>2
  <2> QED
    BY <2>3 DEF WrapperInv, WidestInv
<1> QED
  BY <1>1, WrapperInvariant, PTL
-----------------------------------------------------------------------------
\* The rectangle faceRect: gives the predictor is FromRect of its face.
FaceRectInv ==
  method = "image" => Len(faces) = 1 /\ (\A i \in DOMAIN rects : i = 1 /\ rects[i] = FromRect(faces[1]))

LEMMA FaceRectInit == Init => FaceRectInv
<1> SUFFICES ASSUME Init, method = "image"
             PROVE  Len(faces) = 1 /\ rects = <<>>
  BY DEF FaceRectInv
<1> QED
  BY DEF Init

LEMMA FaceRectStep == FaceRectInv /\ [Next]_vars => FaceRectInv'
<1> SUFFICES ASSUME FaceRectInv, [Next]_vars PROVE FaceRectInv'
  OBVIOUS
<1>1. CASE Predict
  <2>1. method' = method /\ faces' = faces
    BY <1>1 DEF Predict, arguments
  <2>2. ASSUME method = "image" PROVE rects' = <<FromRect(faces[1])>>
    BY <1>1, <2>2 DEF Predict
  <2> QED
    BY <2>1, <2>2 DEF FaceRectInv
<1>2. CASE CopyPixel \/ Feature \/ Found \/ UNCHANGED vars
  <2>1. method' = method /\ faces' = faces /\ rects' = rects
    BY <1>2 DEF CopyPixel, Feature, Found, vars, arguments
  <2> QED
    BY <2>1 DEF FaceRectInv
<1> QED
  BY <1>1, <1>2 DEF Next

\* The rectangle of faceRect: is the face's only if the face begins within
\* two and a half pixels of the corner of the image, whatever its size: FaceRectKept,
\* which the run face_rect violates, fails for every other face.
THEOREM WrapperFaceRectNeedsOrigin ==
  Spec => [](method = "image" =>
               \A i \in DOMAIN rects : Near(rects[i], faces[i]) =>
                 faces[i].x \in -10..10 /\ faces[i].y \in -10..10)
<1>1. TypeOK /\ FaceRectInv =>
        (method = "image" =>
           \A i \in DOMAIN rects : Near(rects[i], faces[i]) =>
             faces[i].x \in -10..10 /\ faces[i].y \in -10..10)
  <2> SUFFICES ASSUME TypeOK, FaceRectInv, method = "image",
                      NEW i \in DOMAIN rects, Near(rects[i], faces[i])
               PROVE  faces[i].x \in -10..10 /\ faces[i].y \in -10..10
    OBVIOUS
  <2> DEFINE f == faces[1]
  <2>1. i = 1 /\ rects[i] = FromRect(f) /\ f \in Bounds
    BY DEF TypeOK, FaceRectInv
  <2>2. f.x \in Int /\ f.y \in Int /\ f.w \in Int /\ f.h \in Int
    BY <2>1, WrapperAssumption
  <2>3. /\ Trunc(f.w) \in Int /\ 4 * Trunc(f.w) - f.w \in -3..3
        /\ Trunc(f.h) \in Int /\ 4 * Trunc(f.h) - f.h \in -3..3
    BY <2>2, TruncNear
  <2>4. 4 * Trunc(f.w) - f.x - f.w \in -7..7 /\ 4 * Trunc(f.h) - f.y - f.h \in -7..7
    BY <2>1 DEF Near, FromRect
  <2> HIDE DEF f
  <2>5. f.x \in -10..10 /\ f.y \in -10..10
    BY <2>2, <2>3, <2>4
  <2> QED
    BY <2>1, <2>5 DEF f
<1> QED
  BY <1>1, FaceRectInit, FaceRectStep, WrapperTypeOK, PTL DEF Spec
=============================================================================
