----------------------------- MODULE NmsProofs -----------------------------
(***************************************************************************)
(* MTCNN::nms for every input vector and every threshold: the inductive    *)
(* invariant of the loop, and what follows from it.                        *)
(***************************************************************************)
EXTENDS Nms, FiniteSetTheorems, SequenceTheorems, TLAPS

USE DEF Indices, Best, After, Picked

\* Coordinates and area are integers.
Whole(b) == {b.x1, b.y1, b.x2, b.y2, b.area} \subseteq Int

\* The intersection nms computes does not depend on the order of the boxes.
LEMMA InterSymmetric ==
  ASSUME NEW a, NEW b, Whole(a), Whole(b)
  PROVE  Inter(a, b) = Inter(b, a)
<1>1. /\ Larger(a.x1, b.x1) = Larger(b.x1, a.x1)
      /\ Larger(a.y1, b.y1) = Larger(b.y1, a.y1)
      /\ Smaller(a.x2, b.x2) = Smaller(b.x2, a.x2)
      /\ Smaller(a.y2, b.y2) = Smaller(b.y2, a.y2)
  BY DEF Whole, Larger, Smaller
<1> QED
  BY <1>1 DEF Inter

\* The intersection is a natural number: both extents are clamped at 0.
LEMMA InterType ==
  ASSUME NEW a, NEW b, Whole(a), Whole(b)
  PROVE  Inter(a, b) \in Nat
<1>1. \A lo, hi \in Int : Extent(lo, hi) \in Nat
  BY DEF Extent, Larger
<1>2. /\ Larger(a.x1, b.x1) \in Int /\ Larger(a.y1, b.y1) \in Int
      /\ Smaller(a.x2, b.x2) \in Int /\ Smaller(a.y2, b.y2) \in Int
  BY DEF Whole, Larger, Smaller
<1>3. \A m, n \in Nat : m * n \in Nat
  OBVIOUS
<1> QED
  BY <1>1, <1>2, <1>3 DEF Inter

\* nms tests a remaining box against the pick, callers read the result the
\* other way round: the measure is symmetric.
LEMMA SuppressesSymmetric ==
  ASSUME NEW a, NEW b, Whole(a), Whole(b), NEW t, NEW mode
  PROVE  Suppresses(a, b, t, mode) <=> Suppresses(b, a, t, mode)
<1>1. a.area \in Int /\ b.area \in Int
  BY DEF Whole
<1>2. Smaller(a.area, b.area) = Smaller(b.area, a.area)
  BY <1>1 DEF Smaller
<1>3. Inter(a, b) = Inter(b, a)
  BY InterSymmetric
<1>4. Inter(a, b) \in Int
  BY InterType
<1>5. a.area + b.area - Inter(a, b) = b.area + a.area - Inter(b, a)
  BY <1>1, <1>3, <1>4
<1>6. \A n, m, d, e : n = m /\ d = e => (RatioAbove(n, d, t) <=> RatioAbove(m, e, t))
  BY Zenon
<1> QED
  BY <1>2, <1>3, <1>5, <1>6 DEF Suppresses
-----------------------------------------------------------------------------
\* std::sort(cmpScore) keeps the length and the boxes and leaves them ascending.
LEMMA SortKeepsBoxes ==
  ASSUME NEW s \in Seq(Bbox), NEW r \in SortedByScore(s)
  PROVE  r \in Seq(Bbox) /\ Len(r) = Len(s) /\ Ascending(r)
<1>1. PICK p \in Arrangements(Len(s)) : r = [i \in DOMAIN s |-> s[p[i]]]
  BY DEF SortedByScore
<1>2. DOMAIN s = 1..Len(s) /\ Len(s) \in Nat /\ \A i \in 1..Len(s) : s[i] \in Bbox
  OBVIOUS
<1>3. p \in [1..Len(s) -> 1..Len(s)]
  BY DEF Arrangements, Bijection, Injection
<1>4. r \in [1..Len(s) -> Bbox]
  BY <1>1, <1>2, <1>3
<1>5. Ascending(r)
  BY DEF SortedByScore
<1> QED
  BY <1>2, <1>4, <1>5

\* ... and loses none of the boxes.
LEMMA SortKeepsAll ==
  ASSUME NEW s \in Seq(Bbox), NEW r \in SortedByScore(s), NEW i \in DOMAIN s
  PROVE  \E k \in DOMAIN r : r[k] = s[i]
<1>1. PICK p \in Arrangements(Len(s)) : r = [k \in DOMAIN s |-> s[p[k]]]
  BY DEF SortedByScore
<1>2. Len(s) \in Nat /\ DOMAIN s = 1..Len(s)
  OBVIOUS
<1>3. PICK k \in 1..Len(s) : p[k] = i
  BY <1>2 DEF Arrangements, Bijection, Surjection
<1> QED
  BY <1>1, <1>2, <1>3
-----------------------------------------------------------------------------
\* A family of subsets of 1..n, indexed by a nonempty set, has a member that
\* strictly contains no other: the well-foundedness behind Max and Min.
LEMMA MinimalByInclusion ==
  ASSUME NEW n \in Nat, NEW S \in SUBSET (1..n), S # {},
         NEW f \in [S -> SUBSET (1..n)]
  PROVE  \E m \in S : \A x \in S : ~(f[x] \subseteq f[m] /\ f[x] # f[m])
<1> DEFINE T == {f[x] : x \in S}
<1>1. IsFiniteSet(1..n)
  BY FS_Interval
<1>2. T \subseteq FiniteSubsetsOf(1..n) /\ T # {}
  <2>1. T \subseteq SUBSET (1..n) /\ T # {}
    OBVIOUS
  <2>2. FiniteSubsetsOf(1..n) = SUBSET (1..n)
    BY <1>1, FS_FiniteSubsetsOfFinite
  <2> QED
    BY <2>1, <2>2
<1>3. PICK U \in T : \A V \in T : ~(<<V, U>> \in StrictSubsetOrdering(1..n))
  <2> HIDE DEF T
  <2> QED
    BY <1>2, FS_StrictSubsetOrderingWellFounded, WFMin
<1>4. PICK m \in S : U = f[m]
  OBVIOUS
<1>5. ASSUME NEW x \in S PROVE ~(f[x] \subseteq f[m] /\ f[x] # f[m])
  <2>1. f[x] \in T /\ f[x] \in SUBSET (1..n) /\ f[m] \in SUBSET (1..n)
    OBVIOUS
  <2>2. <<f[x], f[m]>> \notin StrictSubsetOrdering(1..n)
    BY <2>1, <1>3, <1>4
  <2> QED
    BY <2>1, <2>2 DEF StrictSubsetOrdering
<1> QED
  BY <1>5

\* vScores.rbegin() (Pick) exists and is the greatest index left.
LEMMA MaxProperty ==
  ASSUME NEW n \in Nat, NEW S \in SUBSET (1..n), S # {}
  PROVE  /\ Max(S) \in S
         /\ \A x \in S : Max(S) >= x
<1> DEFINE above == [x \in S |-> {y \in S : y >= x}]
<1>1. above \in [S -> SUBSET (1..n)]
  OBVIOUS
<1>2. PICK m \in S : \A x \in S : ~(above[x] \subseteq above[m] /\ above[x] # above[m])
  <2> HIDE DEF above
  <2> QED
    BY <1>1, MinimalByInclusion
<1>3. \A x \in S : m >= x
  <2> SUFFICES ASSUME NEW x \in S, m < x PROVE FALSE
    OBVIOUS
  <2>1. /\ above[x] = {y \in S : y >= x}
        /\ above[m] = {y \in S : y >= m}
    OBVIOUS
  <2> HIDE DEF above
  <2>2. m \in Int /\ x \in Int /\ \A y \in S : y \in Int
    OBVIOUS
  <2>3. \A y \in S : y >= x => y >= m
    BY <2>2
  <2>4. m \notin above[x] /\ m \in above[m]
    BY <2>1, <2>2
  <2>5. above[x] \subseteq above[m]
    BY <2>1, <2>3
  <2> QED
    BY <2>4, <2>5, <1>2
<1> QED
  BY <1>3 DEF Max

\* The iterator position of Erase and Keep exists and is the least of Rest.
LEMMA MinProperty ==
  ASSUME NEW n \in Nat, NEW S \in SUBSET (1..n), S # {}
  PROVE  /\ Min(S) \in S
         /\ \A x \in S : Min(S) <= x
<1> DEFINE below == [x \in S |-> {y \in S : y <= x}]
<1>1. below \in [S -> SUBSET (1..n)]
  OBVIOUS
<1>2. PICK m \in S : \A x \in S : ~(below[x] \subseteq below[m] /\ below[x] # below[m])
  <2> HIDE DEF below
  <2> QED
    BY <1>1, MinimalByInclusion
<1>3. \A x \in S : m <= x
  <2> SUFFICES ASSUME NEW x \in S, x < m PROVE FALSE
    OBVIOUS
  <2>1. /\ below[x] = {y \in S : y <= x}
        /\ below[m] = {y \in S : y <= m}
    OBVIOUS
  <2> HIDE DEF below
  <2>2. m \in Int /\ x \in Int /\ \A y \in S : y \in Int
    OBVIOUS
  <2>3. \A y \in S : y <= x => y <= m
    BY <2>2
  <2>4. m \notin below[x] /\ m \in below[m]
    BY <2>1, <2>2
  <2>5. below[x] \subseteq below[m]
    BY <2>1, <2>3
  <2> QED
    BY <2>4, <2>5, <1>2
<1> QED
  BY <1>3 DEF Min
-----------------------------------------------------------------------------
\* Nothing left in the map overlaps a pick, except, during a scan, what the
\* scan for the last pick has not reached yet.
PickInv ==
  pc = "pick" => \A k \in DOMAIN vPick, i \in vScores : ~Over(i, vPick[k])

ScanInv ==
  pc = "scan" =>
    /\ vPick # <<>> /\ vPick[Len(vPick)] = last
    /\ \A i \in vScores : i <= last
    /\ \A k \in DOMAIN vPick, i \in vScores :
         k < Len(vPick) \/ i < it => ~Over(i, vPick[k])

\* If every pick erases itself, the picks are descending indices, so the k-th
\* is at most Len(boundingBox) - k + 1 and what is left lies below them.
Countdown ==
  (\A i \in DOMAIN boundingBox : Over(i, i)) =>
    /\ pc \in {"pick", "scan"} =>
         \A k \in DOMAIN vPick : vPick[k] <= Len(boundingBox) - k + 1
    /\ pc = "pick" => \A k \in DOMAIN vPick, i \in vScores : i < vPick[k]
    /\ pc = "scan" => \A k \in DOMAIN vPick : k < Len(vPick) =>
                        \A i \in vScores \cup {last} : i < vPick[k]

NmsInv ==
  /\ TypeOK
  /\ Working => Ascending(boundingBox)
  /\ pc = "start" => vPick = <<>>
  /\ PicksIndependent /\ DropsJustified
  /\ PickInv /\ ScanInv /\ Countdown
  /\ OverrunOnlyIfDegenerate

\* The state in which nms is entered satisfies the invariant.
LEMMA NmsInit == Init => NmsInv
BY NmsAssumption DEF Init, NmsInv, TypeOK, Working, PicksIndependent,
   DropsJustified, PickInv, ScanInv, Countdown, OverrunOnlyIfDegenerate

\* A step that leaves the boxes alone leaves every overlap as it was.
LEMMA OverUnchanged ==
  ASSUME boundingBox' = boundingBox
  PROVE  /\ \A i, j : Over(i, j)' <=> Over(i, j)
         /\ Ascending(boundingBox)' <=> Ascending(boundingBox)
BY DEF Over

\* SuppressesSymmetric for two indices of boundingBox_.
LEMMA OverSymmetric ==
  ASSUME TypeOK, NEW i \in DOMAIN boundingBox, NEW j \in DOMAIN boundingBox
  PROVE  Over(i, j) <=> Over(j, i)
<1>1. boundingBox[i] \in Bbox /\ boundingBox[j] \in Bbox
  BY DEF TypeOK
<1> QED
  BY <1>1, SuppressesSymmetric DEF Over, Whole, Bbox

\* Picking the best remaining box preserves the invariant.
LEMMA PickStep ==
  ASSUME NmsInv, Pick
  PROVE  NmsInv'
<1> DEFINE n == Len(boundingBox)
           m == Len(vPick)
<1>1. /\ pc = "pick" /\ vScores # {} /\ n \in Nat /\ m \in Nat /\ m < n
      /\ vScores \in SUBSET (1..n) /\ vPick \in Seq(1..n)
      /\ DOMAIN boundingBox = 1..n
      /\ UNCHANGED <<input, boundingBox, vScores>> /\ pc' = "scan" /\ it' = 1
      /\ last' = Max(vScores) /\ vPick' = Append(vPick, last')
  BY DEF NmsInv, TypeOK, Pick
<1>2. last' \in vScores /\ last' \in 1..n /\ \A i \in vScores : i <= last'
  BY <1>1, MaxProperty
<1>3. /\ Len(vPick') = m + 1 /\ vPick'[m + 1] = last'
      /\ DOMAIN vPick = 1..m /\ DOMAIN vPick' = 1..(m + 1)
      /\ \A k \in 1..m : vPick'[k] = vPick[k] /\ vPick[k] \in 1..n
      /\ vPick' \in Seq(1..n)
  BY <1>1, <1>2
<1>4. /\ \A i, j : Over(i, j)' <=> Over(i, j)
      /\ Ascending(boundingBox)' <=> Ascending(boundingBox)
  BY <1>1, OverUnchanged
<1>5. TypeOK'
  BY <1>1, <1>2, <1>3 DEF NmsInv, TypeOK
<1>6. (Working => Ascending(boundingBox))'
  BY <1>1, <1>4 DEF NmsInv, Working
<1>7. \A k \in 1..m, i \in vScores : ~Over(i, vPick[k]) /\ ~Over(vPick[k], i)
  <2> SUFFICES ASSUME NEW k \in 1..m, NEW i \in vScores
               PROVE  ~Over(i, vPick[k]) /\ ~Over(vPick[k], i)
    OBVIOUS
  <2>1. ~Over(i, vPick[k])
    BY <1>1, <1>3 DEF NmsInv, PickInv
  <2> QED
    BY <2>1, <1>1, <1>3, OverSymmetric DEF NmsInv
<1>8. PicksIndependent'
  BY <1>1, <1>2, <1>3, <1>4, <1>7 DEF NmsInv, PicksIndependent, Working
<1>9. DropsJustified'
  <2> SUFFICES ASSUME NEW i \in (1..n) \ vScores
               PROVE  \E k \in 1..(m + 1) :
                        /\ Over(i, vPick'[k])
                        /\ boundingBox[i].score <= boundingBox[vPick'[k]].score
    BY <1>1, <1>3, <1>4 DEF DropsJustified
  <2>1. PICK k \in 1..m : /\ Over(i, vPick[k])
                          /\ boundingBox[i].score <= boundingBox[vPick[k]].score
    BY <1>1, <1>3 DEF NmsInv, DropsJustified, Working
  <2>2. k \in 1..(m + 1) /\ vPick'[k] = vPick[k]
    BY <1>1, <1>3
  <2> QED
    BY <2>1, <2>2
<1>10. ScanInv'
  BY <1>1, <1>2, <1>3, <1>4, <1>7 DEF ScanInv
<1>11. Countdown'
  <2> SUFFICES ASSUME (\A i \in DOMAIN boundingBox : Over(i, i))'
               PROVE  /\ \A k \in 1..(m + 1) : vPick'[k] <= n - k + 1
                      /\ \A k \in 1..(m + 1) : k < m + 1 =>
                            \A i \in vScores \cup {last'} : i < vPick'[k]
    BY <1>1, <1>3, Zenon DEF Countdown
  <2>0. \A i \in DOMAIN boundingBox : Over(i, i)
    BY <1>1, <1>4
  <2>1. /\ \A k \in 1..m : vPick[k] <= n - k + 1
        /\ \A k \in 1..m, i \in vScores : i < vPick[k]
    BY <2>0, <1>1, <1>3 DEF NmsInv, Countdown
  <2>2. last' <= n - m
    <3>1. CASE m = 0
      BY <3>1, <1>1, <1>2
    <3>2. CASE m # 0
      <4>1. last' < vPick[m] /\ vPick[m] <= n - m + 1 /\ vPick[m] \in 1..n
        BY <3>2, <2>1, <1>1, <1>2, <1>3
      <4> QED
        BY <4>1, <1>1, <1>2
    <3> QED
      BY <3>1, <3>2
  <2> QED
    BY <2>1, <2>2, <1>1, <1>2, <1>3
<1>12. /\ (pc = "start" => vPick = <<>>)' /\ PickInv'
       /\ OverrunOnlyIfDegenerate'
  BY <1>1 DEF PickInv, OverrunOnlyIfDegenerate
<1> QED
  BY <1>5, <1>6, <1>8, <1>9, <1>10, <1>11, <1>12 DEF NmsInv

\* The write past vPick needs a box that does not erase itself: otherwise the
\* descending picks would have used up every index.
LEMMA OverrunStep ==
  ASSUME NmsInv, Overrun
  PROVE  NmsInv'
<1> DEFINE n == Len(boundingBox)
<1>1. /\ pc = "pick" /\ vScores # {} /\ n \in Nat /\ Len(vPick) = n
      /\ vScores \in SUBSET (1..n) /\ vPick \in Seq(1..n)
      /\ DOMAIN boundingBox = 1..n
      /\ UNCHANGED <<input, boundingBox, vScores, vPick, last, it>>
      /\ pc' = "overrun"
  BY DEF NmsInv, TypeOK, Overrun
<1>2. /\ \A i, j : Over(i, j)' <=> Over(i, j)
      /\ Ascending(boundingBox)' <=> Ascending(boundingBox)
  BY <1>1, OverUnchanged
<1>3. ~ \A i \in 1..n : Over(i, i)
  <2> SUFFICES ASSUME \A i \in 1..n : Over(i, i) PROVE FALSE
    OBVIOUS
  <2>1. PICK i \in vScores : TRUE
    BY <1>1
  <2>2. n \in DOMAIN vPick /\ i \in 1..n
    BY <1>1
  <2>3. vPick[n] <= 1 /\ i < vPick[n] /\ vPick[n] \in 1..n
    BY <1>1, <2>2 DEF NmsInv, Countdown
  <2> QED
    BY <2>2, <2>3
<1>4. OverrunOnlyIfDegenerate'
  BY <1>1, <1>2, <1>3 DEF OverrunOnlyIfDegenerate
<1>5. TypeOK'
  BY <1>1 DEF NmsInv, TypeOK
<1>6. (Working => Ascending(boundingBox))' /\ PicksIndependent' /\ DropsJustified'
  BY <1>1, <1>2 DEF NmsInv, Working, PicksIndependent, DropsJustified
<1>7. /\ (pc = "start" => vPick = <<>>)'
      /\ PickInv' /\ ScanInv' /\ Countdown'
  BY <1>1, <1>2 DEF PickInv, ScanInv, Countdown
<1> QED
  BY <1>4, <1>5, <1>6, <1>7 DEF NmsInv

\* What every step of the scan starts from; vScores' loses at most Min(Rest).
LEMMA ScanFacts ==
  ASSUME NmsInv, pc = "scan"
  PROVE  /\ Len(boundingBox) \in Nat /\ DOMAIN boundingBox = 1..Len(boundingBox)
         /\ Len(vPick) \in Nat \ {0} /\ DOMAIN vPick = 1..Len(vPick)
         /\ \A k \in DOMAIN vPick : vPick[k] \in DOMAIN boundingBox
         /\ vPick[Len(vPick)] = last /\ last \in DOMAIN boundingBox /\ it \in Nat
         /\ vScores \in SUBSET DOMAIN boundingBox /\ \A i \in vScores : i <= last
         /\ Rest # {} => /\ Min(Rest) \in vScores /\ Min(Rest) >= it
                         /\ \A i \in vScores : i >= it => i >= Min(Rest)
<1>1. /\ boundingBox \in Seq(Bbox) /\ vPick \in Seq(1..Len(boundingBox))
      /\ vScores \in SUBSET (1..Len(boundingBox)) /\ it \in Nat
      /\ last \in 1..Len(boundingBox)
  BY DEF NmsInv, TypeOK
<1>2. vPick # <<>> /\ vPick[Len(vPick)] = last /\ \A i \in vScores : i <= last
  BY DEF NmsInv, ScanInv
<1>3. Rest # {} => Min(Rest) \in Rest /\ \A i \in Rest : Min(Rest) <= i
  <2>1. Rest \in SUBSET vScores
    BY DEF Rest
  <2>2. Rest \in SUBSET (1..Len(boundingBox))
    BY <1>1, <2>1
  <2>3. Len(boundingBox) \in Nat
    BY <1>1
  <2> QED
    BY <2>2, <2>3, MinProperty
<1>4. Len(vPick) \in Nat \ {0} /\ DOMAIN vPick = 1..Len(vPick)
  BY <1>1, <1>2
<1>5. \A k \in DOMAIN vPick : vPick[k] \in DOMAIN boundingBox
  BY <1>1
<1>6. Rest # {} => /\ Min(Rest) \in vScores /\ Min(Rest) >= it
                   /\ \A i \in vScores : i >= it => i >= Min(Rest)
  BY <1>1, <1>3 DEF Rest
<1> QED
  BY <1>1, <1>2, <1>4, <1>5, <1>6

\* Erase and Keep advance the scan over Min(Rest); they differ in whether it
\* stays in the map.
LEMMA AdvanceStep ==
  ASSUME NmsInv, pc = "scan", Rest # {}, it' = Min(Rest) + 1,
         UNCHANGED <<pc, input, boundingBox, vPick, last>>,
         \/ vScores' = vScores \ {Min(Rest)} /\ Over(Min(Rest), last)
         \/ vScores' = vScores /\ ~Over(Min(Rest), last)
  PROVE  NmsInv'
<1> DEFINE n == Len(boundingBox)
           m == Len(vPick)
           e == Min(Rest)
<1>1. /\ n \in Nat /\ DOMAIN boundingBox = 1..n
      /\ m \in Nat \ {0} /\ DOMAIN vPick = 1..m
      /\ \A k \in 1..m : vPick[k] \in 1..n
      /\ vPick[m] = last /\ last \in 1..n /\ it \in Nat
      /\ vScores \in SUBSET (1..n) /\ \A i \in vScores : i <= last
      /\ e \in vScores /\ e >= it
      /\ \A i \in vScores : i >= it => i >= e
  BY ScanFacts
<1>2. /\ \A i, j : Over(i, j)' <=> Over(i, j)
      /\ Ascending(boundingBox)' <=> Ascending(boundingBox)
  BY OverUnchanged
<1>3. vScores' \in SUBSET vScores
  OBVIOUS
<1> HIDE DEF e, n, m
<1>4. TypeOK'
  <2>1. e \in 1..n /\ it' = e + 1
    BY <1>1 DEF e
  <2>2. it' \in Nat
    BY <2>1, <1>1
  <2>3. vScores' \in SUBSET (1..n)
    BY <1>1, <1>3
  <2> QED
    BY <2>2, <2>3 DEF NmsInv, TypeOK, n
<1>5. DropsJustified'
  <2> SUFFICES ASSUME NEW i \in (1..n) \ vScores'
               PROVE  \E k \in 1..m :
                        /\ Over(i, vPick[k])
                        /\ boundingBox[i].score <= boundingBox[vPick[k]].score
    BY <1>1, <1>2 DEF DropsJustified
  <2>1. CASE i \notin vScores
    BY <2>1, <1>1 DEF NmsInv, DropsJustified, Working
  <2>2. CASE i \in vScores
    <3>1. i = e /\ Over(i, last)
      BY <2>2 DEF e
    <3>2. i <= last /\ Ascending(boundingBox)
      BY <2>2, <1>1 DEF NmsInv, Working
    <3>3. boundingBox[i].score <= boundingBox[last].score
      <4>1. CASE i = last
        <5>1. boundingBox[last] \in Bbox
          BY <1>1 DEF NmsInv, TypeOK, n
        <5> QED
          BY <5>1, <4>1 DEF Bbox
      <4>2. CASE i < last
        BY <4>2, <3>2, <1>1 DEF Ascending
      <4> QED
        BY <4>1, <4>2, <3>2, <1>1
    <3> QED
      BY <3>1, <3>3, <1>1
  <2> QED
    BY <2>1, <2>2
<1>6. ScanInv'
  <2>1. \A k \in 1..m, i \in vScores' : k < m \/ i < e + 1 => ~Over(i, vPick[k])
    <3> SUFFICES ASSUME NEW k \in 1..m, NEW i \in vScores', k < m \/ i < e + 1
                 PROVE  ~Over(i, vPick[k])
      OBVIOUS
    <3>1. CASE k < m \/ i < it
      BY <3>1, <1>1, <1>3 DEF NmsInv, ScanInv, m
    <3>2. CASE k = m /\ ~(i < it)
      <4>1. i = e
        BY <3>2, <1>1, <1>3
      <4> QED
        BY <4>1, <3>2, <1>1 DEF e
    <3> QED
      BY <3>1, <3>2, <1>1, <1>3
  <2>2. \A i \in vScores' : i <= last
    BY <1>1, <1>3
  <2> QED
    BY <2>1, <2>2, <1>1, <1>2 DEF ScanInv, NmsInv, e, m
<1>7. Countdown'
  <2> SUFFICES ASSUME (\A i \in DOMAIN boundingBox : Over(i, i))'
               PROVE  /\ \A k \in 1..m : vPick[k] <= n - k + 1
                      /\ \A k \in 1..m : k < m =>
                            \A i \in vScores' \cup {last} : i < vPick[k]
    BY <1>1, Zenon DEF Countdown, m, n
  <2>1. \A i \in DOMAIN boundingBox : Over(i, i)
    BY <1>1, <1>2
  <2> QED
    BY <2>1, <1>1, <1>3 DEF NmsInv, Countdown, m, n
<1>8. (Working => Ascending(boundingBox))' /\ PicksIndependent'
  BY <1>1, <1>2 DEF NmsInv, Working, PicksIndependent
<1>9. (pc = "start" => vPick = <<>>)' /\ PickInv' /\ OverrunOnlyIfDegenerate'
  BY DEF NmsInv, PickInv, OverrunOnlyIfDegenerate
<1> QED
  BY <1>4, <1>5, <1>6, <1>7, <1>8, <1>9 DEF NmsInv

\* Ending the scan preserves the invariant: every remaining box was compared
\* with the last pick.
LEMMA EndScanStep ==
  ASSUME NmsInv, EndScan
  PROVE  NmsInv'
<1> DEFINE n == Len(boundingBox)
           m == Len(vPick)
<1>1. /\ n \in Nat /\ DOMAIN boundingBox = 1..n
      /\ m \in Nat \ {0} /\ DOMAIN vPick = 1..m
      /\ \A k \in 1..m : vPick[k] \in 1..n
      /\ vPick[m] = last /\ last \in 1..n /\ it \in Nat
      /\ vScores \in SUBSET (1..n) /\ \A i \in vScores : i <= last
      /\ \A i \in vScores : i < it
  <2>1. \A i \in vScores : i \in Nat /\ ~(i >= it)
    BY ScanFacts DEF EndScan, Rest
  <2> QED
    BY <2>1, ScanFacts DEF EndScan
<1>2. /\ \A i, j : Over(i, j)' <=> Over(i, j)
      /\ Ascending(boundingBox)' <=> Ascending(boundingBox)
  BY OverUnchanged DEF EndScan
<1>3. /\ pc = "scan" /\ pc' = "pick"
      /\ UNCHANGED <<input, boundingBox, vScores, vPick, last, it>>
  BY DEF EndScan
<1> HIDE DEF n, m
<1>4. \A k \in 1..m, i \in vScores : ~Over(i, vPick[k])
  BY <1>1, <1>3 DEF NmsInv, ScanInv
<1>5. PickInv'
  BY <1>1, <1>2, <1>3, <1>4 DEF PickInv
<1>6. Countdown'
  <2> SUFFICES ASSUME (\A i \in DOMAIN boundingBox : Over(i, i))'
               PROVE  /\ \A k \in 1..m : vPick[k] <= n - k + 1
                      /\ \A k \in 1..m, i \in vScores : i < vPick[k]
    BY <1>1, <1>3, Zenon DEF Countdown, n
  <2>1. \A i \in DOMAIN boundingBox : Over(i, i)
    BY <1>2, <1>3
  <2>2. /\ \A k \in 1..m : vPick[k] <= n - k + 1
        /\ \A k \in 1..m, i \in vScores : k < m => i < vPick[k]
    BY <2>1, <1>1, <1>3 DEF NmsInv, Countdown, n, m
  <2>3. \A i \in vScores : i < last
    BY <2>1, <1>1, <1>4
  <2> QED
    BY <2>2, <2>3, <1>1
<1>7. TypeOK'
  BY <1>3 DEF NmsInv, TypeOK
<1>8. (Working => Ascending(boundingBox))' /\ PicksIndependent' /\ DropsJustified'
  BY <1>2, <1>3 DEF NmsInv, Working, PicksIndependent, DropsJustified
<1>9. (pc = "start" => vPick = <<>>)' /\ ScanInv' /\ OverrunOnlyIfDegenerate'
  BY <1>3 DEF ScanInv, OverrunOnlyIfDegenerate
<1> QED
  BY <1>5, <1>6, <1>7, <1>8, <1>9 DEF NmsInv

\* Sorting and filling the map establishes the loop invariant.
LEMMA SortStep ==
  ASSUME NmsInv, Sort
  PROVE  NmsInv'
<1>1. /\ boundingBox \in Seq(Bbox) /\ vPick = <<>>
      /\ boundingBox' \in SortedByScore(boundingBox)
      /\ vScores' = 1..Len(boundingBox)
      /\ pc' = "pick" /\ UNCHANGED <<input, vPick, last, it>>
  BY DEF NmsInv, TypeOK, Sort
<1>2. /\ boundingBox' \in Seq(Bbox) /\ Len(boundingBox') = Len(boundingBox)
      /\ Ascending(boundingBox')
  BY <1>1, SortKeepsBoxes
<1>3. DOMAIN boundingBox' = vScores' /\ DOMAIN vPick' = {}
  BY <1>1, <1>2
<1>4. TypeOK'
  <2>1. vPick' \in Seq(1..Len(boundingBox'))
    BY <1>1
  <2> QED
    BY <2>1, <1>1, <1>2 DEF NmsInv, TypeOK
<1>5. (Working => Ascending(boundingBox))'
  BY <1>2
<1>6. PicksIndependent' /\ DropsJustified' /\ PickInv'
  BY <1>3 DEF PicksIndependent, DropsJustified, PickInv
<1>7. ScanInv' /\ Countdown' /\ OverrunOnlyIfDegenerate'
  BY <1>1, <1>3 DEF ScanInv, Countdown, OverrunOnlyIfDegenerate
<1> QED
  BY <1>1, <1>4, <1>5, <1>6, <1>7 DEF NmsInv

\* Both ways out of the call leave every conjunct but the types vacuous.
LEMMA DoneStep ==
  ASSUME TypeOK', pc' = "done"
  PROVE  NmsInv'
BY DEF NmsInv, Working, PicksIndependent, DropsJustified, PickInv, ScanInv,
       Countdown, OverrunOnlyIfDegenerate

\* Collecting the picks leaves a vector of boxes.
LEMMA CollectStep ==
  ASSUME NmsInv, Collect
  PROVE  NmsInv'
<1>1. /\ boundingBox \in Seq(Bbox) /\ vPick \in Seq(1..Len(boundingBox))
      /\ boundingBox' = [k \in 1..Len(vPick) |-> boundingBox[vPick[k]]]
      /\ pc' = "done" /\ UNCHANGED <<input, last, it>>
  BY DEF NmsInv, TypeOK, Collect
<1>2. \A k \in 1..Len(vPick) : boundingBox[vPick[k]] \in Bbox
  BY <1>1
<1>3. Len(vPick) \in Nat
  BY <1>1
<1>4. boundingBox' \in [1..Len(vPick) -> Bbox]
  BY <1>1, <1>2
<1>5. boundingBox' \in Seq(Bbox)
  BY <1>3, <1>4, SeqDef
<1> QED
  BY <1>1, <1>5, DoneStep DEF NmsInv, TypeOK

\* The loop invariant of nms holds in every state of every call.
THEOREM NmsInvariance == Spec => []NmsInv
<1>1. Init => NmsInv
  BY NmsInit
<1>2. NmsInv /\ [Next]_vars => NmsInv'
  <2> SUFFICES ASSUME NmsInv, [Next]_vars PROVE NmsInv'
    OBVIOUS
  <2>1. CASE ReturnEmpty
    <3>1. TypeOK' /\ pc' = "done"
      BY <2>1 DEF NmsInv, TypeOK, ReturnEmpty
    <3> QED
      BY <3>1, DoneStep
  <2>2. CASE Sort
    BY <2>2, SortStep
  <2>3. CASE Pick
    BY <2>3, PickStep
  <2>4. CASE Overrun
    BY <2>4, OverrunStep
  <2>5. CASE Erase
    BY <2>5, AdvanceStep DEF Erase
  <2>6. CASE Keep
    BY <2>6, AdvanceStep DEF Keep
  <2>7. CASE EndScan
    BY <2>7, EndScanStep
  <2>8. CASE Collect
    BY <2>8, CollectStep
  <2>9. CASE UNCHANGED vars
    BY <2>9 DEF vars, NmsInv, TypeOK, Working, Ascending, Over, PicksIndependent,
       DropsJustified, PickInv, ScanInv, Countdown, OverrunOnlyIfDegenerate
  <2> QED
    BY <2>1, <2>2, <2>3, <2>4, <2>5, <2>6, <2>7, <2>8, <2>9 DEF Next
<1> QED
  BY <1>1, <1>2, PTL DEF Spec

\* Every index the loop uses is valid in boundingBox_.
THEOREM NmsTypeOK == Spec => []TypeOK
<1>1. NmsInv => TypeOK
  BY DEF NmsInv
<1> QED
  BY <1>1, NmsInvariance, PTL

\* No pick suppresses a later one.
THEOREM NmsPicksIndependent == Spec => []PicksIndependent
<1>1. NmsInv => PicksIndependent
  BY DEF NmsInv
<1> QED
  BY <1>1, NmsInvariance, PTL

\* No box is dropped without a better overlapping pick.
THEOREM NmsDropsJustified == Spec => []DropsJustified
<1>1. NmsInv => DropsJustified
  BY DEF NmsInv
<1> QED
  BY <1>1, NmsInvariance, PTL

\* vPick overruns only when the vector holds a box that does not erase itself.
THEOREM NmsOverrunOnlyIfDegenerate == Spec => []OverrunOnlyIfDegenerate
<1>1. NmsInv => OverrunOnlyIfDegenerate
  BY DEF NmsInv
<1> QED
  BY <1>1, NmsInvariance, PTL
-----------------------------------------------------------------------------
SameBoxes(s, r) == /\ \A k \in DOMAIN r : \E i \in DOMAIN s : r[k] = s[i]
                   /\ \A i \in DOMAIN s : \E k \in DOMAIN r : r[k] = s[i]

\* The vector holds the boxes of the call, and the picks are made from the
\* best to the worst with nothing better left behind.
GreedyInv ==
  /\ pc = "start" => boundingBox = input /\ vPick = <<>>
  /\ Working => /\ SameBoxes(input, boundingBox)
                /\ \A k \in DOMAIN vPick, i \in vScores : i <= vPick[k]
                /\ \A j, k \in DOMAIN vPick : j < k => vPick[k] <= vPick[j]

LEMMA GreedyInit == Init => GreedyInv
BY DEF Init, GreedyInv, Working

LEMMA GreedyPick ==
  ASSUME NmsInv, GreedyInv, Pick
  PROVE  GreedyInv'
<1> DEFINE n == Len(vPick)
<1>1. /\ pc = "pick" /\ pc' = "scan" /\ vScores # {} /\ last' = Max(vScores)
      /\ vPick' = Append(vPick, last') /\ UNCHANGED <<input, boundingBox, vScores>>
  BY DEF Pick
<1>2. /\ vScores \in SUBSET (1..Len(boundingBox)) /\ vPick \in Seq(1..Len(boundingBox))
      /\ Len(boundingBox) \in Nat /\ n \in Nat
  BY <1>1 DEF NmsInv, TypeOK
<1>3. last' \in vScores /\ \A i \in vScores : last' >= i
  BY <1>1, <1>2, MaxProperty
<1>4. /\ DOMAIN vPick = 1..n /\ DOMAIN vPick' = 1..(n + 1) /\ vPick'[n + 1] = last'
      /\ \A k \in 1..n : vPick'[k] = vPick[k]
  BY <1>1, <1>2, <1>3
<1>5. \A k \in 1..n : \A i \in vScores : i <= vPick[k]
  BY <1>1, <1>4 DEF GreedyInv, Working
<1>6. \A k \in 1..(n + 1) : \A i \in vScores : i <= vPick'[k]
  <2> SUFFICES ASSUME NEW k \in 1..(n + 1), NEW i \in vScores PROVE i <= vPick'[k]
    OBVIOUS
  <2>1. CASE k = n + 1
    <3>1. last' >= i /\ last' \in Int /\ i \in Int
      BY <1>2, <1>3
    <3> QED
      BY <2>1, <3>1, <1>4
  <2>2. CASE k # n + 1
    <3>1. k \in 1..n
      BY <2>2, <1>2
    <3> QED
      BY <3>1, <1>4, <1>5
  <2> QED
    BY <2>1, <2>2
<1>7. \A j, k \in 1..(n + 1) : j < k => vPick'[k] <= vPick'[j]
  <2> SUFFICES ASSUME NEW j \in 1..(n + 1), NEW k \in 1..(n + 1), j < k
               PROVE  vPick'[k] <= vPick'[j]
    OBVIOUS
  <2>1. j \in 1..n
    BY <1>2
  <2>2. CASE k = n + 1
    BY <2>1, <2>2, <1>3, <1>4, <1>5
  <2>3. CASE k # n + 1
    <3>1. k \in 1..n
      BY <2>3, <1>2
    <3>2. vPick[k] <= vPick[j]
      BY <2>1, <3>1, <1>1, <1>4 DEF GreedyInv, Working
    <3> QED
      BY <2>1, <3>1, <3>2, <1>4
  <2> QED
    BY <2>2, <2>3
<1>8. SameBoxes(input', boundingBox')
  BY <1>1 DEF GreedyInv, Working
<1> QED
  BY <1>1, <1>4, <1>6, <1>7, <1>8 DEF GreedyInv, Working

LEMMA GreedyStep == NmsInv /\ GreedyInv /\ [Next]_vars => GreedyInv'
<1> SUFFICES ASSUME NmsInv, GreedyInv, [Next]_vars PROVE GreedyInv'
  OBVIOUS
<1>1. CASE ReturnEmpty \/ Collect
  BY <1>1 DEF ReturnEmpty, Collect, GreedyInv, Working
<1>2. CASE Sort
  <2>1. /\ pc = "start" /\ pc' = "pick" /\ boundingBox = input /\ vPick = <<>>
        /\ boundingBox' \in SortedByScore(input) /\ UNCHANGED <<input, vPick>>
        /\ input \in Seq(Bbox)
    BY <1>2, NmsAssumption DEF Sort, GreedyInv, NmsInv, TypeOK
  <2>2. \A k \in DOMAIN boundingBox' : \E i \in DOMAIN input : boundingBox'[k] = input[i]
    <3>1. PICK p \in Arrangements(Len(input)) : boundingBox' = [i \in DOMAIN input |-> input[p[i]]]
      BY <2>1 DEF SortedByScore
    <3>2. DOMAIN input = 1..Len(input) /\ p \in [1..Len(input) -> 1..Len(input)]
      BY <2>1 DEF Arrangements, Bijection, Injection
    <3> QED
      BY <3>1, <3>2
  <2>3. SameBoxes(input', boundingBox')
    BY <2>1, <2>2, SortKeepsAll DEF SameBoxes
  <2>4. DOMAIN vPick' = {}
    BY <2>1
  <2> QED
    BY <2>1, <2>3, <2>4 DEF GreedyInv
<1>3. CASE Pick
  BY <1>3, GreedyPick
<1>4. CASE Overrun \/ Erase \/ Keep \/ EndScan \/ UNCHANGED vars
  <2>1. /\ UNCHANGED <<input, boundingBox, vPick>> /\ vScores' \subseteq vScores
        /\ pc' = "start" => pc = "start"
        /\ Working' => Working
    BY <1>4 DEF Overrun, Erase, Keep, EndScan, vars, Working
  <2> QED
    BY <2>1 DEF GreedyInv
<1> QED
  BY <1>1, <1>2, <1>3, <1>4 DEF Next

\* What nms leaves in the vector is a greedy selection of it.
LEMMA CollectIsGreedy ==
  ASSUME NmsInv, GreedyInv, Collect
  PROVE  IsGreedy(input, boundingBox', Threshold, Mode)
<1> DEFINE n == Len(vPick)
<1>1. /\ boundingBox \in Seq(Bbox) /\ vPick \in Seq(1..Len(boundingBox)) /\ n \in Nat
      /\ pc = "pick" /\ vScores = {} /\ Working /\ Ascending(boundingBox)
      /\ boundingBox' = [k \in 1..n |-> boundingBox[vPick[k]]]
  BY DEF NmsInv, TypeOK, Collect, Working
<1>2. /\ DOMAIN boundingBox' = 1..n /\ DOMAIN vPick = 1..n
      /\ \A k \in 1..n : /\ vPick[k] \in DOMAIN boundingBox
                         /\ boundingBox'[k] = boundingBox[vPick[k]]
  BY <1>1
<1>3. SameBoxes(input, boundingBox)
  BY <1>1 DEF GreedyInv
<1>4. \A k \in 1..n : \E i \in DOMAIN input : boundingBox'[k] = input[i]
  BY <1>2, <1>3 DEF SameBoxes
<1>5. ASSUME NEW j \in 1..n, NEW k \in 1..n, j < k
      PROVE  /\ ~Suppresses(boundingBox'[j], boundingBox'[k], Threshold, Mode)
             /\ ~Suppresses(boundingBox'[k], boundingBox'[j], Threshold, Mode)
             /\ boundingBox'[j].score >= boundingBox'[k].score
  <2>1. ~Over(vPick[j], vPick[k]) /\ vPick[k] <= vPick[j]
    BY <1>1, <1>2, <1>5 DEF NmsInv, PicksIndependent, GreedyInv
  <2>2. ~Over(vPick[k], vPick[j])
    BY <2>1, <1>2, OverSymmetric DEF NmsInv
  <2>3. /\ boundingBox[vPick[j]] \in Bbox /\ boundingBox[vPick[k]] \in Bbox
        /\ vPick[j] \in Int /\ vPick[k] \in Int
    BY <1>1, <1>2
  <2>4. boundingBox[vPick[k]].score <= boundingBox[vPick[j]].score
    <3>1. CASE vPick[k] = vPick[j]
      BY <3>1, <2>3 DEF Bbox
    <3>2. CASE vPick[k] # vPick[j]
      <4>1. vPick[k] < vPick[j]
        BY <3>2, <2>1, <2>3
      <4> QED
        BY <4>1, <1>1, <1>2 DEF Ascending
    <3> QED
      BY <3>1, <3>2
  <2> QED
    BY <2>1, <2>2, <2>3, <2>4, <1>2 DEF Over, Bbox
<1>6. ASSUME NEW i \in DOMAIN input
      PROVE  \E k \in 1..n : /\ Suppresses(input[i], boundingBox'[k], Threshold, Mode)
                             /\ input[i].score <= boundingBox'[k].score
  <2>1. PICK x \in DOMAIN boundingBox : boundingBox[x] = input[i]
    BY <1>3 DEF SameBoxes
  <2>2. PICK k \in DOMAIN vPick : /\ Over(x, vPick[k])
                                  /\ boundingBox[x].score <= boundingBox[vPick[k]].score
    BY <1>1 DEF NmsInv, DropsJustified
  <2> QED
    BY <2>1, <2>2, <1>2 DEF Over
<1> QED
  <2>1. \A j, k \in 1..n : j # k => j < k \/ k < j
    OBVIOUS
  <2>2. \A j, k \in 1..n : j # k => ~Suppresses(boundingBox'[j], boundingBox'[k], Threshold, Mode)
    BY <2>1, <1>5
  <2>3. \A j, k \in 1..n : j < k => boundingBox'[j].score >= boundingBox'[k].score
    BY <1>5
  <2> QED
    BY <2>2, <2>3, <1>2, <1>4, <1>6 DEF IsGreedy

\* GreedyNms speaks of the same boxes and the same overlap.
LEMMA SameContract ==
  /\ Greedy!Bbox = Bbox
  /\ \A s, r : IsGreedy(s, r, Threshold, Mode) => Greedy!IsGreedy(s, r, Threshold, Mode)
<1>1. \A a, b : Greedy!Larger(a, b) = Larger(a, b) /\ Greedy!Smaller(a, b) = Smaller(a, b)
  BY DEF Greedy!Larger, Larger, Greedy!Smaller, Smaller
<1>2. \A a, b : Greedy!Inter(a, b) = Inter(a, b)
  BY <1>1, Zenon DEF Greedy!Inter, Inter, Greedy!Extent, Extent
<1>3. \A n, d, t : Greedy!RatioAbove(n, d, t) <=> RatioAbove(n, d, t)
  BY DEF Greedy!RatioAbove, RatioAbove
<1>4. \A a, b, t, mode : Greedy!Suppresses(a, b, t, mode) <=> Suppresses(a, b, t, mode)
  BY <1>1, <1>2, <1>3, Zenon DEF Greedy!Suppresses, Suppresses
<1>5. Greedy!Bbox = Bbox
  BY DEF Greedy!Bbox, Bbox
<1>6. \A s, r, t, mode : IsGreedy(s, r, t, mode) => Greedy!IsGreedy(s, r, t, mode)
  <2> SUFFICES ASSUME NEW s, NEW r, NEW t, NEW mode, IsGreedy(s, r, t, mode)
               PROVE  Greedy!IsGreedy(s, r, t, mode)
    BY Zenon
  <2>1. \A k \in DOMAIN r : \E i \in DOMAIN s : r[k] = s[i]
    BY DEF IsGreedy
  <2>2. \A j, k \in DOMAIN r : j # k => ~Greedy!Suppresses(r[j], r[k], t, mode)
    BY <1>4 DEF IsGreedy
  <2>3. \A j, k \in DOMAIN r : j < k => r[j].score >= r[k].score
    BY DEF IsGreedy
  <2>4. \A i \in DOMAIN s : \E k \in DOMAIN r : /\ Greedy!Suppresses(s[i], r[k], t, mode)
                                               /\ s[i].score <= r[k].score
    BY <1>4 DEF IsGreedy
  <2> QED
    BY <2>1, <2>2, <2>3, <2>4, Zenon DEF Greedy!IsGreedy
<1> QED
  BY <1>5, <1>6

\* nms implements the one-step greedy selection: nothing changes for the caller
\* until the call returns, and then the vector is a greedy selection.
THEOREM NmsImplementsGreedy == Spec => ImplementsGreedy
<1>1. Init => Greedy!Init
  BY DEF Init, Greedy!Init
<1>2. NmsInv /\ NmsInv' /\ GreedyInv /\ [Next]_vars
        => [Greedy!Select]_<<input, IF pc = "done" THEN boundingBox ELSE <<>>, pc = "done">>
  <2> SUFFICES ASSUME NmsInv, NmsInv', GreedyInv, [Next]_vars
      PROVE [Greedy!Select]_<<input, IF pc = "done" THEN boundingBox ELSE <<>>, pc = "done">>
    OBVIOUS
  <2>1. CASE ReturnEmpty
    <3>1. /\ pc = "start" /\ pc' = "done" /\ input = <<>> /\ boundingBox' = <<>> /\ input' = input
      BY <2>1 DEF ReturnEmpty, GreedyInv
    <3>2. IsGreedy(input, boundingBox', Threshold, Mode) /\ boundingBox' \in Seq(Bbox)
      BY <3>1 DEF IsGreedy
    <3> QED
      BY <3>1, <3>2, SameContract DEF Greedy!Select
  <2>2. CASE Collect
    <3>1. pc = "pick" /\ pc' = "done" /\ input' = input
      BY <2>2 DEF Collect
    <3>2. IsGreedy(input, boundingBox', Threshold, Mode) /\ boundingBox' \in Seq(Bbox)
      BY <2>2, CollectIsGreedy DEF NmsInv, TypeOK
    <3> QED
      BY <3>1, <3>2, SameContract DEF Greedy!Select
  <2>3. CASE Sort \/ Pick \/ Overrun \/ Erase \/ Keep \/ EndScan
    BY <2>3 DEF Sort, Pick, Overrun, Erase, Keep, EndScan
  <2>4. CASE UNCHANGED vars
    BY <2>4 DEF vars
  <2> QED
    BY <2>1, <2>2, <2>3, <2>4 DEF Next
<1> QED
  BY <1>1, <1>2, GreedyInit, GreedyStep, NmsInvariance, PTL DEF Spec, ImplementsGreedy, Greedy!Spec
-----------------------------------------------------------------------------
\* nms with boxes that suppress themselves never writes past vPick: the safety
\* half of Returns, about the vector nms is called with.
THEOREM NmsNeverOverruns ==
  Spec => []((\A i \in DOMAIN input : Suppresses(input[i], input[i], Threshold, Mode))
               => pc # "overrun")
<1>1. NmsInv /\ GreedyInv =>
        ((\A i \in DOMAIN input : Suppresses(input[i], input[i], Threshold, Mode))
           => pc # "overrun")
  <2> SUFFICES ASSUME NmsInv, GreedyInv, pc = "overrun"
               PROVE  \E i \in DOMAIN input : ~Suppresses(input[i], input[i], Threshold, Mode)
    OBVIOUS
  <2>1. PICK k \in DOMAIN boundingBox : ~Over(k, k)
    BY DEF NmsInv, OverrunOnlyIfDegenerate
  <2>2. PICK i \in DOMAIN input : boundingBox[k] = input[i]
    BY DEF GreedyInv, Working, SameBoxes
  <2> QED
    BY <2>1, <2>2 DEF Over
<1> QED
  BY <1>1, GreedyInit, GreedyStep, NmsInvariance, PTL DEF Spec

\* At most so many steps are left of a call: each pick costs one scan of the
\* vector and two steps more.
StepsLeft ==
  LET n   == Len(boundingBox)
      row == n + 3
  IN  CASE pc = "start" -> n * row + 3
        [] pc = "pick"  -> (n - Len(vPick)) * row + 2
        [] pc = "scan"  -> (n - Len(vPick)) * row + (n - it) + 4
        [] OTHER        -> 0

Lowers == StepsLeft \in Nat /\ StepsLeft' \in Nat /\ StepsLeft' < StepsLeft

StepsInv ==
  /\ pc \in {"pick", "scan"} => Len(vPick) <= Len(boundingBox)
  /\ pc = "scan" => it <= Len(boundingBox) + 1

\* The rows of StepsLeft, as far as arithmetic goes.
LEMMA Rows ==
  ASSUME NEW a \in Nat, NEW c \in Nat
  PROVE  a * c \in Nat /\ (a + 1) * c = a * c + c
OBVIOUS

LEMMA StepsStart ==
  ASSUME NmsInv, ReturnEmpty \/ Sort
  PROVE  StepsInv' /\ Lowers
<1> DEFINE n == Len(boundingBox)
           r == n * (n + 3)
<1>1. boundingBox \in Seq(Bbox) /\ n \in Nat /\ pc = "start" /\ vPick = <<>> /\ vPick' = vPick
  BY DEF NmsInv, TypeOK, ReturnEmpty, Sort
<1>2. Len(boundingBox') = n /\ Len(vPick') = 0
  BY <1>1, SortKeepsBoxes DEF ReturnEmpty, Sort
<1>3. r \in Nat /\ StepsLeft = r + 3 /\ (n - 0) * (n + 3) = r
  BY <1>1, Rows DEF StepsLeft
<1>4. CASE ReturnEmpty
  <2>1. pc' = "done" /\ StepsLeft' = 0
    BY <1>4 DEF ReturnEmpty, StepsLeft
  <2> HIDE DEF r
  <2> QED
    BY <2>1, <1>3 DEF StepsInv, Lowers
<1>5. CASE Sort
  <2>1. pc' = "pick" /\ StepsLeft' = r + 2
    BY <1>5, <1>2, <1>3 DEF Sort, StepsLeft
  <2> HIDE DEF r
  <2> QED
    BY <2>1, <1>1, <1>2, <1>3 DEF StepsInv, Lowers
<1> QED
  BY <1>4, <1>5

LEMMA StepsPick ==
  ASSUME NmsInv, StepsInv, Pick \/ Overrun \/ Collect
  PROVE  StepsInv' /\ Lowers
<1> DEFINE n == Len(boundingBox)
           l == Len(vPick)
           r == (n - l) * (n + 3)
<1>1. /\ n \in Nat /\ l \in Nat /\ l <= n /\ pc = "pick"
      /\ vPick \in Seq(1..n) /\ boundingBox \in Seq(Bbox)
  BY DEF NmsInv, TypeOK, StepsInv, Pick, Overrun, Collect
<1>2. r \in Nat /\ StepsLeft = r + 2
  BY <1>1, Rows DEF StepsLeft
<1>3. CASE Pick
  <2> DEFINE q == (n - (l + 1)) * (n + 3)
  <2>1. /\ l < n /\ pc' = "scan" /\ it' = 1 /\ boundingBox' = boundingBox
        /\ vPick' = Append(vPick, last')
    BY <1>3 DEF Pick
  <2>2. Len(vPick') = l + 1
    BY <2>1, <1>1
  <2>3. q \in Nat /\ r = q + (n + 3)
    <3>1. n - (l + 1) \in Nat /\ n - (l + 1) + 1 = n - l /\ n + 3 \in Nat
      BY <1>1, <2>1
    <3> QED
      BY <3>1, Rows
  <2>4. StepsLeft' = q + (n - 1) + 4
    BY <2>1, <2>2 DEF StepsLeft
  <2> HIDE DEF q, r
  <2> QED
    BY <1>1, <1>2, <2>1, <2>2, <2>3, <2>4 DEF StepsInv, Lowers
<1>4. CASE Overrun \/ Collect
  <2>1. pc' \in {"overrun", "done"} /\ StepsLeft' = 0
    BY <1>4 DEF Overrun, Collect, StepsLeft
  <2> HIDE DEF r
  <2> QED
    BY <1>2, <2>1 DEF StepsInv, Lowers
<1> QED
  BY <1>3, <1>4

LEMMA StepsScan ==
  ASSUME NmsInv, StepsInv, Erase \/ Keep \/ EndScan
  PROVE  StepsInv' /\ Lowers
<1> DEFINE n == Len(boundingBox)
           l == Len(vPick)
           r == (n - l) * (n + 3)
<1>1. /\ n \in Nat /\ l \in Nat /\ l <= n /\ pc = "scan" /\ it \in Nat /\ it <= n + 1
      /\ UNCHANGED <<boundingBox, vPick>>
  BY ScanFacts DEF StepsInv, Erase, Keep, EndScan
<1>2. r \in Nat /\ StepsLeft = r + (n - it) + 4
  BY <1>1, Rows DEF StepsLeft
<1>3. CASE Erase \/ Keep
  <2>1. pc' = "scan" /\ it' = Min(Rest) + 1 /\ Rest # {}
    BY <1>1, <1>3 DEF Erase, Keep, After
  <2>2. Min(Rest) \in 1..n /\ Min(Rest) >= it
    BY <1>1, <2>1, ScanFacts
  <2>3. StepsLeft' = r + (n - it') + 4
    BY <1>1, <2>1 DEF StepsLeft
  <2> HIDE DEF r
  <2> QED
    BY <1>1, <1>2, <2>1, <2>2, <2>3 DEF StepsInv, Lowers
<1>4. CASE EndScan
  <2>1. pc' = "pick" /\ StepsLeft' = r + 2
    BY <1>1, <1>4 DEF EndScan, StepsLeft
  <2> HIDE DEF r
  <2> QED
    BY <1>1, <1>2, <2>1 DEF StepsInv, Lowers
<1> QED
  BY <1>3, <1>4

\* A call of nms takes at most n * (n + 3) + 3 steps on a vector of n boxes,
\* degenerate or not: the argument behind Returns.
THEOREM NmsStepsBounded == Spec => [][Lowers]_vars
<1>1. Init => StepsInv
  BY DEF Init, StepsInv
<1>2. NmsInv /\ StepsInv /\ Next => StepsInv' /\ Lowers
  BY StepsStart, StepsPick, StepsScan DEF Next
<1>3. StepsInv /\ UNCHANGED vars => StepsInv'
  BY DEF StepsInv, vars
<1>4. NmsInv /\ StepsInv /\ [Next]_vars => StepsInv' /\ [Lowers]_vars
  BY <1>2, <1>3
<1> QED
  BY <1>1, <1>4, NmsInvariance, PTL DEF Spec
=============================================================================
