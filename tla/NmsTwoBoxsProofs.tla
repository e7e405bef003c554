-------------------------- MODULE NmsTwoBoxsProofs --------------------------
(***************************************************************************)
(* MTCNN::nmsTwoBoxs for all vectors, thresholds and measures.             *)
(***************************************************************************)
EXTENDS NmsTwoBoxs, FiniteSetTheorems, SequenceTheorems, TLAPS

USE DEF Dropped, AfterErase, Following, Begin

\* std::sort(cmpScore) keeps the length and the boxes and leaves them ascending.
LEMMA SortKeepsBoxes ==
  ASSUME NEW s \in Seq(Bbox), NEW r \in SortedByScore(s)
  PROVE  r \in Seq(Bbox) /\ Len(r) = Len(s) /\ Ascending(r)
<1>1. PICK p \in Arrangements(Len(s)) : r = [i \in DOMAIN s |-> s[p[i]]]
  BY DEF SortedByScore
<1>2. DOMAIN s = 1..Len(s) /\ Len(s) \in Nat /\ \A i \in 1..Len(s) : s[i] \in Bbox
  OBVIOUS
<1>3. p \in [1..Len(s) -> 1..Len(s)]
  BY DEF Arrangements, Bijection, Injection
<1>4. r \in [1..Len(s) -> Bbox]
  BY <1>1, <1>2, <1>3
<1>5. Ascending(r)
  BY DEF SortedByScore
<1> QED
  BY <1>2, <1>4, <1>5

\* ... and loses none of the boxes.
LEMMA SortKeepsAll ==
  ASSUME NEW s \in Seq(Bbox), NEW r \in SortedByScore(s), NEW i \in DOMAIN s
  PROVE  \E k \in DOMAIN r : r[k] = s[i]
<1>1. PICK p \in Arrangements(Len(s)) : r = [k \in DOMAIN s |-> s[p[k]]]
  BY DEF SortedByScore
<1>2. Len(s) \in Nat /\ DOMAIN s = 1..Len(s)
  OBVIOUS
<1>3. PICK k \in 1..Len(s) : p[k] = i
  BY <1>2 DEF Arrangements, Bijection, Surjection
<1> QED
  BY <1>1, <1>2, <1>3

\* Until it has sorted, the call has the vector it was given.
TwoBoxsInv == /\ TypeOK /\ KeptStand /\ ErasedOutscore
              /\ pc = "start" => boundingBox = input /\ ity = 1 /\ itx = 1

\* What vector::erase leaves.
LEMMA RemoveAtProperties ==
  ASSUME NEW S, NEW s \in Seq(S), NEW x \in 1..Len(s)
  PROVE  /\ RemoveAt(s, x) \in Seq(S) /\ Len(RemoveAt(s, x)) = Len(s) - 1
         /\ \A i \in 1..(Len(s) - 1) :
              RemoveAt(s, x)[i] = IF i < x THEN s[i] ELSE s[i + 1]
<1> DEFINE a == SubSeq(s, 1, x - 1)
           b == SubSeq(s, x + 1, Len(s))
           n == Len(s)
<1>1. n \in Nat /\ x \in Nat /\ x >= 1 /\ x <= n /\ \A i \in 1..n : s[i] \in S
  OBVIOUS
<1>2. a \in Seq(S) /\ Len(a) = x - 1 /\ \A i \in 1..(x - 1) : a[i] = s[i]
  <2>1. 1 \in Int /\ x - 1 \in Int /\ \A i \in 1..(x - 1) : s[i] \in S
    BY <1>1
  <2>2. /\ a \in Seq(S) /\ Len(a) = IF 1 <= x - 1 THEN x - 1 - 1 + 1 ELSE 0
        /\ \A i \in 1..(x - 1 - 1 + 1) : a[i] = s[1 + i - 1]
    BY <2>1, SubSeqProperties
  <2> QED
    BY <2>2, <1>1
<1>3. b \in Seq(S) /\ Len(b) = n - x /\ \A i \in 1..(n - x) : b[i] = s[x + i]
  <2>1. x + 1 \in Int /\ n \in Int /\ \A i \in (x + 1)..n : s[i] \in S
    BY <1>1
  <2>2. /\ b \in Seq(S) /\ Len(b) = IF x + 1 <= n THEN n - (x + 1) + 1 ELSE 0
        /\ \A i \in 1..(n - (x + 1) + 1) : b[i] = s[x + 1 + i - 1]
    <3> HIDE DEF n
    <3>1. b = SubSeq(s, x + 1, n)
      BY DEF n
    <3> HIDE DEF b
    <3> QED
      BY <2>1, <3>1, SubSeqProperties
  <2> QED
    BY <2>2, <1>1
<1>4. /\ a \o b \in Seq(S) /\ Len(a \o b) = Len(a) + Len(b)
      /\ \A i \in 1..(Len(a) + Len(b)) : (a \o b)[i] = IF i <= Len(a) THEN a[i] ELSE b[i - Len(a)]
  <2> HIDE DEF a, b
  <2> QED
    BY <1>2, <1>3, ConcatProperties
<1>5. RemoveAt(s, x) = a \o b
  BY DEF RemoveAt
<1> HIDE DEF a, b
<1>6. Len(a \o b) = n - 1
  BY <1>1, <1>2, <1>3, <1>4
<1>7. \A i \in 1..(n - 1) : (a \o b)[i] = IF i < x THEN s[i] ELSE s[i + 1]
  <2> HIDE DEF n
  <2> SUFFICES ASSUME NEW i \in 1..(n - 1)
               PROVE  (a \o b)[i] = IF i < x THEN s[i] ELSE s[i + 1]
    OBVIOUS
  <2>0. i \in 1..(Len(a) + Len(b)) /\ i \in Nat
    BY <1>1, <1>2, <1>3
  <2>1. CASE i < x
    <3>1. i <= Len(a) /\ i \in 1..(x - 1)
      BY <2>1, <1>1, <1>2
    <3>2. (a \o b)[i] = a[i] /\ a[i] = s[i]
      BY <2>0, <3>1, <1>2, <1>4
    <3> QED
      BY <2>1, <3>2
  <2>2. CASE ~(i < x)
    <3>1. i - (x - 1) \in 1..(n - x) /\ x + (i - (x - 1)) = i + 1 /\ ~(i <= x - 1)
      BY <2>2, <2>0, <1>1
    <3>2. (a \o b)[i] = b[i - (x - 1)]
      BY <2>0, <3>1, <1>2, <1>4
    <3>3. b[i - (x - 1)] = s[x + (i - (x - 1))]
      BY <3>1, <1>3
    <3> QED
      BY <3>1, <3>2, <3>3, <2>2
  <2> QED
    BY <2>1, <2>2
<1> QED
  BY <1>4, <1>5, <1>6, <1>7

\* The state in which nmsTwoBoxs is entered satisfies the invariant.
LEMMA TwoBoxsInit == Init => TwoBoxsInv
<1> SUFFICES ASSUME Init PROVE TwoBoxsInv
  OBVIOUS
<1>1. /\ pc = "start" /\ ity = 1 /\ itx = 1 /\ boundingBox = input
      /\ input \in Inputs /\ previous \in Previous
      /\ input \in Seq(Bbox) /\ previous \in Seq(Bbox)
  BY NmsTwoBoxsAssumption DEF Init
<1>2. TypeOK
  BY <1>1 DEF TypeOK
<1> QED
  BY <1>1, <1>2 DEF TwoBoxsInv, KeptStand, ErasedOutscore

\* Sorting loses no box.
LEMMA SortStep ==
  ASSUME TwoBoxsInv, Sort
  PROVE  TwoBoxsInv'
<1>1. /\ pc = "start" /\ pc' = "scan" /\ boundingBox' \in SortedByScore(input)
      /\ UNCHANGED <<input, previous, ity, itx>>
      /\ ity = 1 /\ itx = 1 /\ input \in Inputs /\ previous \in Previous
  BY DEF TwoBoxsInv, TypeOK, Sort
<1>2. input \in Seq(Bbox) /\ previous \in Seq(Bbox)
  BY <1>1, NmsTwoBoxsAssumption
<1>3. boundingBox' \in Seq(Bbox)
  BY <1>1, <1>2, SortKeepsBoxes
<1>4. TypeOK'
  BY <1>1, <1>2, <1>3 DEF TypeOK
<1>5. KeptStand'
  BY <1>1, <1>2, <1>3 DEF KeptStand
<1>6. \A i \in DOMAIN input : \E k \in DOMAIN boundingBox' : boundingBox'[k] = input[i]
  BY <1>1, <1>2, SortKeepsAll
<1>7. ErasedOutscore'
  BY <1>1, <1>6 DEF ErasedOutscore
<1> QED
  BY <1>1, <1>4, <1>5, <1>7 DEF TwoBoxsInv

\* The box erased outscores a previous one; those behind it move up by one,
\* and the iterator, left where it is, points to the next.
LEMMA EraseStep ==
  ASSUME TwoBoxsInv, Erase
  PROVE  TwoBoxsInv'
<1> DEFINE n == Len(boundingBox)
<1>1. /\ pc = "scan" /\ pc' = "scan" /\ n \in Nat /\ DOMAIN boundingBox = 1..n
      /\ ity \in 1..Len(previous) /\ itx \in 1..n
      /\ Outscores(boundingBox[itx], previous[ity], Threshold, Mode)
      /\ boundingBox' = RemoveAt(boundingBox, itx)
      /\ UNCHANGED <<input, previous, ity, itx>>
      /\ input \in Inputs /\ previous \in Previous /\ boundingBox \in Seq(Bbox)
  <2>1. previous \in Seq(Bbox)
    BY NmsTwoBoxsAssumption DEF TwoBoxsInv, TypeOK
  <2> QED
    BY <2>1 DEF TwoBoxsInv, TypeOK, Erase
<1>2. /\ boundingBox' \in Seq(Bbox) /\ Len(boundingBox') = n - 1
      /\ \A i \in 1..(n - 1) :
           boundingBox'[i] = IF i < itx THEN boundingBox[i] ELSE boundingBox[i + 1]
  BY <1>1, RemoveAtProperties
<1>3. DOMAIN boundingBox' = 1..(n - 1)
  BY <1>1, <1>2
<1>4. TypeOK'
  BY <1>1, <1>2 DEF TwoBoxsInv, TypeOK
<1>5. KeptStand'
  <2> SUFFICES ASSUME NEW i \in 1..(n - 1), NEW j \in DOMAIN previous,
                      j < ity \/ (j = ity /\ i < itx)
               PROVE  ~Outscores(boundingBox'[i], previous[j], Threshold, Mode)
    BY <1>1, <1>3 DEF KeptStand
  <2>0. \A k \in 1..n : j < ity \/ (j = ity /\ k < itx) =>
          ~Outscores(boundingBox[k], previous[j], Threshold, Mode)
    BY <1>1 DEF TwoBoxsInv, KeptStand
  <2>1. CASE i < itx
    <3>1. boundingBox'[i] = boundingBox[i] /\ i \in 1..n
      BY <2>1, <1>1, <1>2
    <3> QED
      BY <3>1, <2>0
  <2>2. CASE ~(i < itx)
    <3>1. i + 1 \in 1..n
      BY <1>1
    <3>2. boundingBox'[i] = boundingBox[i + 1]
      BY <2>2, <1>2
    <3> QED
      BY <2>0, <2>2, <3>1, <3>2
  <2> QED
    BY <2>1, <2>2
<1>6. ErasedOutscore'
  <2> SUFFICES ASSUME NEW i \in DOMAIN input,
                      ~ \E j \in DOMAIN previous :
                           Outscores(input[i], previous[j], Threshold, Mode)
               PROVE  \E k \in 1..(n - 1) : boundingBox'[k] = input[i]
    BY <1>1, <1>3 DEF ErasedOutscore
  <2>1. PICK k \in 1..n : boundingBox[k] = input[i]
    BY <1>1 DEF TwoBoxsInv, ErasedOutscore
  <2>2. k # itx
    BY <2>1, <1>1
  <2>3. CASE k < itx
    <3>1. k \in 1..(n - 1) /\ boundingBox'[k] = boundingBox[k]
      BY <2>3, <1>1, <1>2
    <3> QED
      BY <3>1, <2>1
  <2>4. CASE k > itx
    <3>1. k - 1 \in 1..(n - 1) /\ ~(k - 1 < itx) /\ k - 1 + 1 = k
      BY <2>4, <1>1
    <3>2. boundingBox'[k - 1] = boundingBox[k]
      BY <3>1, <1>2
    <3> QED
      BY <3>1, <3>2, <2>1
  <2> QED
    BY <2>2, <2>3, <2>4, <1>1
<1> QED
  BY <1>1, <1>4, <1>5, <1>6 DEF TwoBoxsInv

\* The other steps move the iterators over boxes already compared.
LEMMA WalkStep ==
  ASSUME TwoBoxsInv, Keep \/ NextPrevious
  PROVE  TwoBoxsInv'
<1> DEFINE n == Len(boundingBox)
<1>1. /\ pc = "scan" /\ pc' = "scan" /\ n \in Nat /\ DOMAIN boundingBox = 1..n
      /\ previous \in Seq(Bbox) /\ DOMAIN previous = 1..Len(previous)
      /\ ity \in 1..Len(previous) /\ itx \in 1..(n + 1)
      /\ UNCHANGED <<input, boundingBox, previous>>
  <2>1. previous \in Seq(Bbox)
    BY NmsTwoBoxsAssumption DEF TwoBoxsInv, TypeOK
  <2> QED
    BY <2>1 DEF TwoBoxsInv, TypeOK, Keep, NextPrevious
<1>2. CASE Keep
  <2>1. itx \in 1..n /\ itx' = itx + 1 /\ ity' = ity
        /\ ~Outscores(boundingBox[itx], previous[ity], Threshold, Mode)
    BY <1>1, <1>2 DEF Keep
  <2>2. TypeOK'
    BY <1>1, <2>1 DEF TwoBoxsInv, TypeOK
  <2>3. KeptStand'
    <3> SUFFICES ASSUME NEW i \in 1..n, NEW j \in DOMAIN previous,
                        j < ity \/ (j = ity /\ i < itx + 1)
                 PROVE  ~Outscores(boundingBox[i], previous[j], Threshold, Mode)
      BY <1>1, <2>1 DEF KeptStand
    <3>1. CASE j = ity /\ i = itx
      BY <3>1, <2>1
    <3>2. CASE j < ity \/ (j = ity /\ i < itx)
      BY <3>2, <1>1 DEF TwoBoxsInv, KeptStand
    <3> QED
      BY <3>1, <3>2, <1>1
  <2> QED
    BY <1>1, <2>2, <2>3 DEF TwoBoxsInv, ErasedOutscore
<1>3. CASE NextPrevious
  <2>1. itx = n + 1 /\ itx' = 1 /\ ity' = ity + 1
    BY <1>1, <1>3 DEF NextPrevious
  <2>2. TypeOK'
    BY <1>1, <2>1 DEF TwoBoxsInv, TypeOK
  <2>3. KeptStand'
    <3> SUFFICES ASSUME NEW i \in 1..n, NEW j \in DOMAIN previous, j < ity + 1
                 PROVE  ~Outscores(boundingBox[i], previous[j], Threshold, Mode)
      BY <1>1, <2>1 DEF KeptStand
    <3>1. j < ity \/ (j = ity /\ i < itx)
      BY <1>1, <2>1
    <3> QED
      BY <3>1, <1>1 DEF TwoBoxsInv, KeptStand
  <2> QED
    BY <1>1, <2>2, <2>3 DEF TwoBoxsInv, ErasedOutscore
<1> QED
  BY <1>2, <1>3

LEMMA TwoBoxsStep == TwoBoxsInv /\ [Next]_vars => TwoBoxsInv'
<1> SUFFICES ASSUME TwoBoxsInv, [Next]_vars PROVE TwoBoxsInv'
  OBVIOUS
<1>1. ASSUME ReturnEmpty PROVE TwoBoxsInv'
  BY <1>1 DEF TwoBoxsInv, TypeOK, KeptStand, ErasedOutscore, ReturnEmpty
<1>2. ASSUME Return PROVE TwoBoxsInv'
  BY <1>2 DEF TwoBoxsInv, TypeOK, KeptStand, ErasedOutscore, Return
<1>3. ASSUME UNCHANGED vars PROVE TwoBoxsInv'
  BY <1>3 DEF TwoBoxsInv, TypeOK, KeptStand, ErasedOutscore, vars
<1> QED
  BY <1>1, <1>2, <1>3, SortStep, EraseStep, WalkStep DEF Next

\* The invariant holds throughout a call.
THEOREM TwoBoxsInvariant == Spec => []TwoBoxsInv
BY TwoBoxsInit, TwoBoxsStep, PTL DEF Spec

\* Both iterators stay in range, so at() never throws.
THEOREM TwoBoxsTypeOK == Spec => []TypeOK
<1>1. TwoBoxsInv => TypeOK
  BY DEF TwoBoxsInv
<1> QED
  BY <1>1, TwoBoxsInvariant, PTL

\* Erasing under the iterator skips no box.
THEOREM TwoBoxsKeptStand == Spec => []KeptStand
<1>1. TwoBoxsInv => KeptStand
  BY DEF TwoBoxsInv
<1> QED
  BY <1>1, TwoBoxsInvariant, PTL

\* Only boxes that overlap and outscore a previous one disappear.
THEOREM TwoBoxsErasedOutscore == Spec => []ErasedOutscore
<1>1. TwoBoxsInv => ErasedOutscore
  BY DEF TwoBoxsInv
<1> QED
  BY <1>1, TwoBoxsInvariant, PTL
-----------------------------------------------------------------------------
\* p tells where in the vector of the call each box left comes from; every
\* box no longer there is outscored by a previous one.
Origin(p) ==
  /\ p \in [1..Len(boundingBox) -> DOMAIN input]
  /\ \A j, k \in 1..Len(boundingBox) : p[j] = p[k] => j = k
  /\ \A k \in 1..Len(boundingBox) : boundingBox[k] = input[p[k]]
  /\ \A i \in DOMAIN input :
       \/ \E k \in 1..Len(boundingBox) : p[k] = i
       \/ \E j \in DOMAIN previous : Outscores(input[i], previous[j], Threshold, Mode)

RescanInv == pc # "start" => Ascending(boundingBox) /\ \E p : Origin(p)

LEMMA RescanSort ==
  ASSUME TwoBoxsInv, Sort
  PROVE  RescanInv'
<1>1. /\ boundingBox = input /\ boundingBox' \in SortedByScore(input)
      /\ UNCHANGED <<input, previous>> /\ input \in Seq(Bbox)
  BY DEF Sort, TwoBoxsInv, TypeOK
<1>2. Len(boundingBox') = Len(input) /\ Ascending(boundingBox')
  BY <1>1, SortKeepsBoxes
<1>3. PICK p \in Arrangements(Len(input)) : boundingBox' = [i \in DOMAIN input |-> input[p[i]]]
  BY <1>1 DEF SortedByScore
<1>4. /\ Len(input) \in Nat /\ DOMAIN input = 1..Len(input) /\ p \in [1..Len(input) -> 1..Len(input)]
      /\ \A j, k \in 1..Len(input) : p[j] = p[k] => j = k
  BY <1>1 DEF Arrangements, Bijection, Injection, IsInjective
<1>5. \A i \in 1..Len(input) : \E k \in 1..Len(input) : p[k] = i
  BY DEF Arrangements, Bijection, Surjection
<1>6. Origin(p)'
  BY <1>1, <1>2, <1>3, <1>4, <1>5 DEF Origin
<1> QED
  BY <1>2, <1>6 DEF RescanInv

LEMMA RescanErase ==
  ASSUME TwoBoxsInv, RescanInv, Erase
  PROVE  RescanInv'
<1> DEFINE n == Len(boundingBox)
           Old(k) == IF k < itx THEN k ELSE k + 1
<1>1. /\ boundingBox \in Seq(Bbox) /\ itx \in 1..n /\ n \in Nat /\ ity \in DOMAIN previous
      /\ pc = "scan" /\ boundingBox' = RemoveAt(boundingBox, itx)
      /\ UNCHANGED <<pc, input, previous>>
      /\ Outscores(boundingBox[itx], previous[ity], Threshold, Mode)
  <2>1. /\ boundingBox \in Seq(Bbox) /\ previous \in Seq(Bbox)
        /\ itx \in 1..(n + 1) /\ ity \in 1..(Len(previous) + 1)
    BY NmsTwoBoxsAssumption DEF TwoBoxsInv, TypeOK
  <2>2. /\ itx <= n /\ ity <= Len(previous) /\ pc = "scan"
        /\ boundingBox' = RemoveAt(boundingBox, itx) /\ UNCHANGED <<pc, input, previous>>
        /\ Outscores(boundingBox[itx], previous[ity], Threshold, Mode)
    BY DEF Erase
  <2> QED
    BY <2>1, <2>2
<1>2. /\ boundingBox' \in Seq(Bbox) /\ Len(boundingBox') = n - 1
      /\ \A k \in 1..(n - 1) : boundingBox'[k] = boundingBox[Old(k)]
  BY <1>1, RemoveAtProperties
<1>3. /\ \A k \in 1..(n - 1) : Old(k) \in 1..n /\ Old(k) # itx
      /\ \A j, k \in 1..(n - 1) : Old(j) = Old(k) => j = k
      /\ \A j, k \in 1..(n - 1) : j < k => Old(j) < Old(k)
      /\ \A k \in 1..n : k # itx => \E j \in 1..(n - 1) : Old(j) = k
  <2>1. ASSUME NEW k \in 1..n, k # itx PROVE \E j \in 1..(n - 1) : Old(j) = k
    <3>1. CASE k < itx
      <4>1. k \in 1..(n - 1) /\ Old(k) = k
        BY <3>1, <1>1
      <4> QED
        BY <4>1
    <3>2. CASE ~(k < itx)
      <4>1. k - 1 \in 1..(n - 1) /\ Old(k - 1) = k
        BY <3>2, <2>1, <1>1
      <4> QED
        BY <4>1
    <3> QED
      BY <3>1, <3>2
  <2>2. \A k \in 1..(n - 1) : Old(k) \in 1..n /\ Old(k) # itx
    BY <1>1
  <2>3. \A j, k \in 1..(n - 1) : Old(j) = Old(k) => j = k
    BY <1>1
  <2>4. \A j, k \in 1..(n - 1) : j < k => Old(j) < Old(k)
    BY <1>1
  <2> QED
    BY <2>1, <2>2, <2>3, <2>4
<1> HIDE DEF Old
<1>4. PICK p : Origin(p)
  BY <1>1 DEF RescanInv
<1> DEFINE q == [k \in 1..(n - 1) |-> p[Old(k)]]
<1>5. Ascending(boundingBox')
  <2>1. DOMAIN boundingBox' = 1..(n - 1) /\ DOMAIN boundingBox = 1..n /\ Ascending(boundingBox)
    BY <1>1, <1>2 DEF RescanInv
  <2> QED
    <3> SUFFICES ASSUME NEW j \in 1..(n - 1), NEW k \in 1..(n - 1), j < k
                 PROVE  boundingBox'[j].score <= boundingBox'[k].score
      BY <2>1 DEF Ascending
    <3>1. Old(j) \in 1..n /\ Old(k) \in 1..n /\ Old(j) < Old(k)
      BY <1>3
    <3>2. boundingBox[Old(j)].score <= boundingBox[Old(k)].score
      BY <2>1, <3>1 DEF Ascending
    <3> QED
      BY <3>2, <1>2
<1>6. /\ q \in [1..(n - 1) -> DOMAIN input]
      /\ \A j, k \in 1..(n - 1) : q[j] = q[k] => j = k
      /\ \A k \in 1..(n - 1) : boundingBox'[k] = input[q[k]]
  BY <1>2, <1>3, <1>4 DEF Origin
<1>7. ASSUME NEW i \in DOMAIN input
      PROVE  \/ \E k \in 1..(n - 1) : q[k] = i
             \/ \E j \in DOMAIN previous : Outscores(input[i], previous[j], Threshold, Mode)
  <2>1. CASE \E j \in DOMAIN previous : Outscores(input[i], previous[j], Threshold, Mode)
    BY <2>1
  <2>2. CASE \E k \in 1..n : p[k] = i
    <3>1. PICK k \in 1..n : p[k] = i
      BY <2>2
    <3>2. CASE k = itx
      <4>1. boundingBox[itx] = input[i]
        BY <3>1, <3>2, <1>4 DEF Origin
      <4> QED
        BY <4>1, <1>1
    <3>3. CASE k # itx
      <4>1. PICK j \in 1..(n - 1) : Old(j) = k
        BY <3>3, <1>3
      <4> QED
        BY <4>1, <3>1
    <3> QED
      BY <3>2, <3>3
  <2> QED
    BY <2>1, <2>2, <1>4 DEF Origin
<1> HIDE DEF q
<1>8. PICK z : z = q
  OBVIOUS
<1>9. /\ z \in [1..Len(boundingBox') -> DOMAIN input']
      /\ \A j, k \in 1..Len(boundingBox') : z[j] = z[k] => j = k
      /\ \A k \in 1..Len(boundingBox') : boundingBox'[k] = input'[z[k]]
  <2> HIDE DEF n
  <2> QED
    BY <1>1, <1>2, <1>6, <1>8
<1>10. \A i \in DOMAIN input' :
         \/ \E k \in 1..Len(boundingBox') : z[k] = i
         \/ \E j \in DOMAIN previous' : Outscores(input'[i], previous'[j], Threshold, Mode)
  <2> HIDE DEF n
  <2> QED
    BY <1>1, <1>2, <1>7, <1>8
<1>11. Origin(z)'
  BY ONLY <1>9, <1>10 DEF Origin
<1> QED
  BY <1>5, <1>11 DEF RescanInv

LEMMA RescanStep == TwoBoxsInv /\ RescanInv /\ [Next]_vars => RescanInv'
<1> SUFFICES ASSUME TwoBoxsInv, RescanInv, [Next]_vars PROVE RescanInv'
  OBVIOUS
<1>1. CASE ReturnEmpty
  <2>1. input = <<>> /\ boundingBox' = <<>> /\ input' = input
    BY <1>1 DEF ReturnEmpty, TwoBoxsInv
  <2>2. Ascending(boundingBox')
    BY <2>1 DEF Ascending
  <2>3. Origin(<<>>)'
    BY <2>1 DEF Origin
  <2> QED
    BY <2>2, <2>3 DEF RescanInv
<1>2. CASE Keep \/ NextPrevious \/ Return \/ UNCHANGED vars
  <2>1. UNCHANGED <<input, boundingBox, previous>> /\ (pc' = pc \/ pc = "scan")
    BY <1>2 DEF Keep, NextPrevious, Return, vars
  <2>2. \A p : Origin(p)' <=> Origin(p)
    BY <2>1 DEF Origin
  <2> QED
    BY <2>1, <2>2 DEF RescanInv
<1> QED
  BY <1>1, <1>2, RescanSort, RescanErase DEF Next

LEMMA CountUpTo ==
  ASSUME NEW n \in Nat
  PROVE  IsFiniteSet(1..n) /\ Cardinality(1..n) = n
<1>1. IsFiniteSet(1..n) /\ Cardinality(1..n) = IF 1 > n THEN 0 ELSE n - 1 + 1
  <2>1. n \in Int /\ 1 \in Int
    OBVIOUS
  <2> QED
    BY <2>1, FS_Interval
<1> QED
  BY <1>1

LEMMA Pigeons ==
  ASSUME NEW m \in Nat, NEW n \in Nat, m < n, NEW f \in [1..n -> 1..m]
  PROVE  \E j, k \in 1..n : j # k /\ f[j] = f[k]
<1>1. /\ IsFiniteSet(1..n) /\ IsFiniteSet(1..m)
      /\ Cardinality(1..n) = n /\ Cardinality(1..m) = m
  BY CountUpTo
<1> QED
  BY <1>1, FS_PigeonHole

\* How a vector that is a rescanned one is recognised: by where its boxes come
\* from.
LEMMA RescannedFrom ==
  ASSUME NEW s \in Seq(Bbox), NEW prev, NEW t, NEW mode, NEW r \in Seq(Bbox), Ascending(r),
         NEW p \in [1..Len(r) -> DOMAIN s],
         \A j, k \in 1..Len(r) : p[j] = p[k] => j = k,
         \A k \in 1..Len(r) : r[k] = s[p[k]] /\ p[k] \in Standing(s, prev, t, mode),
         \A i \in Standing(s, prev, t, mode) : \E k \in 1..Len(r) : p[k] = i
  PROVE  r \in Rescanned(s, prev, t, mode)
<1> DEFINE stand == Standing(s, prev, t, mode)
           n     == Len(r)
<1>1. n \in Nat /\ r = [k \in 1..n |-> r[k]] /\ DOMAIN p = 1..n
  OBVIOUS
<1> HIDE DEF n, stand
<1>2. p \in Bijection(1..n, stand)
  <2>1. p \in [1..n -> stand]
    BY DEF n, stand
  <2>2. \A j, k \in 1..n : p[j] = p[k] => j = k
    BY DEF n
  <2>3. \A i \in stand : \E k \in 1..n : p[k] = i
    BY DEF n, stand
  <2> QED
    BY <2>1, <2>2, <2>3 DEF Bijection, Injection, IsInjective, Surjection
<1>3. n <= Len(s)
  <2> SUFFICES ASSUME n > Len(s) PROVE FALSE
    BY <1>1
  <2> DEFINE m == Len(s)
  <2>1. n \in Nat /\ m \in Nat /\ m < n /\ p \in [1..n -> 1..m]
    BY <1>1 DEF n
  <2> HIDE DEF m
  <2>2. \E j, k \in 1..n : j # k /\ p[j] = p[k]
    BY ONLY <2>1, Pigeons
  <2> QED
    BY <2>2 DEF n
<1>4. r = [k \in DOMAIN p |-> s[p[k]]]
  BY <1>1 DEF n
<1> QED
  BY <1>1, <1>2, <1>3, <1>4 DEF Rescanned, stand

\* What the call returns is a rescanned vector.
LEMMA ReturnsRescanned ==
  ASSUME TwoBoxsInv, RescanInv, Return \/ ReturnEmpty
  PROVE  boundingBox \in Rescanned(input, previous, Threshold, Mode)
<1>1. /\ input \in Seq(Bbox) /\ previous \in Seq(Bbox) /\ boundingBox \in Seq(Bbox)
  BY NmsTwoBoxsAssumption DEF TwoBoxsInv, TypeOK
<1>2. CASE ReturnEmpty
  <2>1. input = <<>> /\ boundingBox = <<>>
    BY <1>2 DEF ReturnEmpty, TwoBoxsInv
  <2>2. Standing(input, previous, Threshold, Mode) = {}
    BY <2>1 DEF Standing
  <2>3. Ascending(boundingBox) /\ 1..Len(boundingBox) = {}
    BY <2>1 DEF Ascending
  <2>4. <<>> \in [1..Len(boundingBox) -> DOMAIN input]
    BY <2>3
  <2> QED
    BY <2>2, <2>3, <2>4, <1>1, RescannedFrom
<1>3. CASE Return
  <2>1. pc = "scan" /\ \A j \in DOMAIN previous : j < ity
    <3>1. ity \in Nat /\ ity > Len(previous) /\ pc = "scan"
      BY <1>3 DEF Return, TwoBoxsInv, TypeOK
    <3> QED
      BY <3>1, <1>1
  <2>2. PICK p : Origin(p)
    BY <2>1 DEF RescanInv
  <2>3. \A k \in 1..Len(boundingBox) : \A j \in DOMAIN previous :
          ~Outscores(boundingBox[k], previous[j], Threshold, Mode)
    BY <2>1, <1>1 DEF TwoBoxsInv, KeptStand
  <2>4. \A k \in 1..Len(boundingBox) : p[k] \in Standing(input, previous, Threshold, Mode)
    BY <2>2, <2>3 DEF Origin, Standing
  <2>5. \A i \in Standing(input, previous, Threshold, Mode) : \E k \in 1..Len(boundingBox) : p[k] = i
    BY <2>2 DEF Origin, Standing
  <2>6. Ascending(boundingBox)
    BY <2>1 DEF RescanInv
  <2> QED
    BY <2>2, <2>4, <2>5, <2>6, <1>1, RescannedFrom DEF Origin
<1> QED
  BY <1>2, <1>3

\* RescanNms speaks of the same boxes, overlap and order.
LEMMA SameRescanned ==
  \A s, prev, t, mode : Rescan!Rescanned(s, prev, t, mode) = Rescanned(s, prev, t, mode)
<1>1. \A a, b : Rescan!Larger(a, b) = Larger(a, b) /\ Rescan!Smaller(a, b) = Smaller(a, b)
  BY DEF Rescan!Larger, Larger, Rescan!Smaller, Smaller
<1>2. \A a, b : Rescan!Inter(a, b) = Inter(a, b)
  BY <1>1, Zenon DEF Rescan!Inter, Inter, Rescan!Extent, Extent
<1>3. \A n, d, t : Rescan!RatioAbove(n, d, t) <=> RatioAbove(n, d, t)
  BY DEF Rescan!RatioAbove, RatioAbove
<1>4. \A a, b, t, mode : Rescan!Suppresses(a, b, t, mode) <=> Suppresses(a, b, t, mode)
  BY <1>1, <1>2, <1>3, Zenon DEF Rescan!Suppresses, Suppresses
<1>5. \A b, p, t, mode : Rescan!Outscores(b, p, t, mode) <=> Outscores(b, p, t, mode)
  BY <1>4 DEF Rescan!Outscores, Outscores
<1>6. \A s, prev, t, mode : Rescan!Standing(s, prev, t, mode) = Standing(s, prev, t, mode)
  BY <1>5 DEF Rescan!Standing, Standing
<1>7. \A r : Rescan!Ascending(r) <=> Ascending(r)
  BY DEF Rescan!Ascending, Ascending
<1> QED
  <2>1. \A S, T : Rescan!Bijection(S, T) = Bijection(S, T)
    BY DEF Rescan!Bijection, Rescan!Injection, Rescan!IsInjective, Rescan!Surjection,
           Bijection, Injection, IsInjective, Surjection
  <2> TAKE s, prev, t, mode
  <2>2. \A n : Rescan!Bijection(1..n, Rescan!Standing(s, prev, t, mode))
                 = Bijection(1..n, Standing(s, prev, t, mode))
    BY <1>6, <2>1
  <2>3. UNION {Rescan!Bijection(1..n, Rescan!Standing(s, prev, t, mode)) : n \in 0..Len(s)}
          = UNION {Bijection(1..n, Standing(s, prev, t, mode)) : n \in 0..Len(s)}
    BY <2>2
  <2> DEFINE lineups == UNION {Bijection(1..n, Standing(s, prev, t, mode)) : n \in 0..Len(s)}
             chosen  == {[k \in DOMAIN p |-> s[p[k]]] : p \in lineups}
  <2>4. Rescan!Rescanned(s, prev, t, mode) = {r \in chosen : Rescan!Ascending(r)}
    BY <2>3 DEF Rescan!Rescanned
  <2>5. Rescanned(s, prev, t, mode) = {r \in chosen : Ascending(r)}
    BY DEF Rescanned
  <2> HIDE DEF chosen
  <2> QED
    BY <1>7, <2>4, <2>5

\* nmsTwoBoxs implements the one-step rescan Mtcnn takes it for: nothing
\* changes for the caller until the call returns, and then the vector is the
\* sorted rest of it.
THEOREM TwoBoxsImplementsRescan == Spec => ImplementsRescan
<1>1. Init => Rescan!Init /\ RescanInv
  BY DEF Init, Rescan!Init, RescanInv
<1>2. TwoBoxsInv /\ RescanInv /\ [Next]_vars
        => [Rescan!Select]_<<input, previous, IF pc = "done" THEN boundingBox ELSE <<>>, pc = "done">>
  <2> SUFFICES ASSUME TwoBoxsInv, RescanInv, [Next]_vars
      PROVE [Rescan!Select]_<<input, previous, IF pc = "done" THEN boundingBox ELSE <<>>, pc = "done">>
    OBVIOUS
  <2>1. CASE Return \/ ReturnEmpty
    <3>1. pc # "done" /\ pc' = "done" /\ UNCHANGED <<input, boundingBox, previous>>
      BY <2>1 DEF Return, ReturnEmpty
    <3>2. boundingBox \in Rescanned(input, previous, Threshold, Mode)
      BY <2>1, ReturnsRescanned
    <3> QED
      BY <3>1, <3>2, SameRescanned DEF Rescan!Select
  <2>2. CASE Sort \/ Erase \/ Keep \/ NextPrevious
    BY <2>2 DEF Sort, Erase, Keep, NextPrevious
  <2>3. CASE UNCHANGED vars
    BY <2>3 DEF vars
  <2> QED
    BY <2>1, <2>2, <2>3 DEF Next
<1> QED
  BY <1>1, <1>2, TwoBoxsInvariant, RescanStep, PTL DEF Spec, ImplementsRescan, Rescan!Spec
-----------------------------------------------------------------------------
\* At most so many steps are left of a call: each previous box costs one walk
\* over the vector and one step more.
StepsLeft ==
  LET n == Len(boundingBox)
      p == Len(previous)
  IN  CASE pc = "start" -> p * (n + 2) + n + 2
        [] pc = "scan"  -> (p + 1 - ity) * (n + 2) + (n + 2 - itx)
        [] OTHER        -> 0

Lowers == StepsLeft \in Nat /\ StepsLeft' \in Nat /\ StepsLeft' < StepsLeft

\* The rows of StepsLeft, as far as arithmetic goes.
LEMMA Rows ==
  ASSUME NEW a \in Nat, NEW c \in Nat
  PROVE  a * c \in Nat /\ (a + 1) * c = a * c + c /\ a * (c + 1) = a * c + a
OBVIOUS

LEMMA StepsLower ==
  ASSUME TwoBoxsInv, Next
  PROVE  Lowers
<1> DEFINE n == Len(boundingBox)
           p == Len(previous)
           a == p + 1 - ity
           r == a * (n + 2)
<1>1. /\ n \in Nat /\ p \in Nat /\ ity \in 1..(p + 1) /\ itx \in 1..(n + 1)
      /\ boundingBox \in Seq(Bbox) /\ a \in Nat /\ previous' = previous
      /\ pc = "start" => ity = 1 /\ itx = 1
  <2>1. previous \in Seq(Bbox)
    BY NmsTwoBoxsAssumption DEF TwoBoxsInv, TypeOK
  <2>2. previous' = previous
    BY DEF Next, ReturnEmpty, Sort, Erase, Keep, NextPrevious, Return
  <2> QED
    BY <2>1, <2>2 DEF TwoBoxsInv, TypeOK
<1>2. r \in Nat
  BY <1>1, Rows
<1>3. CASE ReturnEmpty \/ Sort
  <2>1. pc = "start" /\ ity = 1 /\ itx = 1 /\ a = p
    BY <1>1, <1>3 DEF ReturnEmpty, Sort
  <2>2. StepsLeft = r + n + 2
    BY <2>1 DEF StepsLeft
  <2>3. CASE ReturnEmpty
    <3>1. StepsLeft' = 0
      BY <2>3 DEF ReturnEmpty, StepsLeft
    <3> HIDE DEF r
    <3> QED
      BY <1>1, <1>2, <2>2, <3>1 DEF Lowers
  <2>4. CASE Sort
    <3>1. /\ Len(boundingBox') = n /\ pc' = "scan" /\ ity' = ity /\ itx' = itx
      BY <1>1, <2>4, SortKeepsBoxes DEF Sort
    <3>2. StepsLeft' = r + (n + 2 - itx)
      BY <1>1, <3>1 DEF StepsLeft
    <3> HIDE DEF r
    <3> QED
      BY <1>1, <1>2, <2>1, <2>2, <3>2 DEF Lowers
  <2> QED
    BY <1>3, <2>3, <2>4
<1>4. CASE Erase
  <2> DEFINE q == a * (n + 1)
  <2>1. /\ pc = "scan" /\ pc' = "scan" /\ itx <= n /\ itx' = itx /\ ity' = ity
        /\ boundingBox' = RemoveAt(boundingBox, itx)
    BY <1>4 DEF Erase
  <2>2. Len(boundingBox') = n - 1 /\ n - 1 \in Nat
    BY <1>1, <2>1, RemoveAtProperties
  <2>3. StepsLeft = r + (n + 2 - itx) /\ StepsLeft' = q + (n + 1 - itx)
    <3>1. StepsLeft = r + (n + 2 - itx)
      BY <2>1 DEF StepsLeft
    <3>2. StepsLeft' = a * (Len(boundingBox') + 2) + (Len(boundingBox') + 2 - itx)
      BY <1>1, <2>1 DEF StepsLeft
    <3>3. Len(boundingBox') + 2 = n + 1
      BY <1>1, <2>2
    <3>4. a * (Len(boundingBox') + 2) = q
      BY <3>3, Zenon
    <3>5. Len(boundingBox') + 2 - itx = n + 1 - itx
      BY <1>1, <2>2
    <3> HIDE DEF a, n, r, q
    <3> QED
      BY <3>1, <3>2, <3>4, <3>5
  <2>4. q \in Nat /\ r = q + a
    <3>1. n + 1 \in Nat /\ n + 1 + 1 = n + 2
      BY <1>1
    <3> QED
      BY <1>1, <3>1, Rows
  <2> HIDE DEF q, r, a
  <2> QED
    BY <1>1, <1>2, <2>1, <2>3, <2>4 DEF Lowers
<1>5. CASE Keep
  <2>1. /\ pc = "scan" /\ pc' = "scan" /\ itx <= n /\ itx' = itx + 1 /\ ity' = ity
        /\ boundingBox' = boundingBox
    BY <1>5 DEF Keep
  <2>2. StepsLeft = r + (n + 2 - itx) /\ StepsLeft' = r + (n + 2 - itx')
    BY <1>1, <2>1 DEF StepsLeft
  <2> HIDE DEF r
  <2> QED
    BY <1>1, <1>2, <2>1, <2>2 DEF Lowers
<1>6. CASE NextPrevious
  <2> DEFINE q == (a - 1) * (n + 2)
  <2>1. /\ pc = "scan" /\ pc' = "scan" /\ itx' = 1 /\ ity' = ity + 1 /\ ity <= p
        /\ boundingBox' = boundingBox
    BY <1>6 DEF NextPrevious
  <2>2. a - 1 \in Nat /\ p + 1 - ity' = a - 1
    BY <1>1, <2>1
  <2>3. StepsLeft = r + (n + 2 - itx) /\ StepsLeft' = q + (n + 1)
    BY <1>1, <2>1, <2>2 DEF StepsLeft
  <2>4. q \in Nat /\ r = q + (n + 2)
    <3>1. n + 2 \in Nat /\ (a - 1) + 1 = a
      BY <1>1
    <3> HIDE DEF a
    <3> QED
      BY <2>2, <3>1, Rows
  <2> HIDE DEF q, r, a
  <2> QED
    BY <1>1, <1>2, <2>3, <2>4 DEF Lowers
<1>7. CASE Return
  <2>1. pc = "scan" /\ pc' = "done"
    BY <1>7 DEF Return
  <2>2. StepsLeft = r + (n + 2 - itx) /\ StepsLeft' = 0
    BY <1>1, <2>1 DEF StepsLeft
  <2> HIDE DEF r
  <2> QED
    BY <1>1, <1>2, <2>2 DEF Lowers
<1> QED
  BY <1>3, <1>4, <1>5, <1>6, <1>7 DEF Next

\* A call of nmsTwoBoxs takes at most (p + 1) * (n + 2) steps on n new and p
\* previous boxes, although it erases as it goes: the argument behind Returns.
THEOREM TwoBoxsStepsBounded == Spec => [][Lowers]_vars
<1>1. TwoBoxsInv /\ [Next]_vars => [Lowers]_vars
  BY StepsLower
<1> QED
  BY <1>1, TwoBoxsInvariant, PTL DEF Spec
=============================================================================
