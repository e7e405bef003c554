---------------------------- MODULE MtcnnProofs ----------------------------
(***************************************************************************)
(* Proofs about an MTCNN object, for every set of places and scores, every *)
(* number of scales and every sequence of calls.                           *)
(***************************************************************************)
EXTENDS Mtcnn, FiniteSetTheorems, TLAPS

USE DEF Cleared, Remembered, Following, Leaving, LastMeasure

\* The boxes of a stage: of one frame and some levels, last accepted by one of
\* nets, moved n times.
Found(f, levels, nets, n) ==
  {b \in Box : b.frame = f /\ b.level \in levels /\ b.net \in nets /\ b.moves = n}

\* The boxes a ...PreviousBbox_ member remembers.
Unrefined(net, n) == {b \in Box : b.net = net /\ b.moves = n}

\* The levels a stage may hold boxes of.
Levels == IF mode = "detect" THEN 1..Scales ELSE {level}

\* What the stages hold at each step of a call.
FirstInv ==
  /\ pc \in {"pnet", "nms1", "refine1"} => first \in Seq(Found(frame, Levels, {"P"}, 0))
  /\ pc \in {"rnet", "refine2", "onet", "nms3"} => first \in Seq(Found(frame, Levels, {"P", "R"}, 1))

SecondInv ==
  /\ pc \in {"rnet", "refine2"} => second \in Seq(Found(frame, Levels, {"R"}, 1))
  /\ pc \in {"onet", "nms3"} => second \in Seq(Found(frame, Levels, {"R", "O"}, 2))

ThirdInv ==
  /\ pc = "onet" => third \in Seq(Found(frame, Levels, {"O"}, 2))
  /\ pc = "nms3" => third \in Seq(Found(frame, Levels, {"O"}, 3))
  /\ pc = "idle" => final \in Seq(Found(frame, 1..Scales, {"O"}, 3))
  /\ pc # "idle" => final = <<>>

\* Each way round the loop of detectMaxFace has emptied the stages.
EmptiedInv ==
  mode # "detect" =>
    /\ pc = "pnet" => first = <<>>
    /\ pc \in {"pnet", "nms1", "refine1"} => second = <<>>
    /\ pc \in {"pnet", "nms1", "refine1", "rnet", "refine2"} => third = <<>>

PreviousInv == /\ firstPrevious \in Seq(Unrefined("P", 0))
               /\ secondPrevious \in Seq(Unrefined("R", 1))

\* A call is about a frame, and all but its start about a scale.
CallInv == /\ pc # "idle" => frame \in 1..MaxCalls
           /\ pc \notin {"idle", "pnet"} => mode = "detect" \/ level \in 1..Scales

MtcnnInv == /\ TypeOK /\ FirstInv /\ SecondInv /\ ThirdInv
            /\ EmptiedInv /\ PreviousInv /\ CallInv
-----------------------------------------------------------------------------
\* Sequences of a set.
LEMMA Widened == ASSUME NEW S, NEW T, S \subseteq T, NEW s \in Seq(S) PROVE s \in Seq(T)
OBVIOUS

LEMMA Joined == ASSUME NEW S, NEW s \in Seq(S), NEW r \in Seq(S) PROVE s \o r \in Seq(S)
OBVIOUS

LEMMA ElementsIn ==
  ASSUME NEW S, NEW s \in Seq(S)
  PROVE  Elements(s) \subseteq S /\ \A i \in DOMAIN s : s[i] \in S
BY DEF Elements

LEMMA UpToIn ==
  ASSUME NEW n \in Nat, NEW S, NEW s \in UpTo(n, S)
  PROVE  s \in Seq(S)
BY DEF UpTo

LEMMA Updated ==
  ASSUME NEW S, NEW s \in Seq(S), NEW i, NEW b \in S
  PROVE  [s EXCEPT ![i] = b] \in Seq(S) /\ Len([s EXCEPT ![i] = b]) = Len(s)
<1>1. Len(s) \in Nat /\ DOMAIN s = 1..Len(s) /\ s \in [1..Len(s) -> S]
  OBVIOUS
<1>2. [s EXCEPT ![i] = b] \in [1..Len(s) -> S]
  BY <1>1
<1> QED
  BY <1>1, <1>2

LEMMA NmsKeeps ==
  ASSUME NEW S, NEW s \in Seq(S), NEW t, NEW m, NEW r \in Nms(s, t, m)
  PROVE  r \in Seq(S) /\ IsGreedy(s, r, t, m)
<1>1. Len(s) \in Nat /\ r \in UpTo(Len(s), Elements(s)) /\ IsGreedy(s, r, t, m)
  BY DEF Nms
<1>2. r \in Seq(Elements(s))
  BY <1>1, UpToIn
<1> QED
  BY <1>1, <1>2, ElementsIn, Widened

\* What is left by rescanning: standing boxes, ascending, each at most once.
LEMMA RescannedKeeps ==
  ASSUME NEW S, NEW s \in Seq(S), NEW prev, NEW t, NEW measure, NEW r \in Rescanned(s, prev, t, measure)
  PROVE  /\ r \in Seq(S) /\ Ascending(r)
         /\ \E p \in [1..Len(r) -> Standing(s, prev, t, measure)] :
              /\ \A j, k \in 1..Len(r) : p[j] = p[k] => j = k
              /\ \A k \in 1..Len(r) : r[k] = s[p[k]]
<1> DEFINE stand == Standing(s, prev, t, measure)
<1>1. PICK n \in 0..Len(s) : \E p \in Bijection(1..n, stand) : r = [k \in DOMAIN p |-> s[p[k]]]
  BY DEF Rescanned
<1>3. PICK p \in Bijection(1..n, stand) : r = [k \in DOMAIN p |-> s[p[k]]]
  BY <1>1
<1>2. stand \subseteq 1..Len(s) /\ Len(s) \in Nat
  BY DEF Standing
<1>4. p \in [1..n -> stand] /\ \A j, k \in 1..n : p[j] = p[k] => j = k
  BY DEF Bijection, Injection, IsInjective
<1>5. \A i \in stand : s[i] \in S
  BY <1>2
<1> HIDE DEF stand
<1>6. r \in [1..n -> S] /\ DOMAIN r = 1..n /\ \A k \in 1..n : r[k] = s[p[k]]
  BY <1>3, <1>4, <1>5
<1>7. r \in Seq(S) /\ Len(r) = n
  BY <1>6
<1>8. Ascending(r)
  BY DEF Rescanned
<1> QED
  BY <1>4, <1>6, <1>7, <1>8 DEF stand

LEMMA NmsTwoBoxsKeeps ==
  ASSUME NEW S, NEW s \in Seq(S), NEW prev, NEW t, NEW r \in NmsTwoBoxs(s, prev, t)
  PROVE  r \in Seq(S)
BY RescannedKeeps DEF NmsTwoBoxs

LEMMA ExtractKeeps ==
  ASSUME NEW S, NEW s \in Seq(S), NEW r \in ExtractMaxFace(s)
  PROVE  r \in Seq(S)
<1>1. PICK b \in Elements(s) : r = <<b>>
  BY DEF ExtractMaxFace
<1>2. b \in S
  BY ElementsIn
<1> QED
  BY <1>1, <1>2
-----------------------------------------------------------------------------
\* refine counts as a move and changes nothing but the place.
LEMMA RefineMoves ==
  ASSUME NEW f, NEW levels, NEW nets, NEW n \in 0..2,
         NEW s \in Seq(Found(f, levels, nets, n)), NEW r \in Refine(s)
  PROVE  r \in Seq(Found(f, levels, nets, n + 1)) /\ Len(r) = Len(s)
<1>1. PICK p \in [DOMAIN s -> Rects] : r = [i \in DOMAIN s |-> Placed(s[i], p[i])]
  BY DEF Refine
<1>2. ASSUME NEW b \in Found(f, levels, nets, n), NEW q \in Rects
      PROVE  Placed(b, q) \in Found(f, levels, nets, n + 1)
  <2>1. q.x1 \in Int /\ q.y1 \in Int /\ q.x2 \in Int /\ q.y2 \in Int /\ q.area \in Int
    BY MtcnnAssumption
  <2>2. b \in Box /\ b.frame = f /\ b.level \in levels /\ b.net \in nets /\ b.moves = n
    BY DEF Found
  <2>3. Placed(b, q) \in Box
    <3>1. b.moves + 1 \in 0..3
      BY <2>2
    <3> QED
      BY <2>1, <2>2, <3>1, Zenon DEF Placed, Box
  <2>4. /\ Placed(b, q).frame = b.frame /\ Placed(b, q).level = b.level
        /\ Placed(b, q).net = b.net /\ Placed(b, q).moves = b.moves + 1
    BY <2>2 DEF Placed, Box
  <2> QED
    BY <2>2, <2>3, <2>4 DEF Found
<1>3. Len(s) \in Nat /\ DOMAIN s = 1..Len(s)
  OBVIOUS
<1>4. \A i \in 1..Len(s) : r[i] \in Found(f, levels, nets, n + 1)
  BY <1>1, <1>2, <1>3, ElementsIn
<1> QED
  BY <1>1, <1>3, <1>4

\* A network that accepts a box leaves it where it is.
LEMMA AcceptedStays ==
  ASSUME NEW f, NEW levels, NEW nets, NEW n, NEW b \in Found(f, levels, nets, n),
         NEW s \in Scores, NEW net \in {"R", "O"}
  PROVE  Accepted(b, s, net) \in Found(f, levels, {net}, n)
<1>1. b \in Box /\ b.frame = f /\ b.level \in levels /\ b.moves = n
  BY DEF Found
<1>2. AreaOf(b) \in Int
  BY <1>1 DEF AreaOf, Box
<1>3. Accepted(b, s, net) \in Box
  BY <1>1, <1>2, Zenon DEF Accepted, Box
<1>4. /\ Accepted(b, s, net).frame = b.frame /\ Accepted(b, s, net).level = b.level
      /\ Accepted(b, s, net).net = net /\ Accepted(b, s, net).moves = b.moves
  BY <1>1 DEF Accepted, Box
<1> QED
  BY <1>1, <1>3, <1>4 DEF Found

LEMMA CandidateFound ==
  ASSUME frame \in 1..MaxCalls, NEW r \in Rects, NEW s \in Scores, NEW k \in 1..Scales
  PROVE  Candidate(r, s, k) \in Found(frame, {k}, {"P"}, 0)
<1>1. r.x1 \in Int /\ r.y1 \in Int /\ r.x2 \in Int /\ r.y2 \in Int /\ r.area \in Int
  BY MtcnnAssumption
<1>2. Candidate(r, s, k) \in Box
  BY <1>1 DEF Candidate, Box
<1>3. /\ Candidate(r, s, k).frame = frame /\ Candidate(r, s, k).level = k
      /\ Candidate(r, s, k).net = "P" /\ Candidate(r, s, k).moves = 0
  BY DEF Candidate
<1> QED
  BY <1>2, <1>3 DEF Found

LEMMA FoundMonotone ==
  ASSUME NEW f, NEW ls, NEW ms, ls \subseteq ms, NEW ns, NEW os, ns \subseteq os, NEW n
  PROVE  Found(f, ls, ns, n) \subseteq Found(f, ms, os, n) /\ Found(f, ls, ns, n) \subseteq Box
BY DEF Found
-----------------------------------------------------------------------------
\* What the types say, as separate facts.
LEMMA Types ==
  ASSUME TypeOK
  PROVE  /\ mode \in Modes /\ mode \in {"detect", "detectMaxFace"}
         /\ frame \in 0..MaxCalls /\ level \in 0..Scales
         /\ MaxCalls \in Nat /\ Scales \in Nat /\ frame \in Nat /\ level \in Nat
         /\ first \in Seq(Box) /\ second \in Seq(Box) /\ third \in Seq(Box)
         /\ firstPrevious \in Seq(Box) /\ secondPrevious \in Seq(Box) /\ final \in Seq(Box)
BY MtcnnAssumption DEF TypeOK

LEMMA FoundAreBoxes ==
  ASSUME NEW f, NEW ls, NEW ns, NEW n, NEW s \in Seq(Found(f, ls, ns, n))
  PROVE  s \in Seq(Box)
BY FoundMonotone, Widened

LEMMA MtcnnInit == Init => MtcnnInv
<1> SUFFICES ASSUME Init PROVE MtcnnInv
  OBVIOUS
<1>1. /\ pc = "idle" /\ mode \in Modes /\ frame = 0 /\ level = 0
      /\ first = <<>> /\ second = <<>> /\ third = <<>>
      /\ firstPrevious = <<>> /\ secondPrevious = <<>> /\ final = <<>>
  BY DEF Init
<1>2. TypeOK
  BY <1>1, MtcnnAssumption DEF TypeOK
<1>3. FirstInv /\ SecondInv /\ ThirdInv /\ EmptiedInv /\ PreviousInv /\ CallInv
  BY <1>1 DEF FirstInv, SecondInv, ThirdInv, EmptiedInv, PreviousInv, CallInv
<1> QED
  BY <1>2, <1>3 DEF MtcnnInv

LEMMA CallStep == MtcnnInv /\ Call => MtcnnInv'
<1> SUFFICES ASSUME MtcnnInv, Call PROVE MtcnnInv'
  OBVIOUS
<1>1. /\ pc' = "pnet" /\ frame' = frame + 1 /\ frame < MaxCalls /\ mode' \in Modes /\ level' = 0
      /\ final' = <<>> /\ first' = <<>>
      /\ \/ /\ mode' = "detect" /\ second' = second /\ third' = third
            /\ firstPrevious' = firstPrevious /\ secondPrevious' = secondPrevious
         \/ /\ mode' # "detect" /\ second' = <<>> /\ third' = <<>>
            /\ firstPrevious' = <<>> /\ secondPrevious' = <<>>
  BY DEF Call, previous
<1>2. TypeOK
  BY DEF MtcnnInv
<1>3. frame' \in 1..MaxCalls /\ level' \in 0..Scales
  <2>1. frame \in Nat /\ MaxCalls \in Nat /\ Scales \in Nat
    BY <1>2, Types
  <2>2. frame' = frame + 1 /\ frame < MaxCalls /\ level' = 0
    BY <1>1
  <2> QED
    BY <2>1, <2>2
<1>4. /\ second' \in Seq(Box) /\ third' \in Seq(Box)
      /\ firstPrevious' \in Seq(Box) /\ secondPrevious' \in Seq(Box)
  <2>1. /\ second \in Seq(Box) /\ third \in Seq(Box)
        /\ firstPrevious \in Seq(Box) /\ secondPrevious \in Seq(Box)
    BY <1>2, Types
  <2>2. <<>> \in Seq(Box)
    OBVIOUS
  <2> QED
    BY <1>1, <2>1, <2>2
<1>5. TypeOK'
  BY <1>1, <1>3, <1>4 DEF TypeOK
<1>6. FirstInv' /\ SecondInv' /\ ThirdInv'
  BY <1>1 DEF FirstInv, SecondInv, ThirdInv
<1>8. EmptiedInv' /\ CallInv'
  BY <1>1, <1>3 DEF EmptiedInv, CallInv
<1>7. PreviousInv'
  <2>1. firstPrevious \in Seq(Unrefined("P", 0)) /\ secondPrevious \in Seq(Unrefined("R", 1))
    BY DEF MtcnnInv, PreviousInv
  <2>2. \A S : <<>> \in Seq(S)
    OBVIOUS
  <2> QED
    BY <1>1, <2>1, <2>2 DEF PreviousInv
<1> QED
  BY <1>5, <1>6, <1>7, <1>8 DEF MtcnnInv

LEMMA PNetStep == MtcnnInv /\ PNet => MtcnnInv'
<1> SUFFICES ASSUME MtcnnInv, PNet PROVE MtcnnInv'
  OBVIOUS
<1>1. /\ pc = "pnet" /\ level < Scales /\ level' = level + 1
      /\ pc' = IF mode = "detect" THEN "pnet" ELSE "nms1"
      /\ UNCHANGED <<mode, frame, second, third, firstPrevious, secondPrevious, final>>
  BY DEF PNet, call, previous
<1>2. TypeOK
  BY DEF MtcnnInv
<1>3. /\ frame \in 1..MaxCalls /\ level' \in 1..Scales /\ level' \in 0..Scales
  <2>1. level \in Nat /\ Scales \in Nat
    BY <1>2, Types
  <2>2. level < Scales /\ level' = level + 1 /\ frame \in 1..MaxCalls
    BY <1>1 DEF MtcnnInv, CallInv
  <2> QED
    BY <2>1, <2>2
<1> DEFINE S == Found(frame, Levels', {"P"}, 0)
<1>4. Candidates(level') \subseteq S
  <2>1. {level'} \subseteq Levels'
    BY <1>3 DEF Levels
  <2>2. \A r \in Rects, s \in Scores : Candidate(r, s, level') \in Found(frame, {level'}, {"P"}, 0)
    BY <1>3, CandidateFound
  <2>3. Found(frame, {level'}, {"P"}, 0) \subseteq S
    BY <2>1, FoundMonotone
  <2> QED
    BY <2>2, <2>3 DEF Candidates
<1>5. PICK v \in UpTo(PerScale, Candidates(level')) :
        \E kept \in Nms(v, 5, "Union") : first' = first \o kept
  BY DEF PNet
<1>6. PICK kept \in Nms(v, 5, "Union") : first' = first \o kept
  BY <1>5
<1> HIDE DEF S
<1>7. v \in Seq(S)
  <2>1. v \in Seq(Candidates(level'))
    BY MtcnnAssumption, UpToIn
  <2> QED
    BY <1>4, <2>1, Widened
<1>8. kept \in Seq(S)
  BY <1>7, NmsKeeps
<1>9. first \in Seq(S)
  <2>1. CASE mode = "detect"
    <3>1. Levels' = Levels
      BY <1>1, <2>1 DEF Levels
    <3> QED
      BY <1>1, <3>1 DEF MtcnnInv, FirstInv, S
  <2>2. CASE mode # "detect"
    BY <1>1, <2>2 DEF MtcnnInv, EmptiedInv
  <2> QED
    BY <2>1, <2>2
<1>10. first' \in Seq(S)
  BY <1>6, <1>8, <1>9
<1>11. first' \in Seq(Box)
  BY <1>10, FoundAreBoxes DEF S
<1>12. TypeOK'
  BY <1>1, <1>2, <1>3, <1>11, Types DEF TypeOK
<1>13. FirstInv'
  BY <1>1, <1>10 DEF FirstInv, S
<1>14. SecondInv' /\ ThirdInv' /\ EmptiedInv' /\ PreviousInv' /\ CallInv'
  BY <1>1, <1>3 DEF MtcnnInv, SecondInv, ThirdInv, EmptiedInv, PreviousInv, CallInv
<1> QED
  BY <1>12, <1>13, <1>14 DEF MtcnnInv

LEMMA ScalesDoneStep == MtcnnInv /\ ScalesDone => MtcnnInv'
<1> SUFFICES ASSUME MtcnnInv, ScalesDone PROVE MtcnnInv'
  OBVIOUS
<1>1. /\ pc = "pnet"
      /\ (pc' = "nms1" /\ mode = "detect") \/ pc' = "idle"
      /\ UNCHANGED <<mode, frame, level, first, second, third, firstPrevious, secondPrevious, it, final>>
  BY DEF ScalesDone, call, previous
<1>2. Levels' = Levels
  BY <1>1 DEF Levels
<1>3. TypeOK'
  BY <1>1 DEF MtcnnInv, TypeOK
<1>4. FirstInv' /\ SecondInv'
  BY <1>1, <1>2 DEF MtcnnInv, FirstInv, SecondInv
<1>5. ThirdInv' /\ EmptiedInv' /\ PreviousInv' /\ CallInv'
  BY <1>1, <1>2 DEF MtcnnInv, ThirdInv, EmptiedInv, PreviousInv, CallInv
<1> QED
  BY <1>3, <1>4, <1>5 DEF MtcnnInv

\* The boxes nms and nmsTwoBoxs leave are the stage's own.
LEMMA FirstNmsStep == MtcnnInv /\ FirstNms => MtcnnInv'
<1> SUFFICES ASSUME MtcnnInv, FirstNms PROVE MtcnnInv'
  OBVIOUS
<1> DEFINE S == Found(frame, Levels, {"P"}, 0)
<1>1. /\ pc = "nms1"
      /\ UNCHANGED <<mode, frame, level, second, third, secondPrevious, it, final>>
  BY DEF FirstNms, call
<1>2. PICK n \in Nms(first, 5, "Union") :
        \/ /\ mode = "detect"
           /\ first' = n /\ pc' = "refine1" /\ firstPrevious' = firstPrevious
        \/ /\ mode = "detectMaxFace"
           /\ first' \in NmsTwoBoxs(n, firstPrevious, 5)
           /\ firstPrevious' = firstPrevious \o first'
           /\ pc' = IF first' = <<>> THEN "pnet" ELSE "refine1"
  BY DEF FirstNms
<1>3. TypeOK /\ first \in Seq(S)
  BY <1>1 DEF MtcnnInv, FirstInv
<1>4. Levels' = Levels
  BY <1>1 DEF Levels
<1> HIDE DEF S
<1>5. n \in Seq(S)
  BY <1>3, NmsKeeps
<1>6. first' \in Seq(S)
  <2>1. CASE first' \in NmsTwoBoxs(n, firstPrevious, 5)
    BY <1>5, <2>1, NmsTwoBoxsKeeps
  <2> QED
    BY <1>2, <1>5, <2>1
<1>7. /\ pc' \in {"pnet", "refine1"}
      /\ pc' = "pnet" => first' = <<>>
      /\ mode = "detect" \/ mode # "detect"
  BY <1>2
<1>8. S \subseteq Unrefined("P", 0) /\ S \subseteq Box
  BY DEF S, Found, Unrefined
<1>9. firstPrevious' \in Seq(Unrefined("P", 0)) /\ firstPrevious' \in Seq(Box)
  <2>1. firstPrevious \in Seq(Unrefined("P", 0)) /\ firstPrevious \in Seq(Box)
    BY <1>3, Types DEF MtcnnInv, PreviousInv
  <2>2. first' \in Seq(Unrefined("P", 0)) /\ first' \in Seq(Box)
    BY <1>6, <1>8, Widened
  <2>3. firstPrevious' = firstPrevious \/ firstPrevious' = firstPrevious \o first'
    BY <1>2
  <2> QED
    BY <2>1, <2>2, <2>3, Joined
<1>10. first' \in Seq(Box)
  BY <1>6, <1>8, Widened
<1>11. TypeOK'
  BY <1>1, <1>3, <1>7, <1>9, <1>10 DEF TypeOK
<1>12. FirstInv'
  BY <1>1, <1>4, <1>6, <1>7 DEF FirstInv, S
<1>13. SecondInv' /\ ThirdInv' /\ EmptiedInv'
  BY <1>1, <1>7 DEF MtcnnInv, SecondInv, ThirdInv, EmptiedInv
<1>14. PreviousInv' /\ CallInv'
  BY <1>1, <1>7, <1>9 DEF MtcnnInv, PreviousInv, CallInv
<1> QED
  BY <1>11, <1>12, <1>13, <1>14 DEF MtcnnInv

LEMMA FirstRefineStep == MtcnnInv /\ FirstRefine => MtcnnInv'
<1> SUFFICES ASSUME MtcnnInv, FirstRefine PROVE MtcnnInv'
  OBVIOUS
<1> DEFINE S == Found(frame, Levels, {"P"}, 1)
<1>1. /\ pc = "refine1" /\ pc' = "rnet" /\ second' = <<>> /\ it' = 1 /\ first' \in Refine(first)
      /\ UNCHANGED <<mode, frame, level, third, firstPrevious, secondPrevious, final>>
  BY DEF FirstRefine, call, previous
<1>2. TypeOK /\ first \in Seq(Found(frame, Levels, {"P"}, 0))
  BY <1>1 DEF MtcnnInv, FirstInv
<1>3. Levels' = Levels
  BY <1>1 DEF Levels
<1>4. first' \in Seq(S)
  <2>1. 0 + 1 = 1 /\ 0 \in 0..2
    OBVIOUS
  <2> QED
    BY <1>1, <1>2, <2>1, RefineMoves
<1>5. first' \in Seq(Found(frame, Levels, {"P", "R"}, 1)) /\ first' \in Seq(Box)
  BY <1>4, FoundMonotone, Widened
<1> HIDE DEF S
<1>6. TypeOK'
  <2>1. it' \in 1..(Len(first') + 1) /\ \A T : <<>> \in Seq(T)
    BY <1>1, <1>5
  <2> QED
    BY <1>1, <1>2, <1>5, <2>1 DEF TypeOK
<1>7. FirstInv'
  BY <1>1, <1>3, <1>5 DEF FirstInv
<1>8. SecondInv' /\ ThirdInv' /\ EmptiedInv'
  BY <1>1 DEF MtcnnInv, SecondInv, ThirdInv, EmptiedInv
<1>9. PreviousInv' /\ CallInv'
  BY <1>1 DEF MtcnnInv, PreviousInv, CallInv
<1> QED
  BY <1>6, <1>7, <1>8, <1>9 DEF MtcnnInv

LEMMA NetRejectsStep == MtcnnInv /\ NetRejects => MtcnnInv'
<1> SUFFICES ASSUME MtcnnInv, NetRejects PROVE MtcnnInv'
  OBVIOUS
<1>1. /\ UNCHANGED <<pc, mode, frame, level, first, second, third, firstPrevious, secondPrevious, final>>
      /\ it' = it + 1
      /\ \/ pc = "rnet" /\ ~(it > Len(first))
         \/ pc = "onet" /\ ~(it > Len(second))
  BY DEF NetRejects, call, previous, AtEnd
<1>2. Levels' = Levels
  BY <1>1 DEF Levels
<1>3. TypeOK'
  <2>1. TypeOK /\ Len(first) \in Nat /\ Len(second) \in Nat
    BY Types DEF MtcnnInv
  <2>2. /\ pc = "rnet" => it' \in 1..(Len(first) + 1)
        /\ pc = "onet" => it' \in 1..(Len(second) + 1)
    BY <1>1, <2>1 DEF TypeOK
  <2> QED
    BY <1>1, <2>1, <2>2 DEF TypeOK
<1>4. FirstInv' /\ SecondInv'
  BY <1>1, <1>2 DEF MtcnnInv, FirstInv, SecondInv
<1>5. ThirdInv' /\ EmptiedInv'
  BY <1>1, <1>2 DEF MtcnnInv, ThirdInv, EmptiedInv
<1>6. PreviousInv' /\ CallInv'
  BY <1>1 DEF MtcnnInv, PreviousInv, CallInv
<1> QED
  BY <1>3, <1>4, <1>5, <1>6 DEF MtcnnInv

\* A network that accepts a box leaves it in its place in one stage and at the
\* end of the next.
LEMMA RNetAcceptsStep == MtcnnInv /\ RNetAccepts => MtcnnInv'
<1> SUFFICES ASSUME MtcnnInv, RNetAccepts PROVE MtcnnInv'
  OBVIOUS
<1> DEFINE S == Found(frame, Levels, {"P", "R"}, 1)
           R == Found(frame, Levels, {"R"}, 1)
<1>1. /\ pc = "rnet" /\ ~(it > Len(first)) /\ it' = it + 1 /\ second' = Append(second, first'[it])
      /\ UNCHANGED <<pc, mode, frame, level, third, firstPrevious, secondPrevious, final>>
  BY DEF RNetAccepts, call, previous, AtEnd
<1>2. PICK s \in Scores : first' = [first EXCEPT ![it] = Accepted(first[it], s, "R")]
  BY DEF RNetAccepts
<1>3. TypeOK /\ first \in Seq(S) /\ second \in Seq(R)
  BY <1>1 DEF MtcnnInv, FirstInv, SecondInv
<1>4. R \subseteq S /\ R \subseteq Box /\ S \subseteq Box
  BY FoundMonotone
<1>5. Levels' = Levels
  BY <1>1 DEF Levels
<1> HIDE DEF S, R
<1>6. Len(first) \in Nat /\ it \in 1..Len(first) /\ it \in DOMAIN first
  BY <1>1, <1>3 DEF TypeOK
<1>7. Accepted(first[it], s, "R") \in R
  <2>1. first[it] \in S
    BY <1>3, <1>6, ElementsIn
  <2> QED
    BY <2>1, AcceptedStays DEF S, R
<1>8. first' \in Seq(S) /\ Len(first') = Len(first)
  BY <1>2, <1>3, <1>4, <1>7, Updated
<1>9. first'[it] = Accepted(first[it], s, "R")
  BY <1>2, <1>6
<1>10. second' \in Seq(R)
  BY <1>1, <1>3, <1>7, <1>9
<1>11. first' \in Seq(Box) /\ second' \in Seq(Box)
  BY <1>4, <1>8, <1>10, Widened
<1>12. TypeOK'
  <2>1. it' \in 1..(Len(first') + 1)
    BY <1>1, <1>6, <1>8
  <2> QED
    BY <1>1, <1>3, <1>11, <2>1 DEF TypeOK
<1>13. FirstInv' /\ SecondInv'
  BY <1>1, <1>5, <1>8, <1>10 DEF FirstInv, SecondInv, S, R
<1>14. ThirdInv' /\ EmptiedInv'
  BY <1>1 DEF MtcnnInv, ThirdInv, EmptiedInv
<1>15. PreviousInv' /\ CallInv'
  BY <1>1 DEF MtcnnInv, PreviousInv, CallInv
<1> QED
  BY <1>12, <1>13, <1>14, <1>15 DEF MtcnnInv

LEMMA SecondNmsStep == MtcnnInv /\ SecondNms => MtcnnInv'
<1> SUFFICES ASSUME MtcnnInv, SecondNms PROVE MtcnnInv'
  OBVIOUS
<1> DEFINE R == Found(frame, Levels, {"R"}, 1)
<1>1. pc = "rnet" /\ UNCHANGED <<mode, frame, level, third, firstPrevious, it, final>>
  BY DEF SecondNms, call
<1>2. PICK n \in Nms(second, 7, "Union") :
        \/ /\ mode = "detect" /\ first' = first /\ secondPrevious' = secondPrevious
           /\ second' = n /\ pc' = IF n = <<>> THEN "idle" ELSE "refine2"
        \/ /\ mode = "detectMaxFace"
           /\ second' \in NmsTwoBoxs(n, secondPrevious, 5)
           /\ secondPrevious' = secondPrevious \o second'
           /\ IF second' = <<>> THEN first' = <<>> /\ pc' = "pnet"
                                ELSE first' = first /\ pc' = "refine2"
  BY DEF SecondNms
<1>3. TypeOK /\ second \in Seq(R) /\ first \in Seq(Found(frame, Levels, {"P", "R"}, 1))
  BY <1>1 DEF MtcnnInv, FirstInv, SecondInv
<1>4. Levels' = Levels
  BY <1>1 DEF Levels
<1>5. R \subseteq Unrefined("R", 1) /\ R \subseteq Box
  BY DEF Found, Unrefined
<1> HIDE DEF R
<1>6. n \in Seq(R)
  BY <1>3, NmsKeeps
<1>7. second' \in Seq(R)
  <2>1. CASE second' \in NmsTwoBoxs(n, secondPrevious, 5)
    BY <1>6, <2>1, NmsTwoBoxsKeeps
  <2> QED
    BY <1>2, <1>6, <2>1
<1>8. \/ pc' = "idle" /\ mode = "detect" /\ first' = first
      \/ pc' = "refine2" /\ first' = first
      \/ pc' = "pnet" /\ mode # "detect" /\ first' = <<>> /\ second' = <<>>
  BY <1>2
<1>9. second' \in Seq(Unrefined("R", 1)) /\ second' \in Seq(Box)
  BY <1>5, <1>7, Widened
<1>10. secondPrevious' \in Seq(Unrefined("R", 1)) /\ secondPrevious' \in Seq(Box)
  <2>1. secondPrevious \in Seq(Unrefined("R", 1)) /\ secondPrevious \in Seq(Box)
    BY <1>3, Types DEF MtcnnInv, PreviousInv
  <2>2. secondPrevious' = secondPrevious \/ secondPrevious' = secondPrevious \o second'
    BY <1>2
  <2> QED
    BY <1>9, <2>1, <2>2, Joined
<1>11. first' \in Seq(Found(frame, Levels, {"P", "R"}, 1)) /\ first' \in Seq(Box)
  <2>1. first \in Seq(Box) /\ \A T : <<>> \in Seq(T)
    BY <1>3, Types
  <2>2. first' = first \/ first' = <<>>
    BY <1>8
  <2> QED
    BY <1>3, <2>1, <2>2
<1>12. TypeOK'
  BY <1>1, <1>3, <1>8, <1>9, <1>10, <1>11 DEF TypeOK
<1>13. FirstInv'
  <2>1. \A T : <<>> \in Seq(T)
    OBVIOUS
  <2> QED
    BY <1>1, <1>4, <1>8, <1>11, <2>1 DEF FirstInv
<1>14. SecondInv'
  BY <1>1, <1>4, <1>7, <1>8 DEF SecondInv, R
<1>15. ThirdInv' /\ EmptiedInv'
  <2>1. \A T : <<>> \in Seq(T)
    OBVIOUS
  <2>2. ThirdInv'
    BY <1>1, <1>8, <2>1 DEF MtcnnInv, ThirdInv
  <2>3. EmptiedInv'
    BY <1>1, <1>8 DEF MtcnnInv, EmptiedInv
  <2> QED
    BY <2>2, <2>3
<1>16. PreviousInv' /\ CallInv'
  BY <1>1, <1>8, <1>10 DEF MtcnnInv, PreviousInv, CallInv
<1> QED
  BY <1>12, <1>13, <1>14, <1>15, <1>16 DEF MtcnnInv

LEMMA SecondRefineStep == MtcnnInv /\ SecondRefine => MtcnnInv'
<1> SUFFICES ASSUME MtcnnInv, SecondRefine PROVE MtcnnInv'
  OBVIOUS
<1>1. /\ pc = "refine2" /\ pc' = "onet" /\ third' = <<>> /\ it' = 1 /\ second' \in Refine(second)
      /\ UNCHANGED <<mode, frame, level, first, firstPrevious, secondPrevious, final>>
  BY DEF SecondRefine, call, previous
<1>2. TypeOK /\ second \in Seq(Found(frame, Levels, {"R"}, 1))
  BY <1>1 DEF MtcnnInv, SecondInv
<1>3. Levels' = Levels
  BY <1>1 DEF Levels
<1>4. second' \in Seq(Found(frame, Levels, {"R"}, 2))
  <2>1. 1 + 1 = 2 /\ 1 \in 0..2
    OBVIOUS
  <2> QED
    BY <1>1, <1>2, <2>1, RefineMoves
<1>5. second' \in Seq(Found(frame, Levels, {"R", "O"}, 2)) /\ second' \in Seq(Box)
  BY <1>4, FoundMonotone, Widened
<1>6. TypeOK'
  <2>1. it' \in 1..(Len(second') + 1) /\ \A T : <<>> \in Seq(T)
    BY <1>1, <1>5
  <2> QED
    BY <1>1, <1>2, <1>5, <2>1 DEF TypeOK
<1>7. FirstInv' /\ SecondInv'
  BY <1>1, <1>3, <1>5 DEF MtcnnInv, FirstInv, SecondInv
<1>8. ThirdInv' /\ EmptiedInv'
  BY <1>1 DEF MtcnnInv, ThirdInv, EmptiedInv
<1>9. PreviousInv' /\ CallInv'
  BY <1>1 DEF MtcnnInv, PreviousInv, CallInv
<1> QED
  BY <1>6, <1>7, <1>8, <1>9 DEF MtcnnInv

LEMMA ONetAcceptsStep == MtcnnInv /\ ONetAccepts => MtcnnInv'
<1> SUFFICES ASSUME MtcnnInv, ONetAccepts PROVE MtcnnInv'
  OBVIOUS
<1> DEFINE S == Found(frame, Levels, {"R", "O"}, 2)
           O == Found(frame, Levels, {"O"}, 2)
<1>1. /\ pc = "onet" /\ ~(it > Len(second)) /\ it' = it + 1 /\ third' = Append(third, second'[it])
      /\ UNCHANGED <<pc, mode, frame, level, first, firstPrevious, secondPrevious, final>>
  BY DEF ONetAccepts, call, previous, AtEnd
<1>2. PICK s \in Scores : second' = [second EXCEPT ![it] = Accepted(second[it], s, "O")]
  BY DEF ONetAccepts
<1>3. TypeOK /\ second \in Seq(S) /\ third \in Seq(O)
  BY <1>1 DEF MtcnnInv, SecondInv, ThirdInv
<1>4. O \subseteq S /\ O \subseteq Box /\ S \subseteq Box
  BY FoundMonotone
<1>5. Levels' = Levels
  BY <1>1 DEF Levels
<1> HIDE DEF S, O
<1>6. Len(second) \in Nat /\ it \in 1..Len(second) /\ it \in DOMAIN second
  BY <1>1, <1>3 DEF TypeOK
<1>7. Accepted(second[it], s, "O") \in O
  <2>1. second[it] \in S
    BY <1>3, <1>6, ElementsIn
  <2> QED
    BY <2>1, AcceptedStays DEF S, O
<1>8. second' \in Seq(S) /\ Len(second') = Len(second)
  <2>1. second \in Seq(S) /\ Accepted(second[it], s, "O") \in S
    BY <1>3, <1>4, <1>7
  <2> QED
    BY <1>2, <2>1, Updated
<1>9. second'[it] = Accepted(second[it], s, "O")
  BY <1>2, <1>6
<1>10. third' \in Seq(O)
  BY <1>1, <1>3, <1>7, <1>9
<1>11. second' \in Seq(Box) /\ third' \in Seq(Box)
  BY <1>4, <1>8, <1>10, Widened
<1>12. TypeOK'
  <2>1. it' \in 1..(Len(second') + 1)
    BY <1>1, <1>6, <1>8
  <2> QED
    BY <1>1, <1>3, <1>11, <2>1 DEF TypeOK
<1>13. FirstInv' /\ SecondInv'
  BY <1>1, <1>5, <1>8 DEF MtcnnInv, FirstInv, SecondInv, S
<1>14. ThirdInv' /\ EmptiedInv'
  BY <1>1, <1>5, <1>10 DEF MtcnnInv, ThirdInv, EmptiedInv, O
<1>15. PreviousInv' /\ CallInv'
  BY <1>1 DEF MtcnnInv, PreviousInv, CallInv
<1> QED
  BY <1>12, <1>13, <1>14, <1>15 DEF MtcnnInv

LEMMA ThirdEmptyStep == MtcnnInv /\ ThirdEmpty => MtcnnInv'
<1> SUFFICES ASSUME MtcnnInv, ThirdEmpty PROVE MtcnnInv'
  OBVIOUS
<1>1. /\ pc = "onet" /\ third = <<>> /\ third' = third
      /\ UNCHANGED <<mode, frame, level, firstPrevious, secondPrevious, it, final>>
      /\ \/ mode = "detect" /\ pc' = "idle" /\ first' = first /\ second' = second
         \/ mode # "detect" /\ pc' = "pnet" /\ first' = <<>> /\ second' = <<>>
  BY DEF ThirdEmpty, call, previous
<1>2. TypeOK /\ first \in Seq(Box) /\ second \in Seq(Box) /\ \A T : <<>> \in Seq(T)
  BY Types DEF MtcnnInv
<1>3. first' \in Seq(Box) /\ second' \in Seq(Box)
  BY <1>1, <1>2
<1>4. TypeOK'
  BY <1>1, <1>2, <1>3 DEF TypeOK
<1>5. FirstInv' /\ SecondInv' /\ ThirdInv'
  BY <1>1, <1>2 DEF MtcnnInv, FirstInv, SecondInv, ThirdInv
<1>6. EmptiedInv' /\ PreviousInv' /\ CallInv'
  BY <1>1 DEF MtcnnInv, EmptiedInv, PreviousInv, CallInv
<1> QED
  BY <1>4, <1>5, <1>6 DEF MtcnnInv

LEMMA ThirdRefineStep == MtcnnInv /\ ThirdRefine => MtcnnInv'
<1> SUFFICES ASSUME MtcnnInv, ThirdRefine PROVE MtcnnInv'
  OBVIOUS
<1>1. /\ pc = "onet" /\ pc' = "nms3" /\ third' \in Refine(third)
      /\ UNCHANGED <<mode, frame, level, first, second, firstPrevious, secondPrevious, it, final>>
  BY DEF ThirdRefine, call, previous
<1>2. TypeOK /\ third \in Seq(Found(frame, Levels, {"O"}, 2))
  BY <1>1 DEF MtcnnInv, ThirdInv
<1>3. Levels' = Levels
  BY <1>1 DEF Levels
<1>4. third' \in Seq(Found(frame, Levels, {"O"}, 3))
  <2>1. 2 + 1 = 3 /\ 2 \in 0..2
    OBVIOUS
  <2> QED
    BY <1>1, <1>2, <2>1, RefineMoves
<1>5. third' \in Seq(Box)
  BY <1>4, FoundAreBoxes
<1>6. TypeOK'
  BY <1>1, <1>2, <1>5 DEF TypeOK
<1>7. FirstInv' /\ SecondInv'
  BY <1>1, <1>3 DEF MtcnnInv, FirstInv, SecondInv
<1>8. ThirdInv' /\ EmptiedInv'
  BY <1>1, <1>3, <1>4 DEF MtcnnInv, ThirdInv, EmptiedInv
<1>9. PreviousInv' /\ CallInv'
  BY <1>1 DEF MtcnnInv, PreviousInv, CallInv
<1> QED
  BY <1>6, <1>7, <1>8, <1>9 DEF MtcnnInv

LEMMA ThirdNmsStep == MtcnnInv /\ ThirdNms => MtcnnInv'
<1> SUFFICES ASSUME MtcnnInv, ThirdNms PROVE MtcnnInv'
  OBVIOUS
<1> DEFINE O == Found(frame, Levels, {"O"}, 3)
<1>1. /\ pc = "nms3" /\ pc' = "idle" /\ final' = third'
      /\ UNCHANGED <<mode, frame, level, first, second, firstPrevious, secondPrevious, it>>
  BY DEF ThirdNms, call, previous
<1>2. PICK n \in Nms(third, 7, "Min") :
        \/ mode = "detect" /\ third' = n
        \/ mode # "detect" /\ third' \in ExtractMaxFace(n)
  BY DEF ThirdNms
<1>3. TypeOK /\ third \in Seq(O)
  BY <1>1 DEF MtcnnInv, ThirdInv
<1>4. O \subseteq Found(frame, 1..Scales, {"O"}, 3) /\ O \subseteq Box
  BY DEF Found, Box
<1> HIDE DEF O
<1>5. n \in Seq(O)
  BY <1>3, NmsKeeps
<1>6. third' \in Seq(O)
  <2>1. CASE third' \in ExtractMaxFace(n)
    BY <1>5, <2>1, ExtractKeeps
  <2> QED
    BY <1>2, <1>5, <2>1
<1>7. third' \in Seq(Found(frame, 1..Scales, {"O"}, 3)) /\ third' \in Seq(Box)
  BY <1>4, <1>6, Widened
<1>8. TypeOK'
  BY <1>1, <1>3, <1>7 DEF TypeOK
<1>9. FirstInv' /\ SecondInv' /\ ThirdInv' /\ EmptiedInv'
  BY <1>1, <1>7 DEF FirstInv, SecondInv, ThirdInv, EmptiedInv
<1>10. PreviousInv' /\ CallInv'
  BY <1>1 DEF MtcnnInv, PreviousInv, CallInv
<1> QED
  BY <1>8, <1>9, <1>10 DEF MtcnnInv

LEMMA MtcnnStep == MtcnnInv /\ [Next]_vars => MtcnnInv'
<1> SUFFICES ASSUME MtcnnInv, [Next]_vars PROVE MtcnnInv'
  OBVIOUS
<1>1. CASE UNCHANGED vars
  <2>1. Levels' = Levels
    BY <1>1 DEF vars, call, Levels
  <2>2. TypeOK' /\ FirstInv' /\ SecondInv' /\ ThirdInv'
    BY <1>1, <2>1 DEF MtcnnInv, vars, call, previous, TypeOK, FirstInv, SecondInv, ThirdInv
  <2>3. EmptiedInv' /\ PreviousInv' /\ CallInv'
    BY <1>1 DEF MtcnnInv, vars, call, previous, EmptiedInv, PreviousInv, CallInv
  <2> QED
    BY <2>2, <2>3 DEF MtcnnInv
<1> QED
  BY <1>1, CallStep, PNetStep, ScalesDoneStep, FirstNmsStep, FirstRefineStep, NetRejectsStep,
     RNetAcceptsStep, SecondNmsStep, SecondRefineStep, ONetAcceptsStep, ThirdEmptyStep,
     ThirdRefineStep, ThirdNmsStep DEF Next, Step

\* The stages hold what each step of a call expects, over any number of calls.
THEOREM MtcnnInvariant == Spec => []MtcnnInv
BY MtcnnInit, MtcnnStep, PTL DEF Spec
-----------------------------------------------------------------------------
\* Types; in particular the iterators of RNet() and ONet() stay in range.
THEOREM MtcnnTypeOK == Spec => []TypeOK
<1>1. MtcnnInv => TypeOK
  BY DEF MtcnnInv
<1> QED
  BY <1>1, MtcnnInvariant, PTL

\* What detect and detectMaxFace return was found in the frame of that call
\* and has been through the three networks, whatever was called before.
THEOREM MtcnnResultIsCurrent == Spec => []ResultIsCurrent
<1>1. MtcnnInv => ResultIsCurrent
  <2> SUFFICES ASSUME MtcnnInv, pc = "idle", NEW b \in Elements(final)
               PROVE  b.frame = frame /\ b.net = "O" /\ b.moves = 3
    BY DEF ResultIsCurrent
  <2>1. final \in Seq(Found(frame, 1..Scales, {"O"}, 3))
    BY DEF MtcnnInv, ThirdInv
  <2>2. b \in Found(frame, 1..Scales, {"O"}, 3)
    BY <2>1, ElementsIn
  <2> QED
    BY <2>2 DEF Found
<1> QED
  BY <1>1, MtcnnInvariant, PTL

\* nmsTwoBoxs compares unrefined boxes of one network with such boxes.
THEOREM MtcnnComparable == Spec => []Comparable
<1>1. MtcnnInv => Comparable
  <2> SUFFICES ASSUME MtcnnInv PROVE Comparable
    OBVIOUS
  <2>1. /\ Elements(firstPrevious) \subseteq Unrefined("P", 0)
        /\ Elements(secondPrevious) \subseteq Unrefined("R", 1)
    BY ElementsIn DEF MtcnnInv, PreviousInv
  <2> QED
    BY <2>1 DEF Comparable, Unrefined
<1> QED
  BY <1>1, MtcnnInvariant, PTL

\* Every way round the loop of detectMaxFace has emptied the stages.
THEOREM MtcnnOneScaleAtATime == Spec => []OneScaleAtATime
<1>1. MtcnnInv => OneScaleAtATime
  <2> SUFFICES ASSUME MtcnnInv, mode = "detectMaxFace", pc # "idle",
                      NEW b \in Elements(first) \cup Elements(second) \cup Elements(third)
               PROVE  b.level = level
    BY DEF OneScaleAtATime
  <2>1. mode # "detect" /\ Levels = {level} /\ Elements(<<>>) = {}
    BY DEF Levels, Elements
  <2>2. \A n, ns : \A s \in Seq(Found(frame, Levels, ns, n)) : \A c \in Elements(s) : c.level = level
    <3> SUFFICES ASSUME NEW n, NEW ns, NEW s \in Seq(Found(frame, Levels, ns, n)),
                        NEW c \in Elements(s)
                 PROVE  c.level = level
      OBVIOUS
    <3>1. c \in Found(frame, Levels, ns, n)
      BY ElementsIn
    <3> QED
      BY <2>1, <3>1 DEF Found
  <2>3. pc \in {"pnet", "nms1", "refine1", "rnet", "refine2", "onet", "nms3"}
    BY DEF MtcnnInv, TypeOK
  <2>4. CASE b \in Elements(first)
    BY <2>2, <2>3, <2>4 DEF MtcnnInv, FirstInv
  <2>5. CASE b \in Elements(second)
    BY <2>1, <2>2, <2>3, <2>5 DEF MtcnnInv, SecondInv, EmptiedInv
  <2>6. CASE b \in Elements(third)
    BY <2>1, <2>2, <2>3, <2>6 DEF MtcnnInv, ThirdInv, EmptiedInv
  <2> QED
    BY <2>4, <2>5, <2>6
<1> QED
  BY <1>1, MtcnnInvariant, PTL
-----------------------------------------------------------------------------
\* Only the last nms lets a call return boxes.
LEMMA ReturnsOnlyFound ==
  ASSUME MtcnnInv, [Next]_vars, pc' = "idle", ~ThirdNms
  PROVE  final' = <<>> \/ (pc = "idle" /\ final' = final)
<1>1. pc = "idle" \/ final = <<>>
  BY DEF MtcnnInv, ThirdInv
<1>2. final' = final
  BY DEF Next, Step, Call, PNet, ScalesDone, FirstNms, FirstRefine, NetRejects, RNetAccepts,
         SecondNms, SecondRefine, ONetAccepts, ThirdEmpty, ThirdRefine, vars
<1> QED
  BY <1>1, <1>2

\* The boxes of a result do not suppress each other where they are returned.
THEOREM MtcnnResultIndependent == Spec => []ResultIndependent
<1>1. Init => ResultIndependent
  BY DEF Init, ResultIndependent
<1>2. MtcnnInv /\ ResultIndependent /\ [Next]_vars => ResultIndependent'
  <2> SUFFICES ASSUME MtcnnInv, ResultIndependent, [Next]_vars, pc' = "idle"
               PROVE  \A i, j \in DOMAIN final' :
                        i # j => ~Suppresses(final'[i], final'[j], 7, "Min")
    BY DEF ResultIndependent
  <2>1. CASE ~ThirdNms
    <3>1. final' = <<>> \/ (pc = "idle" /\ final' = final)
      BY <2>1, ReturnsOnlyFound
    <3> QED
      BY <3>1 DEF ResultIndependent
  <2>2. CASE ThirdNms
    <3>1. pc = "nms3" /\ final' = third'
      BY <2>2 DEF ThirdNms
    <3>2. PICK n \in Nms(third, 7, "Min") :
            \/ mode = "detect" /\ third' = n
            \/ mode # "detect" /\ third' \in ExtractMaxFace(n)
      BY <2>2 DEF ThirdNms
    <3>3. third \in Seq(Box)
      BY Types DEF MtcnnInv
    <3>4. n \in Seq(Box) /\ IsGreedy(third, n, 7, "Min")
      BY <3>3, NmsKeeps
    <3>5. CASE third' = n
      BY <3>1, <3>4, <3>5 DEF IsGreedy
    <3>6. CASE third' \in ExtractMaxFace(n)
      <4>1. PICK b \in Elements(n) : third' = <<b>>
        BY <3>6 DEF ExtractMaxFace
      <4>2. DOMAIN final' = {1}
        BY <3>1, <4>1
      <4> QED
        BY <4>2
    <3> QED
      BY <3>2, <3>5, <3>6
  <2> QED
    BY <2>1, <2>2
<1> QED
  BY <1>1, <1>2, MtcnnInvariant, PTL DEF Spec

\* detectMaxFace passes over a larger box only for one that overlaps it,
\* scores at least as high and is not larger than what is returned.
THEOREM MtcnnReturnsLargest == Spec => ReturnsLargest
<1> DEFINE Largest ==
      pc = "nms3" /\ mode = "detectMaxFace" =>
        /\ Len(final') = 1
        /\ \A b \in Elements(third) : b.area > final'[1].area =>
             \E c \in Elements(third) : /\ Suppresses(b, c, 7, "Min") /\ b.score <= c.score
                                        /\ c.area <= final'[1].area
<1>1. MtcnnInv /\ [Next]_vars => [Largest]_vars
  <2> SUFFICES ASSUME MtcnnInv, Next, pc = "nms3", mode = "detectMaxFace"
               PROVE  /\ Len(final') = 1
                      /\ \A b \in Elements(third) : b.area > final'[1].area =>
                           \E c \in Elements(third) : /\ Suppresses(b, c, 7, "Min")
                                                      /\ b.score <= c.score
                                                      /\ c.area <= final'[1].area
    OBVIOUS
  <2>1. ThirdNms
    BY DEF Next, Step, Call, PNet, ScalesDone, FirstNms, FirstRefine, NetRejects, RNetAccepts,
           SecondNms, SecondRefine, ONetAccepts, ThirdEmpty, ThirdRefine
  <2>2. PICK n \in Nms(third, 7, "Min") : third' \in ExtractMaxFace(n) /\ final' = third'
    BY <2>1 DEF ThirdNms
  <2>3. n \in Seq(Elements(third)) /\ IsGreedy(third, n, 7, "Min")
    <3>1. third \in Seq(Box)
      BY Types DEF MtcnnInv
    <3>2. third \in Seq(Elements(third))
      BY <3>1 DEF Elements
    <3> QED
      BY <3>2, NmsKeeps
  <2>4. PICK a \in Elements(n) : final' = <<a>> /\ \A d \in Elements(n) : d.area <= a.area
    BY <2>2 DEF ExtractMaxFace
  <2>5. Len(final') = 1 /\ final'[1] = a
    BY <2>4
  <2>6. ASSUME NEW b \in Elements(third)
        PROVE  \E c \in Elements(third) : /\ Suppresses(b, c, 7, "Min") /\ b.score <= c.score
                                          /\ c.area <= a.area
    <3>1. PICK i \in DOMAIN third : b = third[i]
      BY DEF Elements
    <3>2. PICK k \in DOMAIN n : Suppresses(third[i], n[k], 7, "Min") /\ third[i].score <= n[k].score
      BY <2>3 DEF IsGreedy
    <3>3. n[k] \in Elements(third)
      BY <2>3, ElementsIn
    <3>4. n[k].area <= a.area
      BY <2>4 DEF Elements
    <3> QED
      BY <3>1, <3>2, <3>3, <3>4
  <2> QED
    BY <2>5, <2>6
<1> QED
  BY <1>1, MtcnnInvariant, PTL DEF Spec, ReturnsLargest
-----------------------------------------------------------------------------
\* The boxes remembered are of scales done; of earlier ones while a new one is
\* compared with them.
ScalesInv ==
  mode # "detect" /\ pc # "idle" =>
    \A i \in DOMAIN firstPrevious :
      IF pc = "nms1" THEN firstPrevious[i].level < level ELSE firstPrevious[i].level <= level

RescansInv == RescansNeverOutscore /\ ScalesInv

LEMMA FirstNmsRescans == MtcnnInv /\ RescansInv /\ FirstNms => RescansInv'
<1> SUFFICES ASSUME MtcnnInv, RescansInv, FirstNms PROVE RescansInv'
  OBVIOUS
<1>1. /\ pc = "nms1" /\ pc' \in {"pnet", "refine1"} /\ mode' = mode /\ level' = level
  BY DEF FirstNms, call
<1>2. PICK n \in Nms(first, 5, "Union") :
        \/ /\ mode = "detect" /\ firstPrevious' = firstPrevious
        \/ /\ mode # "detect"
           /\ first' \in NmsTwoBoxs(n, firstPrevious, 5)
           /\ firstPrevious' = firstPrevious \o first'
  BY DEF FirstNms
<1>3. CASE mode = "detect" /\ firstPrevious' = firstPrevious
  BY <1>1, <1>3 DEF RescansInv, RescansNeverOutscore, ScalesInv
<1>4. CASE /\ mode # "detect"
           /\ first' \in NmsTwoBoxs(n, firstPrevious, 5)
           /\ firstPrevious' = firstPrevious \o first'
  <2> DEFINE S == Found(frame, Levels, {"P"}, 0)
             m == Len(firstPrevious)
  <2>1. /\ first \in Seq(S) /\ Levels = {level} /\ level \in Int
        /\ firstPrevious \in Seq(Box)
    BY <1>1, <1>4, Types DEF MtcnnInv, FirstInv, Levels
  <2>2. n \in Seq(S) /\ IsGreedy(first, n, 5, "Union")
    <3> HIDE DEF S
    <3> QED
      BY <2>1, NmsKeeps
  <2>3. S \subseteq Box /\ \A b \in S : b.level = level
    BY <2>1 DEF Found
  <2> HIDE DEF S
  <2>4. n \in Seq(Box)
    BY <2>2, <2>3, Widened
  <2>5. first' \in Rescanned(n, firstPrevious, 5, "Union")
    BY <1>4 DEF NmsTwoBoxs
  <2>6. /\ first' \in Seq(S)
        /\ \E p \in [1..Len(first') -> Standing(n, firstPrevious, 5, "Union")] :
             /\ \A j, k \in 1..Len(first') : p[j] = p[k] => j = k
             /\ \A k \in 1..Len(first') : first'[k] = n[p[k]]
    BY <2>2, <2>5, RescannedKeeps
  <2> DEFINE r == first'
             l == Len(r)
  <2>7. PICK p \in [1..l -> Standing(n, firstPrevious, 5, "Union")] :
          /\ \A j, k \in 1..l : p[j] = p[k] => j = k
          /\ \A k \in 1..l : r[k] = n[p[k]]
    BY <2>6
  <2>8. \A k \in 1..l : /\ p[k] \in DOMAIN n
                        /\ \A i \in 1..m : ~Outscores(r[k], firstPrevious[i], 5, "Union")
    <3>1. DOMAIN firstPrevious = 1..m
      BY <2>1
    <3> QED
      BY <2>7, <3>1 DEF Standing
  <2>9. \A k \in 1..l : r[k] \in Box /\ r[k].level = level
    BY <2>3, <2>6, ElementsIn
  <2>10. \A i \in 1..m : firstPrevious[i] \in Box /\ firstPrevious[i].level < level
    <3>1. DOMAIN firstPrevious = 1..m
      BY <2>1
    <3>2. \A i \in DOMAIN firstPrevious : firstPrevious[i].level < level
      BY <1>1, <1>4 DEF RescansInv, ScalesInv
    <3> QED
      BY <2>1, <3>1, <3>2, ElementsIn
  <2>11. m \in Nat /\ l \in Nat
    BY <2>1, <2>6
  <2>12. /\ DOMAIN firstPrevious' = 1..(m + l)
         /\ \A i \in 1..m : firstPrevious'[i] = firstPrevious[i]
         /\ \A i \in 1..(m + l) : i > m => i - m \in 1..l /\ firstPrevious'[i] = r[i - m]
    BY <1>4, <2>1, <2>6
  <2> HIDE DEF r, l, m
  <2>13. ScalesInv'
    <3> SUFFICES ASSUME NEW i \in 1..(m + l) PROVE firstPrevious'[i].level <= level
      BY <1>1, <2>12 DEF ScalesInv
    <3>1. CASE i > m
      BY <2>1, <2>9, <2>12, <3>1
    <3>2. CASE ~(i > m)
      <4>1. i \in 1..m
        BY <2>11, <3>2
      <4>2. firstPrevious[i].level \in Int
        BY <2>10, <4>1 DEF Box
      <4> QED
        BY <2>1, <2>10, <2>12, <4>1, <4>2
    <3> QED
      BY <3>1, <3>2
  <2>14. ASSUME NEW i \in 1..(m + l), NEW j \in 1..(m + l), i < j,
                Suppresses(firstPrevious'[j], firstPrevious'[i], 5, "Union")
         PROVE  /\ firstPrevious'[i].level < firstPrevious'[j].level
                /\ firstPrevious'[i].score >= firstPrevious'[j].score
    <3>1. CASE j \in 1..m
      <4>1. i \in 1..m /\ DOMAIN firstPrevious = 1..m
        BY <2>1, <2>11, <2>14, <3>1 DEF m
      <4>2. Suppresses(firstPrevious[j], firstPrevious[i], 5, "Union")
        BY <2>12, <2>14, <3>1, <4>1
      <4>3. /\ firstPrevious[i].level < firstPrevious[j].level
            /\ firstPrevious[i].score >= firstPrevious[j].score
        BY <2>14, <3>1, <4>1, <4>2 DEF RescansInv, RescansNeverOutscore
      <4> QED
        BY <2>12, <3>1, <4>1, <4>3
    <3>2. CASE i \in 1..m /\ j > m
      <4> DEFINE a == firstPrevious[i]
                 b == r[j - m]
      <4>1. firstPrevious'[i] = a /\ firstPrevious'[j] = b /\ j - m \in 1..l
        BY <2>12, <3>2
      <4>2. a \in Box /\ b \in Box /\ a.level < level /\ b.level = level
        BY <2>9, <2>10, <3>2, <4>1
      <4>3. ~Outscores(b, a, 5, "Union")
        BY <2>8, <3>2, <4>1
      <4> HIDE DEF a, b
      <4>4. a.score \in Int /\ b.score \in Int
        BY <4>2, MtcnnAssumption DEF Box
      <4>5. Suppresses(b, a, 5, "Union")
        BY <2>14, <4>1
      <4>6. ~(b.score > a.score)
        BY <4>3, <4>5 DEF Outscores
      <4> QED
        BY <4>1, <4>2, <4>4, <4>6
    <3>3. CASE i > m /\ j > m
      <4> DEFINE x == i - m
                 y == j - m
      <4>1. /\ x \in 1..l /\ y \in 1..l /\ x # y
            /\ firstPrevious'[i] = r[x] /\ firstPrevious'[j] = r[y]
        BY <2>11, <2>12, <2>14, <3>3
      <4> HIDE DEF x, y
      <4>2. p[x] \in DOMAIN n /\ p[y] \in DOMAIN n /\ p[x] # p[y] /\ r[x] = n[p[x]] /\ r[y] = n[p[y]]
        BY <2>7, <2>8, <4>1
      <4>3. ~Suppresses(n[p[y]], n[p[x]], 5, "Union")
        BY <2>2, <4>2 DEF IsGreedy
      <4> QED
        BY <2>14, <4>1, <4>2, <4>3
    <3>4. \/ j \in 1..m \/ (i \in 1..m /\ j > m) \/ (i > m /\ j > m)
      BY <2>11, <2>14
    <3> QED
      BY <3>1, <3>2, <3>3, <3>4
  <2>15. RescansNeverOutscore'
    BY <2>12, <2>14 DEF RescansNeverOutscore
  <2> QED
    BY <2>13, <2>15 DEF RescansInv
<1> QED
  BY <1>2, <1>3, <1>4

\* Every other step leaves what is remembered alone or forgets it.
LEMMA RescansStep == MtcnnInv /\ RescansInv /\ [Next]_vars => RescansInv'
<1> SUFFICES ASSUME MtcnnInv, RescansInv, [Next]_vars PROVE RescansInv'
  OBVIOUS
<1>1. CASE Call
  <2>1. /\ pc' = "pnet"
        /\ \/ mode' = "detect" /\ firstPrevious' = firstPrevious
           \/ firstPrevious' = <<>>
    BY <1>1 DEF Call, previous
  <2> QED
    BY <2>1 DEF RescansInv, RescansNeverOutscore, ScalesInv
<1>2. CASE PNet
  <2>1. /\ pc = "pnet" /\ level' = level + 1 /\ mode' = mode /\ firstPrevious' = firstPrevious
        /\ level \in Int
    BY <1>2, Types DEF PNet, call, previous, MtcnnInv
  <2>2. RescansNeverOutscore'
    BY <2>1 DEF RescansInv, RescansNeverOutscore
  <2>3. ScalesInv'
    <3> SUFFICES ASSUME mode # "detect", NEW i \in DOMAIN firstPrevious
                 PROVE  /\ firstPrevious[i].level < level + 1
                        /\ firstPrevious[i].level <= level + 1
      BY <2>1 DEF ScalesInv
    <3>1. firstPrevious[i].level <= level
      BY <2>1 DEF RescansInv, ScalesInv
    <3>2. firstPrevious[i] \in Box
      BY Types, ElementsIn DEF MtcnnInv
    <3>3. firstPrevious[i].level \in Int
      BY <3>2 DEF Box
    <3> QED
      BY <2>1, <3>1, <3>3
  <2> QED
    BY <2>2, <2>3 DEF RescansInv
<1>3. CASE FirstNms
  BY <1>3, FirstNmsRescans
<1>4. CASE \/ ScalesDone \/ FirstRefine \/ NetRejects \/ RNetAccepts \/ SecondNms \/ SecondRefine
           \/ ONetAccepts \/ ThirdEmpty \/ ThirdRefine \/ ThirdNms \/ UNCHANGED vars
  <2>1. /\ firstPrevious' = firstPrevious /\ mode' = mode /\ level' = level
        /\ pc' = pc \/ (pc \notin {"idle", "nms1"} /\ (mode = "detect" \/ pc' # "nms1"))
    BY <1>4 DEF ScalesDone, FirstRefine, NetRejects, RNetAccepts, SecondNms, SecondRefine,
                ONetAccepts, ThirdEmpty, ThirdRefine, ThirdNms, vars, call, previous
  <2>2. RescansNeverOutscore'
    BY <2>1 DEF RescansInv, RescansNeverOutscore
  <2>3. ScalesInv'
    BY <2>1 DEF RescansInv, ScalesInv
  <2> QED
    BY <2>2, <2>3 DEF RescansInv
<1> QED
  BY <1>1, <1>2, <1>3, <1>4 DEF Next, Step

\* Of two overlapping boxes sent to RNet the later one never scored higher.
THEOREM MtcnnRescansNeverOutscore == Spec => []RescansNeverOutscore
<1>1. Init => RescansInv
  BY DEF Init, RescansInv, RescansNeverOutscore, ScalesInv
<1>2. RescansInv => RescansNeverOutscore
  BY DEF RescansInv
<1> QED
  BY <1>1, <1>2, MtcnnInvariant, RescansStep, PTL DEF Spec
-----------------------------------------------------------------------------
\* As many boxes as generateBbox can find in one call.
All == Scales * PerScale

\* At most so many steps are left at a scale: each network walks the vector of
\* the stage before once.
AtStage ==
  CASE pc = "pnet"    -> IF mode = "detect" THEN 2 * All + 8 ELSE 1
    [] pc = "nms1"    -> 2 * All + 7
    [] pc = "refine1" -> 2 * All + 6
    [] pc = "rnet"    -> All + 4 + (Len(first) + 1 - it)
    [] pc = "refine2" -> All + 3
    [] pc = "onet"    -> 2 + (Len(second) + 1 - it)
    [] pc = "nms3"    -> 1
    [] OTHER          -> 0

\* ... and so many of a call.
StepsLeft == IF pc = "idle" THEN 0 ELSE (Scales - level) * (2 * All + 8) + AtStage

Lowers == StepsLeft \in Nat /\ StepsLeft' \in Nat /\ StepsLeft' < StepsLeft

\* No stage holds more boxes than the scales done can have given.
LengthsInv ==
  /\ pc \in {"pnet", "nms1", "refine1", "rnet"} => Len(first) <= level * PerScale
  /\ pc = "rnet" => Len(second) < it
  /\ pc \in {"refine2", "onet"} => Len(second) <= All

\* None of the calls on a vector makes it longer.
LEMMA UpToShort ==
  ASSUME NEW n \in Nat, NEW S, NEW s \in UpTo(n, S)
  PROVE  Len(s) \in Nat /\ Len(s) <= n
<1>1. PICK k \in 0..n : s \in [1..k -> S]
  BY DEF UpTo
<1>2. k \in Nat /\ k <= n
  OBVIOUS
<1>3. s \in Seq(S) /\ Len(s) = k
  BY <1>1, <1>2
<1> QED
  BY <1>2, <1>3

LEMMA NmsShort ==
  ASSUME NEW S, NEW s \in Seq(S), NEW t, NEW m, NEW r \in Nms(s, t, m)
  PROVE  Len(r) \in Nat /\ Len(r) <= Len(s) /\ r \in Seq(S)
<1>1. Len(s) \in Nat /\ r \in UpTo(Len(s), Elements(s))
  BY DEF Nms
<1> QED
  BY <1>1, UpToShort, NmsKeeps

LEMMA NmsTwoBoxsShort ==
  ASSUME NEW S, NEW s \in Seq(S), NEW prev, NEW t, NEW r \in NmsTwoBoxs(s, prev, t)
  PROVE  Len(r) \in Nat /\ Len(r) <= Len(s)
<1> DEFINE stand == Standing(s, prev, t, "Union")
<1>1. PICK n \in 0..Len(s) : \E p \in Bijection(1..n, stand) : r = [k \in DOMAIN p |-> s[p[k]]]
  BY DEF NmsTwoBoxs, Rescanned
<1>2. PICK p \in Bijection(1..n, stand) : r = [k \in DOMAIN p |-> s[p[k]]]
  BY <1>1
<1>3. n \in Nat /\ n <= Len(s) /\ p \in [1..n -> stand]
  BY DEF Bijection, Injection
<1>4. Len(r) = n
  <2>1. DOMAIN r = 1..n
    BY <1>2, <1>3
  <2>2. r \in Seq(S)
    BY NmsTwoBoxsKeeps
  <2> QED
    BY <1>3, <2>1, <2>2
<1> QED
  BY <1>3, <1>4

LEMMA RefineLength ==
  ASSUME NEW S, NEW s \in Seq(S), NEW r \in Refine(s), NEW T, r \in Seq(T)
  PROVE  Len(r) = Len(s)
<1>1. PICK p \in [DOMAIN s -> Rects] : r = [i \in DOMAIN s |-> Placed(s[i], p[i])]
  BY DEF Refine
<1>2. DOMAIN r = DOMAIN s
  BY <1>1
<1> QED
  BY <1>2

\* The arithmetic of the scales.
LEMMA ScaleRows ==
  ASSUME TypeOK
  PROVE  /\ level \in Nat /\ Scales \in Nat /\ PerScale \in Nat /\ level <= Scales
         /\ All \in Nat /\ level * PerScale \in Nat /\ level * PerScale <= All
         /\ (level + 1) * PerScale = level * PerScale + PerScale
         /\ (Scales - level) * (2 * All + 8) \in Nat
         /\ level < Scales =>
              /\ (Scales - (level + 1)) * (2 * All + 8) \in Nat
              /\ (Scales - level) * (2 * All + 8) = (Scales - (level + 1)) * (2 * All + 8) + (2 * All + 8)
<1>1. \A a, b, c \in Nat : a <= b => a * c \in Nat /\ b * c \in Nat /\ a * c <= b * c
  OBVIOUS
<1>2. \A a, c \in Nat : a * c \in Nat /\ (a + 1) * c = a * c + c
  OBVIOUS
<1>3. level \in Nat /\ Scales \in Nat /\ PerScale \in Nat /\ level <= Scales
  BY MtcnnAssumption DEF TypeOK
<1>4. All \in Nat /\ level * PerScale \in Nat /\ level * PerScale <= All
  BY <1>1, <1>3 DEF All
<1>5. (level + 1) * PerScale = level * PerScale + PerScale
  BY <1>2, <1>3
<1> DEFINE row == 2 * All + 8
<1>6. row \in Nat
  BY <1>4
<1> HIDE DEF row
<1>7. (Scales - level) * row \in Nat
  <2>1. Scales - level \in Nat
    BY <1>3
  <2> QED
    BY <1>2, <1>6, <2>1
<1>8. ASSUME level < Scales
      PROVE  /\ (Scales - (level + 1)) * row \in Nat
             /\ (Scales - level) * row = (Scales - (level + 1)) * row + row
  <2>1. Scales - (level + 1) \in Nat /\ (Scales - (level + 1)) + 1 = Scales - level
    BY <1>3, <1>8
  <2>2. ((Scales - (level + 1)) + 1) * row = (Scales - (level + 1)) * row + row
    BY <1>2, <1>6, <2>1
  <2>3. (Scales - (level + 1)) * row \in Nat
    BY <1>2, <1>6, <2>1
  <2> QED
    BY <2>1, <2>2, <2>3, Zenon
<1> QED
  BY <1>3, <1>4, <1>5, <1>7, <1>8 DEF row

\* A step within a scale lowers StepsLeft if it lowers AtStage.
LEMMA StageLowers ==
  ASSUME TypeOK, level' = level, pc # "idle", AtStage \in Nat, AtStage >= 1,
         pc' = "idle" \/ (pc' # "idle" /\ AtStage' \in Nat /\ AtStage' < AtStage)
  PROVE  Lowers
<1> DEFINE base == (Scales - level) * (2 * All + 8)
<1>1. base \in Nat
  BY ScaleRows
<1>2. StepsLeft = base + AtStage
  BY DEF StepsLeft
<1>3. pc' = "idle" => StepsLeft' = 0
  BY DEF StepsLeft
<1>4. pc' # "idle" => StepsLeft' = base + AtStage'
  <2>1. All' = All
    BY DEF All
  <2> QED
    BY <2>1 DEF StepsLeft
<1> HIDE DEF base
<1> QED
  BY <1>1, <1>2, <1>3, <1>4 DEF Lowers

LEMMA PNetLowers ==
  ASSUME MtcnnInv, LengthsInv, PNet
  PROVE  LengthsInv' /\ Lowers
<1>1. /\ pc = "pnet" /\ level < Scales /\ level' = level + 1 /\ mode' = mode
      /\ pc' = IF mode = "detect" THEN "pnet" ELSE "nms1"
  BY DEF PNet, call
<1>2. /\ TypeOK /\ first \in Seq(Box) /\ Len(first) \in Nat /\ Len(first) <= level * PerScale
      /\ PerScale \in Nat
  BY <1>1, Types, MtcnnAssumption DEF MtcnnInv, LengthsInv
<1>3. PICK v \in UpTo(PerScale, Candidates(level')) :
        \E kept \in Nms(v, 5, "Union") : first' = first \o kept
  BY DEF PNet
<1>4. PICK kept \in Nms(v, 5, "Union") : first' = first \o kept
  BY <1>3
<1>5. Len(kept) \in Nat /\ Len(kept) <= PerScale /\ kept \in Seq(Candidates(level'))
  <2>1. v \in Seq(Candidates(level')) /\ Len(v) \in Nat /\ Len(v) <= PerScale
    BY <1>2, UpToIn, UpToShort
  <2>2. Len(kept) \in Nat /\ Len(kept) <= Len(v) /\ kept \in Seq(Candidates(level'))
    BY <2>1, NmsShort
  <2> QED
    BY <1>2, <2>1, <2>2
<1>6. Len(first') = Len(first) + Len(kept)
  <2>1. \A S, T : \A s \in Seq(S), r \in Seq(T) : Len(s \o r) = Len(s) + Len(r)
    OBVIOUS
  <2> QED
    BY <1>2, <1>4, <1>5, <2>1
<1> DEFINE low == level * PerScale
           high == (level + 1) * PerScale
           base == (Scales - (level + 1)) * (2 * All + 8)
           row == (Scales - level) * (2 * All + 8)
<1>7. /\ low \in Nat /\ high = low + PerScale /\ All \in Nat
      /\ base \in Nat /\ row = base + (2 * All + 8)
  BY <1>1, <1>2, ScaleRows
<1>8. All' = All /\ level' * PerScale = high
  BY <1>1 DEF All
<1>9. /\ StepsLeft = row + (IF mode = "detect" THEN 2 * All + 8 ELSE 1)
      /\ StepsLeft' = base + (IF mode = "detect" THEN 2 * All + 8 ELSE 2 * All + 7)
  BY <1>1, <1>8 DEF StepsLeft, AtStage
<1> HIDE DEF low, high, base, row
<1>10. Lowers
  BY <1>7, <1>9 DEF Lowers
<1>11. Len(first') <= high
  BY <1>2, <1>5, <1>6, <1>7 DEF low
<1>12. LengthsInv'
  BY <1>1, <1>8, <1>11 DEF LengthsInv
<1> QED
  BY <1>10, <1>12

LEMMA ScalesDoneLowers ==
  ASSUME MtcnnInv, LengthsInv, ScalesDone
  PROVE  LengthsInv' /\ Lowers
<1>1. /\ pc = "pnet" /\ UNCHANGED <<mode, level, first>> /\ TypeOK /\ All \in Nat
      /\ pc' = "idle" \/ (pc' = "nms1" /\ mode = "detect")
  BY ScaleRows DEF ScalesDone, call, MtcnnInv
<1>2. AtStage = IF mode = "detect" THEN 2 * All + 8 ELSE 1
  BY <1>1 DEF AtStage
<1>3. pc' = "nms1" => AtStage' = 2 * All + 7
  BY DEF AtStage, All
<1>4. Lowers
  BY <1>1, <1>2, <1>3, StageLowers
<1> QED
  BY <1>1, <1>4 DEF LengthsInv

LEMMA FirstNmsLowers ==
  ASSUME MtcnnInv, LengthsInv, FirstNms
  PROVE  LengthsInv' /\ Lowers
<1>1. /\ pc = "nms1" /\ UNCHANGED <<mode, level>> /\ TypeOK /\ All \in Nat /\ first \in Seq(Box)
      /\ pc' = "refine1" \/ (pc' = "pnet" /\ mode # "detect")
  BY ScaleRows, Types DEF FirstNms, call, MtcnnInv
<1>2. AtStage = 2 * All + 7 /\ AtStage' = IF pc' = "refine1" THEN 2 * All + 6 ELSE 1
  BY <1>1 DEF AtStage, All
<1>3. Lowers
  BY <1>1, <1>2, StageLowers
<1>4. PICK n \in Nms(first, 5, "Union") :
        first' = n \/ first' \in NmsTwoBoxs(n, firstPrevious, 5)
  BY DEF FirstNms
<1>5. Len(first') <= Len(first)
  <2>1. Len(n) \in Nat /\ Len(n) <= Len(first) /\ n \in Seq(Box) /\ Len(first) \in Nat
    BY <1>1, NmsShort
  <2>2. CASE first' = n
    BY <2>1, <2>2
  <2>3. CASE first' \in NmsTwoBoxs(n, firstPrevious, 5)
    <3>1. Len(first') \in Nat /\ Len(first') <= Len(n)
      BY <2>1, <2>3, NmsTwoBoxsShort
    <3> QED
      BY <2>1, <3>1
  <2> QED
    BY <1>4, <2>2, <2>3
<1>6. Len(first') <= level * PerScale
  <2>1. /\ Len(first) <= level * PerScale /\ Len(first) \in Nat /\ Len(first') \in Nat
        /\ level * PerScale \in Nat
    <3>1. first' \in Seq(Box)
      BY FirstNmsStep DEF MtcnnInv, TypeOK
    <3>2. Len(first) <= level * PerScale
      BY <1>1 DEF LengthsInv
    <3>3. level * PerScale \in Nat
      BY <1>1, ScaleRows
    <3>4. Len(first) \in Nat /\ Len(first') \in Nat
      BY <1>1, <3>1
    <3> QED
      BY <3>2, <3>3, <3>4
  <2> DEFINE low == level * PerScale
  <2>2. low \in Nat /\ Len(first) <= low
    BY <2>1
  <2> HIDE DEF low
  <2>3. Len(first') <= low
    BY <1>5, <2>1, <2>2
  <2> QED
    BY <2>3 DEF low
<1> QED
  BY <1>1, <1>3, <1>6 DEF LengthsInv

LEMMA FirstRefineLowers ==
  ASSUME MtcnnInv, LengthsInv, FirstRefine
  PROVE  LengthsInv' /\ Lowers
<1>1. /\ pc = "refine1" /\ pc' = "rnet" /\ UNCHANGED <<mode, level>> /\ TypeOK /\ All \in Nat
      /\ first \in Seq(Box) /\ first' \in Refine(first) /\ it' = 1 /\ second' = <<>>
  BY ScaleRows, Types DEF FirstRefine, call, MtcnnInv
<1>2. Len(first') = Len(first)
  <2>1. first' \in Seq(Box)
    BY FirstRefineStep DEF MtcnnInv, TypeOK
  <2> QED
    BY <1>1, <2>1, RefineLength
<1>3. /\ Len(first) \in Nat /\ Len(first) <= level * PerScale
      /\ level * PerScale \in Nat /\ level * PerScale <= All
  BY <1>1, ScaleRows DEF LengthsInv
<1>4. AtStage = 2 * All + 6 /\ AtStage' = All + 4 + (Len(first) + 1 - 1)
  BY <1>1, <1>2 DEF AtStage, All
<1>5. AtStage' \in Nat /\ AtStage' < AtStage /\ AtStage \in Nat
  BY <1>1, <1>3, <1>4
<1>6. Lowers
  BY <1>1, <1>4, <1>5, StageLowers
<1>7. Len(second') < it'
  BY <1>1
<1> QED
  BY <1>1, <1>2, <1>3, <1>6, <1>7 DEF LengthsInv

LEMMA WalkLowers ==
  ASSUME MtcnnInv, LengthsInv, NetRejects \/ RNetAccepts \/ ONetAccepts
  PROVE  LengthsInv' /\ Lowers
<1>1. /\ UNCHANGED <<pc, mode, level>> /\ TypeOK /\ TypeOK' /\ All \in Nat /\ it' = it + 1
      /\ \/ pc = "rnet" /\ ~(it > Len(first))
         \/ pc = "onet" /\ ~(it > Len(second))
  BY ScaleRows, NetRejectsStep, RNetAcceptsStep, ONetAcceptsStep
  DEF NetRejects, RNetAccepts, ONetAccepts, call, MtcnnInv, AtEnd
<1>2. /\ first \in Seq(Box) /\ second \in Seq(Box) /\ first' \in Seq(Box) /\ second' \in Seq(Box)
      /\ Len(first) \in Nat /\ Len(second) \in Nat
  <2>1. /\ first \in Seq(Box) /\ second \in Seq(Box) /\ first' \in Seq(Box) /\ second' \in Seq(Box)
    BY <1>1 DEF TypeOK
  <2> QED
    BY <2>1
<1>3. CASE pc = "rnet"
  <2>1. it \in 1..(Len(first) + 1) /\ it <= Len(first)
    <3>1. it \in 1..(Len(first) + 1)
      BY <1>1, <1>3 DEF TypeOK
    <3> QED
      BY <1>1, <1>2, <1>3, <3>1
  <2>2. Len(first') = Len(first)
    <3>1. CASE NetRejects
      BY <3>1 DEF NetRejects
    <3>2. CASE RNetAccepts
      <4>1. DOMAIN first' = DOMAIN first
        BY <3>2 DEF RNetAccepts
      <4> QED
        BY <1>2, <4>1
    <3> QED
      BY <1>3, <3>1, <3>2 DEF ONetAccepts
  <2>3. Len(second') <= Len(second) + 1
    <3>1. CASE NetRejects
      BY <1>2, <3>1 DEF NetRejects
    <3>2. CASE RNetAccepts
      BY <1>2, <3>2 DEF RNetAccepts
    <3> QED
      BY <1>3, <3>1, <3>2 DEF ONetAccepts
  <2>4. /\ AtStage = All + 4 + (Len(first) + 1 - it)
        /\ AtStage' = All + 4 + (Len(first) + 1 - (it + 1))
    BY <1>1, <1>3, <2>2 DEF AtStage, All
  <2>5. AtStage \in Nat /\ AtStage >= 1 /\ AtStage' \in Nat /\ AtStage' < AtStage
    BY <1>1, <1>2, <2>1, <2>4
  <2>6. Lowers
    BY <1>1, <1>3, <2>5, StageLowers
  <2>7. Len(second') < it'
    <3>1. Len(second) < it /\ Len(second') \in Nat
      BY <1>2, <1>3 DEF LengthsInv
    <3> QED
      BY <1>1, <1>2, <2>1, <2>3, <3>1
  <2> QED
    BY <1>1, <1>3, <2>2, <2>6, <2>7 DEF LengthsInv
<1>4. CASE pc = "onet"
  <2>1. it \in 1..(Len(second) + 1) /\ it <= Len(second)
    <3>1. it \in 1..(Len(second) + 1)
      BY <1>1, <1>4 DEF TypeOK
    <3> QED
      BY <1>1, <1>2, <1>4, <3>1
  <2>2. Len(second') = Len(second)
    <3>1. CASE NetRejects
      BY <3>1 DEF NetRejects
    <3>2. CASE ONetAccepts
      <4>1. DOMAIN second' = DOMAIN second
        BY <3>2 DEF ONetAccepts
      <4> QED
        BY <1>2, <4>1
    <3> QED
      BY <1>4, <3>1, <3>2 DEF RNetAccepts
  <2>3. /\ AtStage = 2 + (Len(second) + 1 - it)
        /\ AtStage' = 2 + (Len(second) + 1 - (it + 1))
    BY <1>1, <1>4, <2>2 DEF AtStage, All
  <2>4. AtStage \in Nat /\ AtStage >= 1 /\ AtStage' \in Nat /\ AtStage' < AtStage
    BY <1>1, <1>2, <2>1, <2>3
  <2>5. Lowers
    BY <1>1, <1>4, <2>4, StageLowers
  <2>6. All' = All
    BY DEF All
  <2> QED
    BY <1>1, <1>4, <2>2, <2>5, <2>6 DEF LengthsInv
<1> QED
  BY <1>1, <1>3, <1>4

LEMMA SecondNmsLowers ==
  ASSUME MtcnnInv, LengthsInv, SecondNms
  PROVE  LengthsInv' /\ Lowers
<1>1. /\ pc = "rnet" /\ UNCHANGED <<mode, level>> /\ TypeOK /\ All \in Nat /\ second \in Seq(Box)
      /\ first \in Seq(Box) /\ level * PerScale \in Nat /\ level * PerScale <= All
      /\ \/ pc' \in {"idle", "refine2"}
         \/ pc' = "pnet" /\ mode # "detect" /\ first' = <<>>
  BY ScaleRows, Types DEF SecondNms, call, MtcnnInv
<1>2. /\ it \in 1..(Len(first) + 1) /\ Len(first) \in Nat /\ Len(first) <= level * PerScale
      /\ Len(second) \in Nat /\ Len(second) < it
  BY <1>1 DEF TypeOK, LengthsInv
<1>3. /\ AtStage = All + 4 + (Len(first) + 1 - it)
      /\ pc' = "refine2" => AtStage' = All + 3
      /\ pc' = "pnet" => AtStage' = 1
  BY <1>1 DEF AtStage, All
<1>4. AtStage \in Nat /\ AtStage >= All + 4
  BY <1>1, <1>2, <1>3
<1>5. Lowers
  BY <1>1, <1>3, <1>4, StageLowers
<1>6. PICK n \in Nms(second, 7, "Union") :
        second' = n \/ second' \in NmsTwoBoxs(n, secondPrevious, 5)
  BY DEF SecondNms
<1>7. Len(second') <= Len(second) /\ Len(second') \in Nat
  <2>1. Len(n) \in Nat /\ Len(n) <= Len(second) /\ n \in Seq(Box)
    BY <1>1, <1>6, NmsShort
  <2>2. CASE second' = n
    BY <2>1, <2>2
  <2>3. CASE second' \in NmsTwoBoxs(n, secondPrevious, 5)
    <3>1. Len(second') \in Nat /\ Len(second') <= Len(n)
      BY <2>1, <2>3, NmsTwoBoxsShort
    <3> QED
      BY <1>2, <2>1, <3>1
  <2> QED
    BY <1>6, <2>2, <2>3
<1>8. Len(second') <= All
  <2> DEFINE low == level * PerScale
  <2>1. low \in Nat /\ low <= All /\ Len(first) <= low
    BY <1>1, <1>2
  <2> HIDE DEF low
  <2> QED
    BY <1>1, <1>2, <1>7, <2>1
<1>9. All' = All /\ Len(<<>>) = 0
  BY DEF All
<1>10. pc' = "pnet" => Len(first') <= level' * PerScale
  BY <1>1, <1>9
<1> QED
  BY <1>1, <1>5, <1>8, <1>9, <1>10 DEF LengthsInv

LEMMA SecondRefineLowers ==
  ASSUME MtcnnInv, LengthsInv, SecondRefine
  PROVE  LengthsInv' /\ Lowers
<1>1. /\ pc = "refine2" /\ pc' = "onet" /\ UNCHANGED <<mode, level>> /\ TypeOK /\ All \in Nat
      /\ second \in Seq(Box) /\ second' \in Refine(second) /\ it' = 1
  BY ScaleRows, Types DEF SecondRefine, call, MtcnnInv
<1>2. Len(second') = Len(second)
  <2>1. second' \in Seq(Box)
    BY SecondRefineStep DEF MtcnnInv, TypeOK
  <2> QED
    BY <1>1, <2>1, RefineLength
<1>3. Len(second) \in Nat /\ Len(second) <= All
  BY <1>1 DEF LengthsInv
<1>4. AtStage = All + 3 /\ AtStage' = 2 + (Len(second) + 1 - 1)
  BY <1>1, <1>2 DEF AtStage, All
<1>5. AtStage' \in Nat /\ AtStage' < AtStage /\ AtStage \in Nat /\ AtStage >= 1
  BY <1>1, <1>3, <1>4
<1>6. Lowers
  BY <1>1, <1>5, StageLowers
<1>7. All' = All
  BY DEF All
<1> QED
  BY <1>1, <1>2, <1>3, <1>6, <1>7 DEF LengthsInv

LEMMA ThirdLowers ==
  ASSUME MtcnnInv, LengthsInv, ThirdEmpty \/ ThirdRefine \/ ThirdNms
  PROVE  LengthsInv' /\ Lowers
<1>1. /\ UNCHANGED <<mode, level>> /\ TypeOK /\ All \in Nat /\ level * PerScale \in Nat
      /\ \/ pc = "onet" /\ pc' \in {"idle", "nms3"}
         \/ pc = "onet" /\ pc' = "pnet" /\ mode # "detect" /\ first' = <<>>
         \/ pc = "nms3" /\ pc' = "idle"
  BY ScaleRows DEF ThirdEmpty, ThirdRefine, ThirdNms, call, MtcnnInv
<1>2. pc = "onet" => it \in 1..(Len(second) + 1) /\ Len(second) \in Nat
  BY <1>1, Types DEF TypeOK
<1>3. /\ AtStage = IF pc = "onet" THEN 2 + (Len(second) + 1 - it) ELSE 1
      /\ pc' # "idle" => AtStage' = 1
  BY <1>1 DEF AtStage
<1>4. AtStage \in Nat /\ AtStage >= 1 /\ (pc' # "idle" => AtStage' < AtStage /\ AtStage' \in Nat)
  BY <1>1, <1>2, <1>3
<1>5. Lowers
  BY <1>1, <1>4, StageLowers
<1>6. pc' = "pnet" => Len(first') <= level' * PerScale
  BY <1>1
<1> QED
  BY <1>1, <1>5, <1>6 DEF LengthsInv

LEMMA LengthsStep == MtcnnInv /\ LengthsInv /\ [Next]_vars => LengthsInv' /\ [pc # "idle" => Lowers]_vars
<1> SUFFICES ASSUME MtcnnInv, LengthsInv, [Next]_vars
             PROVE  LengthsInv' /\ [pc # "idle" => Lowers]_vars
  OBVIOUS
<1>1. CASE UNCHANGED vars
  BY <1>1 DEF vars, LengthsInv, All
<1>2. CASE Call
  <2>1. pc = "idle" /\ pc' = "pnet" /\ first' = <<>> /\ level' = 0
    BY <1>2 DEF Call
  <2>2. 0 * PerScale = 0
    BY MtcnnAssumption
  <2> QED
    BY <2>1, <2>2 DEF LengthsInv
<1>3. CASE Step
  BY <1>3, PNetLowers, ScalesDoneLowers, FirstNmsLowers, FirstRefineLowers, WalkLowers,
     SecondNmsLowers, SecondRefineLowers, ThirdLowers DEF Step
<1> QED
  BY <1>1, <1>2, <1>3 DEF Next

\* A call of detect or detectMaxFace takes a bounded number of steps, whatever
\* the networks find: the argument behind CallsReturn.
THEOREM MtcnnStepsBounded == Spec => [][pc # "idle" => Lowers]_vars
<1>1. Init => LengthsInv
  BY DEF Init, LengthsInv
<1> QED
  BY <1>1, LengthsStep, MtcnnInvariant, PTL DEF Spec
=============================================================================
