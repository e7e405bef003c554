------------------------------- MODULE Mtcnn -------------------------------
(***************************************************************************)
(* An MTCNN object across calls of detect and detectMaxFace: the member    *)
(* vectors, which outlive a call, and the stages that fill them.  The      *)
(* networks are nondeterministic; nms is the greedy selection that Nms     *)
(* implements; refine moves a box to any of Rects (BoxPath has its         *)
(* arithmetic).  frame, level, net and moves of a box are history.         *)
(***************************************************************************)
EXTENDS Boxes

CONSTANTS Rects,     \* places of boxes, [x1, y1, x2, y2, area] with a fresh area
          Scores,    \* codes of the scores a box can get
          Scales,    \* length of scales_
          PerScale,  \* bound: boxes generateBbox finds at one scale
          Modes,     \* the entry points called
          MaxCalls   \* bound: frames

\* NmsDrains of BoxPath: a box suppresses itself in every nms call.
ASSUME MtcnnAssumption ==
  /\ Scores \subseteq Int /\ Rects \subseteq [x1 : Int, y1 : Int, x2 : Int, y2 : Int, area : Int]
  /\ \A r \in Rects : r.area = AreaOf(r) /\ \A m \in {"Union", "Min"} : Suppresses(r, r, 7, m)
  /\ {Scales, PerScale, MaxCalls} \subseteq Nat
  /\ Modes \subseteq {"detect", "detectMaxFace"}

VARIABLES pc, mode, frame,
          level,                          \* scales done
          first, second, third,           \* firstBbox_, secondBbox_, thirdBbox_
          firstPrevious, secondPrevious,  \* firstPreviousBbox_, secondPreviousBbox_
          it,                             \* index of the iterator of RNet() or ONet()
          final                           \* the caller's finalBbox

call     == <<mode, frame>>
previous == <<firstPrevious, secondPrevious>>
vars     == <<pc, call, level, first, second, third, previous, it, final>>

Elements(s) == {s[i] : i \in DOMAIN s}
UpTo(n, S)  == UNION {[1..k -> S] : k \in 0..n}

\* What a call of nms may leave of s.
Nms(s, t, m) == {r \in UpTo(Len(s), Elements(s)) : IsGreedy(s, r, t, m)}

Replacing(s, prev, t) == SortedByScore(s)             \* mutant of NmsTwoBoxs

\* What nmsTwoBoxs may leave of s.
NmsTwoBoxs(s, prev, t) == Rescanned(s, prev, t, "Union")

Placed(b, r) == [b EXCEPT !.x1 = r.x1, !.y1 = r.y1, !.x2 = r.x2, !.y2 = r.y2,
                          !.area = r.area, !.moves = @ + 1]

\* What refine may make of s.
Refine(s) == {[i \in DOMAIN s |-> Placed(s[i], r[i])] : r \in [DOMAIN s -> Rects]}

ExtractAny(s) == {<<b>> : b \in Elements(s)}         \* mutant of ExtractMaxFace

\* Sort by cmpArea and keep the front.  cmpArea holds both ways between equal
\* areas, so any box of the greatest area may come first.
ExtractMaxFace(s) ==
  {<<b>> : b \in {c \in Elements(s) : \A d \in Elements(s) : d.area <= c.area}}

\* A box as generateBbox makes it at scale k, and as a network that accepts it
\* leaves it.  The stored score is channel(1)[0], not the score[1] that was
\* compared with the threshold: it may be anything.
Candidate(r, s, k) == [score |-> s, x1 |-> r.x1, y1 |-> r.y1, x2 |-> r.x2, y2 |-> r.y2,
                       area |-> r.area, frame |-> frame, level |-> k, net |-> "P", moves |-> 0]
Candidates(k)      == {Candidate(r, s, k) : r \in Rects, s \in Scores}
Accepted(b, s, n)  == [b EXCEPT !.score = s, !.area = AreaOf(b), !.net = n]

Kept(s)    == s                                      \* mutant of Cleared
Cleared(s) == <<>>

\* The copy detectMaxFace keeps of the new boxes; from is what RNet() left.
RememberedFrom(prev, new, from) == prev \o from      \* mutant of Remembered
Remembered(prev, new, from)     == prev \o new

Skipping  == it + 2                                  \* mutant of Following
Following == it + 1

AtEnd(s) == it > Len(s)

Staying == IF mode = "detect" THEN "idle" ELSE pc    \* mutant of Leaving
Leaving == IF mode = "detect" THEN "idle" ELSE "pnet"

ByUnion     == "Union"                               \* mutant of LastMeasure
LastMeasure == "Min"
-----------------------------------------------------------------------------
Init == /\ pc = "idle" /\ mode \in Modes /\ frame = 0 /\ level = 0 /\ it = 1
        /\ first = <<>> /\ second = <<>> /\ third = <<>>
        /\ firstPrevious = <<>> /\ secondPrevious = <<>> /\ final = <<>>

\* detectMaxFace clears the members; detect only firstBbox_, in PNet().
Call == /\ pc = "idle" /\ frame < MaxCalls
        /\ frame' = frame + 1 /\ mode' \in Modes
        /\ pc' = "pnet" /\ level' = 0 /\ final' = <<>> /\ first' = <<>>
        /\ IF mode' = "detect"
             THEN UNCHANGED <<second, third, previous>>
             ELSE /\ second' = <<>> /\ third' = <<>>
                  /\ firstPrevious' = <<>> /\ secondPrevious' = <<>>
        /\ UNCHANGED it

\* One scale: generateBbox, nms and the append to firstBbox_.
PNet == /\ pc = "pnet" /\ level < Scales
        /\ level' = level + 1
        /\ \E v \in UpTo(PerScale, Candidates(level')) :
             \E kept \in Nms(v, 5, "Union") : first' = first \o kept
        /\ pc' = IF mode = "detect" THEN "pnet" ELSE "nms1"
        /\ UNCHANGED <<call, second, third, previous, it, final>>

ScalesDone == /\ pc = "pnet" /\ level = Scales
              /\ pc' = IF mode = "detect" /\ first # <<>> THEN "nms1" ELSE "idle"
              /\ UNCHANGED <<call, level, first, second, third, previous, it, final>>

FirstNms == /\ pc = "nms1"
            /\ \E n \in Nms(first, 5, "Union") :
                 \/ /\ mode = "detect"
                    /\ first' = n /\ pc' = "refine1" /\ UNCHANGED firstPrevious
                 \/ /\ mode = "detectMaxFace"
                    /\ first' \in NmsTwoBoxs(n, firstPrevious, 5)
                    /\ firstPrevious' = Remembered(firstPrevious, first', first)
                    /\ pc' = IF first' = <<>> THEN "pnet" ELSE "refine1"
            /\ UNCHANGED <<call, level, second, third, secondPrevious, it, final>>

\* refine, then RNet() up to its loop.
FirstRefine == /\ pc = "refine1"
               /\ first' \in Refine(first)
               /\ second' = Cleared(second) /\ it' = 1 /\ pc' = "rnet"
               /\ UNCHANGED <<call, level, third, previous, final>>

\* The box is left where it is, in the vector the network walks.
NetRejects == /\ \/ pc = "rnet" /\ ~AtEnd(first)
                 \/ pc = "onet" /\ ~AtEnd(second)
              /\ it' = Following
              /\ UNCHANGED <<pc, call, level, first, second, third, previous, final>>

\* The box is updated in place in firstBbox_ and copied to secondBbox_.
RNetAccepts == /\ pc = "rnet" /\ ~AtEnd(first)
               /\ \E s \in Scores : first' = [first EXCEPT ![it] = Accepted(@, s, "R")]
               /\ second' = Append(second, first'[it])
               /\ it' = Following
               /\ UNCHANGED <<pc, call, level, third, previous, final>>

SecondNms ==
  /\ pc = "rnet" /\ AtEnd(first)
  /\ \E n \in Nms(second, 7, "Union") :
       \/ /\ mode = "detect" /\ UNCHANGED <<first, secondPrevious>>
          /\ second' = n /\ pc' = IF n = <<>> THEN "idle" ELSE "refine2"
       \/ /\ mode = "detectMaxFace"
          /\ second' \in NmsTwoBoxs(n, secondPrevious, 5)
          /\ secondPrevious' = Remembered(secondPrevious, second', first)
          /\ IF second' = <<>> THEN first' = Cleared(first) /\ pc' = "pnet"
                               ELSE UNCHANGED first /\ pc' = "refine2"
  /\ UNCHANGED <<call, level, third, firstPrevious, it, final>>

\* ONet() without its clear of thirdBbox_: mutant of SecondRefine.
SecondRefineOnto == /\ pc = "refine2"
                    /\ second' \in Refine(second)
                    /\ it' = 1 /\ pc' = "onet"
                    /\ UNCHANGED <<call, level, first, third, previous, final>>

\* refine, then ONet() up to its loop.
SecondRefine == /\ pc = "refine2"
                /\ second' \in Refine(second)
                /\ third' = Cleared(third) /\ it' = 1 /\ pc' = "onet"
                /\ UNCHANGED <<call, level, first, previous, final>>

ONetAccepts == /\ pc = "onet" /\ ~AtEnd(second)
               /\ \E s \in Scores : second' = [second EXCEPT ![it] = Accepted(@, s, "O")]
               /\ third' = Append(third, second'[it])
               /\ it' = Following
               /\ UNCHANGED <<pc, call, level, first, previous, final>>

\* detect returns; detectMaxFace clears the stages and goes on to the next scale.
ThirdEmpty == /\ pc = "onet" /\ AtEnd(second) /\ third = <<>> /\ pc' = Leaving
              /\ IF mode = "detect" THEN UNCHANGED <<first, second>>
                   ELSE first' = Cleared(first) /\ second' = Cleared(second)
              /\ UNCHANGED <<call, level, third, previous, it, final>>

ThirdRefine == /\ pc = "onet" /\ AtEnd(second) /\ third # <<>>
               /\ third' \in Refine(third)
               /\ pc' = "nms3"
               /\ UNCHANGED <<call, level, first, second, previous, it, final>>

ThirdNms == /\ pc = "nms3"
            /\ \E n \in Nms(third, 7, LastMeasure) :
                 third' \in IF mode = "detect" THEN {n} ELSE ExtractMaxFace(n)
            /\ final' = third' /\ pc' = "idle"
            /\ UNCHANGED <<call, level, first, second, previous, it>>

Step == \/ PNet \/ ScalesDone \/ FirstNms \/ FirstRefine \/ NetRejects \/ RNetAccepts
        \/ SecondNms \/ SecondRefine \/ ONetAccepts
        \/ ThirdEmpty \/ ThirdRefine \/ ThirdNms

Next == Call \/ Step

\* A call runs on the caller's thread to its end; nobody has to call again.
Spec == Init /\ [][Next]_vars /\ WF_vars(Step)
-----------------------------------------------------------------------------
Box == [score : Scores, x1 : Int, y1 : Int, x2 : Int, y2 : Int, area : Int,
        frame : 1..MaxCalls, level : 1..Scales, net : {"P", "R", "O"}, moves : 0..3]

\* Types; in particular the iterator of RNet() and ONet() stays within the
\* vector it walks, or one past its end.
TypeOK ==
  /\ pc \in {"idle", "pnet", "nms1", "refine1", "rnet", "refine2", "onet", "nms3"}
  /\ mode \in Modes /\ frame \in 0..MaxCalls /\ level \in 0..Scales
  /\ \A s \in {first, second, third, firstPrevious, secondPrevious, final} : s \in Seq(Box)
  /\ pc = "rnet" => it \in 1..(Len(first) + 1)
  /\ pc = "onet" => it \in 1..(Len(second) + 1)

\* What a call returns was found in the frame of that call and has been
\* through all three networks and refinements: nothing a member vector kept
\* from an earlier call, or from an earlier stage, reaches the caller.
ResultIsCurrent ==
  pc = "idle" => \A b \in Elements(final) : b.frame = frame /\ b.net = "O" /\ b.moves = 3

\* The boxes detect returns do not suppress each other where they are
\* returned: the last nms sees the final coordinates.
ResultIndependent ==
  pc = "idle" => \A i, j \in DOMAIN final : i # j => ~Suppresses(final[i], final[j], 7, "Min")

\* In detectMaxFace no box of an earlier scale is still in a stage: although
\* PNet(scale) appends to firstBbox_, every way round the loop has emptied it.
OneScaleAtATime ==
  mode = "detectMaxFace" /\ pc # "idle" =>
    \A b \in Elements(first) \cup Elements(second) \cup Elements(third) : b.level = level

\* nmsTwoBoxs compares like with like: what it has in firstPreviousBbox_ and
\* secondPreviousBbox_ are boxes of the same network as the new ones, in
\* coordinates not yet refined by that network's offsets.
Comparable ==
  /\ \A b \in Elements(firstPrevious)  : b.net = "P" /\ b.moves = 0
  /\ \A b \in Elements(secondPrevious) : b.net = "R" /\ b.moves = 1

\* Two boxes detectMaxFace has sent to RNet overlap only if they come from
\* different scales and the later one did not score higher.
RescansNeverOutscore ==
  \A i, j \in DOMAIN firstPrevious :
    i < j /\ Suppresses(firstPrevious[j], firstPrevious[i], 5, "Union") =>
      /\ firstPrevious[i].level < firstPrevious[j].level
      /\ firstPrevious[i].score >= firstPrevious[j].score

\* detectMaxFace returns one box, and passes over a larger one of the third
\* stage only for a box that overlaps it, scores at least as high and is not
\* larger than the one returned.
ReturnsLargest ==
  [][pc = "nms3" /\ mode = "detectMaxFace" =>
       /\ Len(final') = 1
       /\ \A b \in Elements(third) : b.area > final'[1].area =>
            \E c \in Elements(third) : /\ Suppresses(b, c, 7, "Min") /\ b.score <= c.score
                                       /\ c.area <= final'[1].area]_vars

\* Every call returns.
CallsReturn == (pc # "idle") ~> (pc = "idle")
=============================================================================
