-------------------------------- MODULE Nms --------------------------------
(***************************************************************************)
(* MTCNN::nms, one action per loop iteration.  The multimap vScores is     *)
(* keyed by score and filled from a vector already sorted by score, with   *)
(* equal keys kept in insertion order, so its order is the order of the    *)
(* indices and vScores is modelled as the set of indices still in it.      *)
(***************************************************************************)
EXTENDS Boxes, FiniteSetsExt

CONSTANTS Inputs,     \* the vectors nms may be called with
          Threshold,  \* overlap_threshold, in tenths
          Mode        \* modelname: "Union" or "Min"

ASSUME NmsAssumption == /\ Inputs \subseteq Seq(Bbox)
                        /\ Threshold \in 1..10
                        /\ Mode \in {"Union", "Min"}

VARIABLES pc,           \* "start", "pick", "scan", "done" or "overrun"
          input,        \* the vector of the call (history)
          boundingBox,  \* boundingBox_: sorted in place, replaced at the end
          vScores,      \* indices in the multimap
          vPick,        \* the picks made; nPick is its length
          last,         \* index of the pick being scanned for
          it            \* iterator: the scan goes on at the first index >= it

vars == <<pc, input, boundingBox, vScores, vPick, last, it>>

Over(i, j) == Suppresses(boundingBox[i], boundingBox[j], Threshold, Mode)

Init == /\ input \in Inputs
        /\ boundingBox = input
        /\ pc = "start"
        /\ vScores = {} /\ vPick = <<>> /\ last = 0 /\ it = 0

ReturnEmpty == /\ pc = "start" /\ boundingBox = <<>>
               /\ pc' = "done"
               /\ UNCHANGED <<input, boundingBox, vScores, vPick, last, it>>

ZeroBased(n) == 0..(n - 1)                           \* mutant of Indices
Indices(n)   == 1..n

Sort == /\ pc = "start" /\ boundingBox # <<>>
        /\ boundingBox' \in SortedByScore(boundingBox)
        /\ vScores' = Indices(Len(boundingBox))
        /\ pc' = "pick"
        /\ UNCHANGED <<input, vPick, last, it>>

Lowest == Min(vScores)                               \* mutant of Best

\* The last key of the multimap.
Best == Max(vScores)

Pick == /\ pc = "pick" /\ vScores # {} /\ Len(vPick) < Len(boundingBox)
        /\ last' = Best
        /\ vPick' = Append(vPick, last')
        /\ it' = 1 /\ pc' = "scan"
        /\ UNCHANGED <<input, boundingBox, vScores>>

\* vPick has num_boxes elements: one more pick writes past its end, and what
\* the program does from there on is undefined.
Overrun == /\ pc = "pick" /\ vScores # {} /\ Len(vPick) = Len(boundingBox)
           /\ pc' = "overrun"
           /\ UNCHANGED <<input, boundingBox, vScores, vPick, last, it>>

RestButLast == {i \in vScores : i >= it /\ i < last}  \* mutant of Rest
Rest == {i \in vScores : i >= it}

AfterNext(i) == i + 2                                \* mutant of After
InPlace(i)   == i                                    \* mutant of After
After(i)     == i + 1

Erase == /\ pc = "scan" /\ Rest # {} /\ Over(Min(Rest), last)
         /\ vScores' = vScores \ {Min(Rest)}
         /\ it' = After(Min(Rest))
         /\ UNCHANGED <<pc, input, boundingBox, vPick, last>>

Keep == /\ pc = "scan" /\ Rest # {} /\ ~Over(Min(Rest), last)
        /\ it' = After(Min(Rest))
        /\ UNCHANGED <<pc, input, boundingBox, vScores, vPick, last>>

EndScan == /\ pc = "scan" /\ Rest = {}
           /\ pc' = "pick"
           /\ UNCHANGED <<input, boundingBox, vScores, vPick, last, it>>

Prefix == [k \in 1..Len(vPick) |-> boundingBox[k]]   \* mutant of Picked
Picked == [k \in 1..Len(vPick) |-> boundingBox[vPick[k]]]

Collect == /\ pc = "pick" /\ vScores = {}
           /\ boundingBox' = Picked
           /\ pc' = "done"
           /\ UNCHANGED <<input, vScores, vPick, last, it>>

Next == \/ ReturnEmpty \/ Sort \/ Pick \/ Overrun
        \/ Erase \/ Keep \/ EndScan \/ Collect

\* nms is straight-line code on one thread: a call under way keeps stepping.
Spec == Init /\ [][Next]_vars /\ WF_vars(Next)
-----------------------------------------------------------------------------
Working == pc \in {"pick", "scan", "overrun"}

\* Types; in particular every index the loop uses (vScores, vPick, last) is
\* valid in boundingBox_ while the loop runs.
TypeOK ==
  /\ pc \in {"start", "pick", "scan", "done", "overrun"}
  /\ input \in Inputs
  /\ boundingBox \in Seq(Bbox)
  /\ last \in Nat /\ it \in Nat
  /\ vScores \in SUBSET (1..Len(boundingBox)) \/ pc = "done"
  /\ vPick \in Seq(1..Len(boundingBox)) \/ pc = "done"
  /\ pc = "scan" => last \in 1..Len(boundingBox)

\* No pick suppresses a later one, at any point of the loop: erasing from the
\* map while iterating over it never lets an overlapping box through.
PicksIndependent ==
  Working => \A j, k \in DOMAIN vPick : j < k => ~Over(vPick[j], vPick[k])

\* A box leaves the map only because some pick that scores at least as high
\* overlaps it: no detection is lost without a better one standing for it.
DropsJustified ==
  Working => \A i \in DOMAIN boundingBox \ vScores : \E k \in DOMAIN vPick :
               /\ Over(i, vPick[k])
               /\ boundingBox[i].score <= boundingBox[vPick[k]].score

\* vPick[nPick] is written past the end of vPick only if the vector holds a
\* box whose overlap with itself is not above the threshold: the loop relies
\* on each pick erasing itself.
OverrunOnlyIfDegenerate ==
  pc = "overrun" => \E i \in DOMAIN boundingBox : ~Over(i, i)

\* A call whose boxes all suppress themselves returns: each pick leaves the
\* map, so the map drains before vPick is full.
Returns ==
  (\A i \in DOMAIN input : Suppresses(input[i], input[i], Threshold, Mode))
    => <>(pc = "done")

\* nms implements the greedy selection its callers rely on.
Greedy == INSTANCE GreedyNms WITH in <- input, done <- pc = "done",
            out <- IF pc = "done" THEN boundingBox ELSE <<>>

ImplementsGreedy == Greedy!Spec
=============================================================================
