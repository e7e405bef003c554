----------------------------- MODULE NmsTwoBoxs -----------------------------
(***************************************************************************)
(* MTCNN::nmsTwoBoxs, one action per iteration of its inner loop, which    *)
(* erases from the vector it walks.  The previous vector is the outer one. *)
(***************************************************************************)
EXTENDS Boxes, SequencesExt

CONSTANTS Inputs, Previous,  \* the vectors it may be called with
          Threshold, Mode    \* overlap_threshold in tenths; modelname

ASSUME NmsTwoBoxsAssumption == /\ Inputs \subseteq Seq(Bbox) /\ Previous \subseteq Seq(Bbox)
                               /\ Threshold \in 1..10 /\ Mode \in {"Union", "Min"}

VARIABLES pc, input,              \* the vector of the call (history)
          boundingBox, previous,  \* boundingBox_, previousBox_
          ity, itx                \* positions of the two iterators

vars == <<pc, input, boundingBox, previous, ity, itx>>

Init == /\ input \in Inputs /\ boundingBox = input /\ previous \in Previous
        /\ pc = "start" /\ ity = 1 /\ itx = 1

ReturnEmpty == /\ pc = "start" /\ boundingBox = <<>> /\ pc' = "done"
               /\ UNCHANGED <<input, boundingBox, previous, ity, itx>>

Sort == /\ pc = "start" /\ boundingBox # <<>> /\ pc' = "scan"
        /\ boundingBox' \in SortedByScore(boundingBox)
        /\ UNCHANGED <<input, previous, ity, itx>>

DropOverlapping(b, p) == Suppresses(b, p, Threshold, Mode)  \* mutant of Dropped
Dropped(b, p) == Outscores(b, p, Threshold, Mode)

PastNext(x) == x + 1                                 \* mutant of AfterErase
AfterErase(x) == x

Erase == /\ pc = "scan" /\ ity <= Len(previous) /\ itx <= Len(boundingBox)
         /\ Dropped(boundingBox[itx], previous[ity])
         /\ boundingBox' = RemoveAt(boundingBox, itx)
         /\ itx' = AfterErase(itx)
         /\ UNCHANGED <<pc, input, previous, ity>>

InPlace(x)   == x                                    \* mutant of Following
Following(x) == x + 1

Keep == /\ pc = "scan" /\ ity <= Len(previous) /\ itx <= Len(boundingBox)
        /\ ~Dropped(boundingBox[itx], previous[ity])
        /\ itx' = Following(itx)
        /\ UNCHANGED <<pc, input, boundingBox, previous, ity>>

Restart(x) == x                                      \* mutant of Begin
Begin(x) == 1

NextPrevious == /\ pc = "scan" /\ ity <= Len(previous) /\ itx > Len(boundingBox)
                /\ ity' = ity + 1 /\ itx' = Begin(itx)
                /\ UNCHANGED <<pc, input, boundingBox, previous>>

Return == /\ pc = "scan" /\ ity > Len(previous) /\ pc' = "done"
          /\ UNCHANGED <<input, boundingBox, previous, ity, itx>>

Next == ReturnEmpty \/ Sort \/ Erase \/ Keep \/ NextPrevious \/ Return

\* Straight-line code on one thread: a call under way keeps stepping.
Spec == Init /\ [][Next]_vars /\ WF_vars(Next)
-----------------------------------------------------------------------------
\* Types; in particular both iterators stay within their vectors or one past
\* the end, so that at() never throws.
TypeOK ==
  /\ pc \in {"start", "scan", "done"}
  /\ input \in Inputs /\ previous \in Previous /\ boundingBox \in Seq(Bbox)
  /\ ity \in 1..(Len(previous) + 1) /\ itx \in 1..(Len(boundingBox) + 1)

\* The boxes walked past stand against every previous box scanned so far:
\* erasing from the vector under the iterator skips none.
KeptStand ==
  pc # "start" => \A i \in DOMAIN boundingBox, j \in DOMAIN previous :
    j < ity \/ (j = ity /\ i < itx) =>
      ~Outscores(boundingBox[i], previous[j], Threshold, Mode)

\* A box disappears only because it overlaps and outscores a previous one.
ErasedOutscore ==
  \A i \in DOMAIN input :
    \/ \E k \in DOMAIN boundingBox : boundingBox[k] = input[i]
    \/ \E j \in DOMAIN previous : Outscores(input[i], previous[j], Threshold, Mode)

\* Every call returns: each turn of the inner loop erases or moves on.
Returns == <>(pc = "done")

\* The call does in one step what Mtcnn takes it to do.
Rescan == INSTANCE RescanNms WITH in <- input, prev <- previous, done <- pc = "done",
            out <- IF pc = "done" THEN boundingBox ELSE <<>>

ImplementsRescan == Rescan!Spec
=============================================================================
