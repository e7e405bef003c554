--------------------------- MODULE FramePipeline ---------------------------
(***************************************************************************)
(* What a camera view promises: the frames it takes from the camera reach  *)
(* the screen once each and in order, each with the marks (rectangles and  *)
(* landmarks) found in it.  Frames delivered meanwhile may be skipped.     *)
(***************************************************************************)
EXTENDS Naturals, Sequences

CONSTANTS MaxFrames,  \* frames the camera delivers
          MaxMarks    \* marks in a frame

Picture == [frame : 1..MaxFrames, marks : 0..MaxMarks]

VARIABLES taken,  \* pictures taken, with the marks found
          shown   \* pictures shown, with the marks drawn

vars == <<taken, shown>>

Init == taken = <<>> /\ shown = <<>>

Take == /\ \E p \in Picture : /\ \A i \in DOMAIN taken : taken[i].frame < p.frame
                              /\ taken' = Append(taken, p)
        /\ UNCHANGED shown

Show == /\ Len(shown) < Len(taken)
        /\ shown' = Append(shown, taken[Len(shown) + 1])
        /\ UNCHANGED taken

Next == Take \/ Show

Spec == Init /\ [][Next]_vars /\ WF_vars(Show)
=============================================================================
