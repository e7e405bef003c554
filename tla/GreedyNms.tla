----------------------------- MODULE GreedyNms -----------------------------
(***************************************************************************)
(* What a caller of MTCNN::nms relies on: the call replaces the vector by  *)
(* a greedy selection of it, in one step.  Nms implements this.            *)
(***************************************************************************)
EXTENDS Boxes

CONSTANTS Inputs, Threshold, Mode
VARIABLES in, out, done

Init == in \in Inputs /\ out = <<>> /\ done = FALSE

Select == /\ ~done
          /\ done' = TRUE
          /\ out' \in Seq(Bbox)
          /\ IsGreedy(in, out', Threshold, Mode)
          /\ in' = in

Spec == Init /\ [][Select]_<<in, out, done>>
=============================================================================
