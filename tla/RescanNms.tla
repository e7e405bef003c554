----------------------------- MODULE RescanNms -----------------------------
(***************************************************************************)
(* What detectMaxFace relies on when it calls nmsTwoBoxs: in one step the  *)
(* vector is sorted and loses the boxes that overlap and outscore one of   *)
(* the earlier scales.  NmsTwoBoxs implements this.                        *)
(***************************************************************************)
EXTENDS Boxes

CONSTANTS Threshold, Mode
VARIABLES in, prev, out, done

Init == out = <<>> /\ done = FALSE

Select == /\ ~done /\ done' = TRUE
          /\ out' \in Rescanned(in, prev, Threshold, Mode)
          /\ UNCHANGED <<in, prev>>

Spec == Init /\ [][Select]_<<in, prev, out, done>>
=============================================================================
