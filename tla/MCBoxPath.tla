----------------------------- MODULE MCBoxPath -----------------------------
(***************************************************************************)
(* Regression offsets for BoxPath, in eighths of a side: a quarter either  *)
(* way and three quarters on, and a whole side on.                         *)
(***************************************************************************)
EXTENDS BoxPath

Some  == {-2, 2, 6}
Whole == {0, 8}
=============================================================================
