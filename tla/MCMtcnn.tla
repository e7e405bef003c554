------------------------------ MODULE MCMtcnn ------------------------------
(***************************************************************************)
(* Places for the boxes of Mtcnn, as refine leaves them in a 60x60 image.  *)
(* Small meets neither of the others; Left and Inside suppress each other  *)
(* under "Min" but not under "Union".  A place always suppresses itself.   *)
(***************************************************************************)
EXTENDS Mtcnn

Place(x1, y1, x2, y2) == [x1 |-> x1, y1 |-> y1, x2 |-> x2, y2 |-> y2,
                          area |-> (x2 - x1) * (y2 - y1)]
Left   == Place(0, 0, 30, 30)
Small  == Place(40, 40, 56, 56)
Inside == Place(4, 4, 20, 20)

Apart == {Left, Small}
Three == {Left, Inside, Small}
=============================================================================
