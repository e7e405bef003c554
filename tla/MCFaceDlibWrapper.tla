------------------------- MODULE MCFaceDlibWrapper -------------------------
(***************************************************************************)
(* Small buffers, packed and padded, of pixels of every size an image may  *)
(* have and each colour space, and faces with origins and sizes on either  *)
(* side of whole pixels.                                                   *)
(***************************************************************************)
EXTENDS FaceDlibWrapper

Packs  == [width : 1..3, height : 1..2, bytes : {0, 1, 2, 4, 8}, space : Spaces,
           stride : {0, 1, 2, 3, 4, 6, 8, 12, 16, 24}]
Rows   == {b \in Packs : b.stride >= b.bytes * b.width}
Edges  == [x : {-5, 0, 3}, y : {-1, 6}, w : {0, 7, 13}, h : {7, 13}]
Inside == [x : {3, 80}, y : {6}, w : {40}, h : {52}]
=============================================================================
