-------------------------- MODULE FaceDlibWrapper --------------------------
(***************************************************************************)
(* The calls of FaceDlibWrapper: the copy of a frame or a UIImage into a   *)
(* dlib image, the face bounds as dlib rectangles, and findFace.  A pixel  *)
(* is the byte offset it was read from; CGFloats are in quarters.          *)
(***************************************************************************)
EXTENDS Integers, Sequences

CONSTANTS Buffers,  \* pixels in memory; bytes of the source's pixels, stride of a row
          Bounds,   \* face bounds [x, y, w, h], in quarters
          MaxFaces  \* bound: faces of a frame, or features findFace is given

Spaces == {"gray", "rgb", "other"}

ASSUME WrapperAssumption ==
  /\ \A b \in Buffers :
       /\ b \in [width : Nat \ {0}, height : Nat \ {0}, bytes : Nat, space : Spaces, stride : Nat]
       /\ b.stride >= b.bytes * b.width
  /\ Bounds \subseteq [x : Int, y : Int, w : Nat, h : Nat] /\ MaxFaces \in Nat

VARIABLES method,         \* the one called: "sample" is inRects:, "image" faceRect:, or "find"
          buffer, faces,  \* its arguments
          done,
          img,            \* the dlib image, in the order of move_next()
          rects,          \* the rectangles given to the shape predictor
          it,             \* the feature findFace looks at
          maxFace         \* its index in faces; 0 while uninitialised

arguments == <<method, buffer, faces>>
vars      == <<arguments, done, img, rects, it, maxFace>>

Packed(b) == b.stride = b.bytes * b.width
Size(b)   == b.stride * b.height

\* pixelBytes is that of the UIImage's own pixels (1 for indexed colour, 2 for
\* gray with alpha or RGB555, 8 for 16 bits a component), isGray a matter of its
\* colour space, and neither is the size of a pixel of the bitmap context, which
\* has 8 bits a component: the context exists only if its pixels fit.
IsGray(b) == b.space = "gray"
Depth(b)  == IF IsGray(b) THEN 1 ELSE 4
Drawn(b)  == b.space # "other" /\ Depth(b) <= b.bytes

\* The bytes of one pixel the copy reads.
Span(b) == IF IsGray(b) THEN 1 ELSE 3

\* A frame is BGRA, with rows as the camera aligns them; those of the bitmap
\* are packed.  findFace looks at no buffer.
Init == /\ \E n \in 0..MaxFaces : faces \in [1..n -> Bounds]
        /\ buffer \in Buffers
        /\ \/ method \in {"sample", "find"} /\ buffer.bytes = 4 /\ buffer.space = "rgb"
           \/ method = "image" /\ Packed(buffer) /\ Len(faces) = 1
        /\ done = FALSE /\ img = <<>> /\ rects = <<>> /\ it = 1 /\ maxFace = 0

ByColumn(position, b) == b.height * position * b.bytes  \* mutant of Offset
Offset(position, b)   == position * b.bytes

CopiedOneMore == Len(img) = buffer.width * buffer.height + 1  \* mutant of Copied

Copied == Len(img) = buffer.width * buffer.height

CopyPixel == /\ method # "find" /\ ~Copied
             /\ img' = Append(img, Offset(Len(img), buffer))
             /\ UNCHANGED <<arguments, done, rects, it, maxFace>>

\* A CGFloat becomes a long.
Trunc(q) == IF q >= 0 THEN q \div 4 ELSE -((-q) \div 4)

\* The rectangle faceRect: makes: width and height as right and bottom.
FromRect(f) == [left |-> Trunc(f.x), top |-> Trunc(f.y), right |-> Trunc(f.w), bottom |-> Trunc(f.h)]

\* One of convertCGRectValueArray:.
Converted(f) == LET left == Trunc(f.x)
                    top  == Trunc(f.y)
                IN  [left |-> left, top |-> top, right |-> Trunc(4 * left + f.w),
                     bottom |-> Trunc(4 * top + f.h)]

Predict == /\ method # "find" /\ Copied /\ ~done /\ done' = TRUE
           /\ rects' = IF method = "sample" THEN [i \in DOMAIN faces |-> Converted(faces[i])]
                                            ELSE <<FromRect(faces[1])>>
           /\ UNCHANGED <<arguments, img, it, maxFace>>

\* The variable named area.
Area == IF maxFace = 0 THEN 0 ELSE faces[maxFace].w * faces[maxFace].w

NotEmpty(f) == f.w > 0                               \* mutant of Better
Better(f)   == f.w * f.w > Area

Feature == /\ method = "find" /\ it <= Len(faces)
           /\ maxFace' = IF Better(faces[it]) THEN it ELSE maxFace
           /\ it' = it + 1
           /\ UNCHANGED <<arguments, done, img, rects>>

Found == /\ method = "find" /\ it > Len(faces) /\ ~done /\ done' = TRUE
         /\ UNCHANGED <<arguments, img, rects, it, maxFace>>

Next == CopyPixel \/ Predict \/ Feature \/ Found

Spec == Init /\ [][Next]_vars
-----------------------------------------------------------------------------
\* Types, and neither the image nor the features are run past.
TypeOK ==
  /\ method \in {"sample", "image", "find"} /\ buffer \in Buffers /\ faces \in Seq(Bounds)
  /\ done \in BOOLEAN
  /\ img \in Seq(Nat) /\ Len(img) <= buffer.width * buffer.height
  /\ rects \in Seq([left : Int, top : Int, right : Int, bottom : Int])
  /\ it \in 1..(Len(faces) + 1) /\ maxFace \in 0..Len(faces)

\* The copy reads past the end of a buffer only if that has fewer bytes a
\* pixel than it reads: an image that is not gray and has one or two, never a
\* frame.
OverreadOnlyIfNarrow ==
  \A k \in DOMAIN img : img[k] + Span(buffer) > Size(buffer) => buffer.bytes < Span(buffer)

\* Where pixel k of the image is in the buffer.
Row(k)    == (k - 1) \div buffer.width
Column(k) == (k - 1) % buffer.width
Place(k)  == Row(k) * buffer.stride + Column(k) * Depth(buffer)

\* Which pixels the copy by position, which knows neither bytesPerRow nor the
\* size of a stored pixel, gets right: the first row of a frame whose rows are
\* padded, the first column of an image whose pixels are wider than those
\* stored, and everything of the others.
InPlaceExactly ==
  Drawn(buffer) =>
    \A k \in DOMAIN img : img[k] = Place(k) <=> /\ Row(k) = 0 \/ Packed(buffer)
                                                /\ Column(k) = 0 \/ buffer.bytes = Depth(buffer)

\* A rectangle is off by less than a pixel at the origin and by less than two
\* at the far corner of the face, and is not empty.
Near(r, f) == /\ 4 * r.left - f.x \in -3..3 /\ 4 * r.right - f.x - f.w \in -7..7
              /\ 4 * r.top - f.y \in -3..3 /\ 4 * r.bottom - f.y - f.h \in -7..7
              /\ r.left <= r.right /\ r.top <= r.bottom

\* So are the rectangles of a frame, also of faces that stick out of it.
RectsCoverFaces == method = "sample" => \A i \in DOMAIN rects : Near(rects[i], faces[i])

\* faceRect: takes a CGRect and gives the predictor a dlib::rectangle: the
\* same face, if the constructor's arguments are what dlib says they are.
FaceRectKept == method = "image" => \A i \in DOMAIN rects : Near(rects[i], faces[i])

\* findFace returns the widest face, which for square bounds is the largest,
\* and nothing it has set only if no face has a width.
WidestFound ==
  method = "find" /\ done =>
    \A f \in {faces[i] : i \in DOMAIN faces} :
      IF maxFace = 0 THEN f.w = 0 ELSE f.w <= faces[maxFace].w
=============================================================================
