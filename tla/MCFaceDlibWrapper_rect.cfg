CONSTANTS
  Buffers <- Rows
  Bounds <- Inside
  MaxFaces = 2
SPECIFICATION Spec
INVARIANTS FaceRectKept
CHECK_DEADLOCK FALSE
