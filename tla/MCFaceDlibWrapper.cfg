CONSTANTS
  Buffers <- Rows
  Bounds <- Edges
  MaxFaces = 2
SPECIFICATION Spec
INVARIANTS TypeOK OverreadOnlyIfNarrow InPlaceExactly RectsCoverFaces WidestFound
CHECK_DEADLOCK FALSE
