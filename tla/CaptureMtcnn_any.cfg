CONSTANTS
  MaxFrames = 4
  MaxMarks = 2
  Outputs = {"input", "output"}
  Ownership = {"pooled", "stolen"}
SPECIFICATION Spec
INVARIANTS DrawsFreedOnlyIfStolen
CHECK_DEADLOCK FALSE
