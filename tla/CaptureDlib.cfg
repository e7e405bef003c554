CONSTANTS
  MaxFrames = 3
  MaxFaces = 2
  MaxMarks = 4
  MaxArrays = 3
  Outputs = {"input", "output", "metadata"}
SPECIFICATION Spec
INVARIANTS TypeOK ReadyBeforeFrames FreedOnlyIfReplaced NothingLeaks FacesAreCurrent
PROPERTIES ImplementsPipeline
CHECK_DEADLOCK FALSE
