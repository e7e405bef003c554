CONSTANTS
  Rects <- Three
  Scores = {1}
  Scales = 1
  PerScale = 2
  Modes = {"detect", "detectMaxFace"}
  MaxCalls = 2
SPECIFICATION Spec
INVARIANTS TypeOK ResultIsCurrent ResultIndependent
PROPERTIES ReturnsLargest CallsReturn
CHECK_DEADLOCK FALSE
