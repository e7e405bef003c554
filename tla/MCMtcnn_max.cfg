CONSTANTS
  Rects <- Apart
  Scores = {1, 2}
  Scales = 2
  PerScale = 2
  Modes = {"detectMaxFace"}
  MaxCalls = 1
SPECIFICATION Spec
INVARIANTS OneScaleAtATime Comparable RescansNeverOutscore
CHECK_DEADLOCK FALSE
