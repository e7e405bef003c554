CONSTANTS
  Width = 64
  Height = 58
  Sides = {58}
  MinSizes = {40}
  MaxScales = 3
  MaxCalls = 1
  Grain = 8
  Offsets <- Whole
SPECIFICATION Spec
INVARIANTS BoundaryCheck
CHECK_DEADLOCK FALSE
