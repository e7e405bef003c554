CONSTANTS
  Sides = {0, 1, 12, 17, 18, 30, 40, 41, 57, 80}
  MinSizes = {0, 1, 5, 12, 20, 40}
  MaxScales = 16
  MaxCalls = 2
SPECIFICATION PyramidSpec
INVARIANTS SizesCovered EnoughPixels
PROPERTIES ScalesEnd
CHECK_DEADLOCK FALSE
