CONSTANTS
  MaxLen = 3
  Scores = {81, 90, 99}
  Threshold = 5
  Mode = "Union"
  Inputs <- Vectors
SPECIFICATION Spec
INVARIANTS TypeOK PicksIndependent DropsJustified OverrunOnlyIfDegenerate
PROPERTIES Returns ImplementsGreedy
CHECK_DEADLOCK FALSE
