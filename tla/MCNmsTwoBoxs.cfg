CONSTANTS
  Inputs <- UpToThree
  Previous <- UpToTwo
  Threshold = 5
  Mode = "Union"
SPECIFICATION Spec
INVARIANTS TypeOK KeptStand ErasedOutscore
PROPERTIES Returns ImplementsRescan
CHECK_DEADLOCK FALSE
