CONSTANTS
  MaxFrames = 4
  MaxMarks = 2
  Outputs = {"input", "output"}
  Ownership = {"pooled"}
SPECIFICATION Spec
INVARIANTS TypeOK ReadyBeforeFrames
PROPERTIES ImplementsPipeline
CHECK_DEADLOCK FALSE
