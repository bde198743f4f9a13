\* A range of 17 iterations: end - start cast to a 4-bit count is 1.
CONSTANTS
  W64 = 8
  W32 = 4
  MaxLoops = 5
  Kinds = {"range"}
  Starts = {0}
  Ends = {17}
  Marks = {0}
  MapKeys = {1}
SPECIFICATION Spec
INVARIANTS LoopCorrect
CHECK_DEADLOCK FALSE
