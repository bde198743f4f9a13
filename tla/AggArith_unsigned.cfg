CONSTANTS
  LogW = 3
  MaxK = 5
  LinBounds = {0, 100}
  LinSteps = {1}
  Counts = {1}
SPECIFICATION Spec
INVARIANT
  Log2Correct
