\* hist()/lhist()/avg() arithmetic, loops and the comparison routines
\* (see MC_Routines for the instances' constants).
SPECIFICATION Spec
INVARIANTS
  TypeOK
  Log2CorrectSigned
  LinearCorrectSigned
  AvgCorrect
  LoopCorrect
  CompareCorrect
\* A loop's body ends once the loop is done.
CHECK_DEADLOCK FALSE
