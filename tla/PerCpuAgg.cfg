SPECIFICATION Spec
INVARIANTS
  TypeOK
  AggMatches
  TSeriesAccurate
CHECK_DEADLOCK FALSE
