\* avg() buckets on one CPU, each bucket written in its previous epoch,
\* invocations nested inside the argument's helper
\* call, and the clock crossing num_intervals interval boundaries while an
\* invocation runs.
CONSTANTS
  NumCpus = 1
  Agg = "avg"
  Interval = 1
  NumIntervals = 2
  Vals <- MC_Vals
  ExprHelper = TRUE
  InitPresent = TRUE
  StartTime = 3
  MaxTime = 5
  MaxFires = 2
  MaxDepth = 2
SPECIFICATION Spec
INVARIANTS TSeriesAccurate
CHECK_DEADLOCK FALSE
