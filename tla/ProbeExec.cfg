\* The guarded kprobe and the hist() body (see MC_ProbeExecPair).
CONSTANTS
  c1 = c1
  c2 = c2
SPECIFICATION Spec
INVARIANTS
  TypeOK
  GuardExclusive
  CountsAccurate
  IdleFlagClear
  EventsAccounted
\* Runs stop once MaxFires probes have fired and returned.
CHECK_DEADLOCK FALSE
