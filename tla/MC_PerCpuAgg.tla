---------------------------- MODULE MC_PerCpuAgg ----------------------------
(***************************************************************************)
(* Three instances checked in one model, a behaviour running one of     *)
(* them while the others stay in their initial states:                  *)
(*   H  min() on a hash map key that probes also delete(), invocations    *)
(*      never nested;                                                      *)
(*   A  avg() on a per-CPU array, whose argument calls a helper inside    *)
(*      which a second invocation may run on the same CPU.                *)
(*   T  a min() t-series on two CPUs, nesting inside its helper calls,    *)
(*      over buckets that hold an update of their previous epoch, for     *)
(*      less than NumIntervals intervals.                                 *)
(* A negative and a positive argument, so that min moves both ways and a   *)
(* signed total changes sign; the t-series takes 1 and 2.                 *)
(***************************************************************************)
EXTENDS Integers, Sequences

VARIABLES
  inst,                                                \* "H", "A" or "T"
  hstack, hpresent, hgen, hslot, hfired, hcontrib,     \* instance H
  astack, apresent, agen, aslot, afired, acontrib,     \* instance A
  tclock, tstack, tpresent, tslot, tfired, tabs        \* instance T

MC_Vals == {-1, 2}

H == INSTANCE PerCpuAgg WITH
       NumCpus <- 2, Vals <- MC_Vals, Kind <- "min", MapKind <- "hash",
       CanDelete <- TRUE, ExprHelper <- FALSE, MaxFires <- 4, MaxDepth <- 1,
       stack <- hstack, present <- hpresent, gen <- hgen, slot <- hslot,
       fired <- hfired, contrib <- hcontrib

A == INSTANCE PerCpuAgg WITH
       NumCpus <- 2, Vals <- MC_Vals, Kind <- "avg", MapKind <- "array",
       CanDelete <- FALSE, ExprHelper <- TRUE, MaxFires <- 3, MaxDepth <- 2,
       stack <- astack, present <- apresent, gen <- agen, slot <- aslot,
       fired <- afired, contrib <- acontrib

T == INSTANCE TSeries WITH
       NumCpus <- 2, Agg <- "min", Interval <- 2, NumIntervals <- 2,
       Vals <- {1, 2}, ExprHelper <- TRUE, InitPresent <- TRUE,
       StartTime <- 6, MaxTime <- 9, MaxFires <- 3, MaxDepth <- 2,
       clock <- tclock, stack <- tstack, present <- tpresent, slot <- tslot,
       fired <- tfired, abs <- tabs

hvars == <<hstack, hpresent, hgen, hslot, hfired, hcontrib>>
avars == <<astack, apresent, agen, aslot, afired, acontrib>>
tvars == <<tclock, tstack, tpresent, tslot, tfired, tabs>>
vars == <<inst, hvars, avars, tvars>>

Init == inst \in {"H", "A", "T"} /\ H!Init /\ A!Init /\ T!Init

RunH(act) == inst = "H" /\ act /\ UNCHANGED <<inst, avars, tvars>>
RunA(act) == inst = "A" /\ act /\ UNCHANGED <<inst, hvars, tvars>>
RunT(act) == inst = "T" /\ act /\ UNCHANGED <<inst, hvars, avars>>

Next == RunH(H!Next) \/ RunA(A!Next) \/ RunT(T!Next)

\* Only safety properties are checked, so no fairness is assumed.
Spec == Init /\ [][Next]_vars

\* The type invariants of the three instances.
TypeOK == H!TypeOK /\ A!TypeOK /\ T!TypeOK

(* AggMatches of PerCpuAgg, for both instances: the value read back is    *)
(* the aggregate of the updates that took effect since the last delete.   *)
AggMatches == H!AggMatches /\ A!AggMatches

(* TSeriesAccurate of TSeries: between invocations, every bucket slot of  *)
(* a CPU holds the aggregate of that CPU's updates in the bucket's latest *)
(* epoch.                                                                  *)
TSeriesAccurate == T!TSeriesAccurate
=============================================================================
