------------------------------- MODULE TSeries -------------------------------
(***************************************************************************)
(* The BPF code that CodegenLLVM::visit(Call) emits for                    *)
(* tseries(@m, interval_ns, num_intervals, agg): read the time, compute    *)
(* the epoch now / interval_ns and the bucket epoch % num_intervals, look  *)
(* the bucket's element up (or use a zeroed local struct stamped with the  *)
(* epoch), reset value and meta when the stored epoch is not the current   *)
(* one, evaluate the argument, update value/meta by the aggregation, store *)
(* the epoch, and on a missed lookup map_update_elem(BPF_ANY) the local    *)
(* struct.                                                                 *)
(*                                                                         *)
(* One map key of a per-CPU hash: its buckets are the map's elements and   *)
(* each element has one {value, meta, epoch} slot per CPU.  Invocations    *)
(* run on several CPUs and nest on one CPU inside a helper call.  Time is  *)
(* a global clock in nanoseconds that only moves forward (boot time plus   *)
(* the constant TAI offset of createGetNsSwTAI).                           *)
(***************************************************************************)
EXTENDS Integers, Sequences, SequencesExt, FiniteSetsExt

CONSTANTS
  NumCpus,       \* the CPUs are 0 .. NumCpus-1
  Agg,           \* "none", "sum", "min", "max" or "avg"
  Interval,      \* interval_ns
  NumIntervals,  \* num_intervals
  Vals,          \* values of the argument
  ExprHelper,    \* evaluating the argument calls a helper
  InitPresent,   \* every bucket's element exists, each slot holding one
                 \* update of the bucket's previous epoch
  StartTime,     \* the clock when the model starts
  MaxTime,       \* bound on the clock
  MaxFires,      \* bound on the number of probe firings
  MaxDepth       \* bound on the nesting depth on one CPU

ASSUME /\ Agg \in {"none", "sum", "min", "max", "avg"}
       /\ Interval \in Nat \ {0} /\ NumIntervals \in Nat \ {0}
       /\ StartTime \in Nat /\ StartTime \div Interval > 0
       /\ MaxTime >= StartTime
       /\ InitPresent => StartTime \div Interval > NumIntervals

CPUs == 0 .. NumCpus - 1
Buckets == 0 .. NumIntervals - 1

\* struct t_series_val {value, meta, epoch}, and the zeroes of a slot no
\* update has written.
Slot(v, m, e) == [value |-> v, meta |-> m, epoch |-> e]
Zero == Slot(0, 0, 0)

Epoch(now) == now \div Interval
Bucket(e) == e % NumIntervals

VARIABLES
  clock,    \* the time bpf_ktime_get_boot_ns reads
  stack,    \* stack[c]: frames of the invocations running on CPU c
  present,  \* buckets whose element exists
  slot,     \* slot[c][b]: CPU c's slot of bucket b's element
  fired,    \* history: number of probe firings
  abs       \* history: abs[c][b] = the updates CPU c made to bucket b in
            \* its latest epoch (epoch 0 and none before the first)

vars == <<clock, stack, present, slot, fired, abs>>

(***************************************************************************)
(* The steps of one call.  Reading the time, the lookup, and the argument *)
(* (with ExprHelper) and the final map update call helpers, inside which  *)
(* a nested invocation can run; the code between two of them is one step. *)
(***************************************************************************)
Code == <<"now", "lookup", "expr", "apply", "update">>
HelperOps == {"now", "lookup", "update"} \cup (IF ExprHelper THEN {"expr"} ELSE {})

Top(c) == stack[c][Len(stack[c])]
OpOf(c) == Code[Top(c).pc]
Running(c) == stack[c] # <<>>
SetTop(c, f) == stack' = [stack EXCEPT ![c][Len(stack[c])] = f]
Pop(c) == stack' = [stack EXCEPT ![c] = Front(@)]

(* The abstract t-series: an update of a newer epoch starts the bucket   *)
(* afresh, one of the same epoch joins it, an older one is dropped.        *)
AbsUpdate(a, f) ==
  LET u == [v |-> f.v, now |-> f.now]
  IN IF f.e > a.epoch THEN [epoch |-> f.e, ups |-> <<u>>]
     ELSE IF f.e = a.epoch THEN [a EXCEPT !.ups = Append(@, u)]
     ELSE a

Record(c, f) == abs' = [abs EXCEPT ![c][f.b] = AbsUpdate(@, f)]

-----------------------------------------------------------------------------
(* The kernel runs the probe on CPU c, idle or inside a helper call of    *)
(* the invocation on top of c's stack.                                     *)
Fire(c) ==
  /\ fired < MaxFires
  /\ Len(stack[c]) < MaxDepth
  /\ Running(c) => OpOf(c) \in HelperOps
  /\ stack' = [stack EXCEPT ![c] = Append(@, [pc |-> 1, now |-> 0, e |-> 0,
                 b |-> 0, hit |-> FALSE, local |-> Zero, v |-> 0])]
  /\ fired' = fired + 1
  /\ UNCHANGED <<clock, present, slot, abs>>

(* Step 1: now = createGetNsSwTAI(), epoch = now / interval_ns,            *)
(* bucket = epoch % num_intervals.                                         *)
Now(c) ==
  /\ Running(c) /\ OpOf(c) = "now"
  /\ SetTop(c, [Top(c) EXCEPT !.pc = 2, !.now = clock, !.e = Epoch(clock),
                              !.b = Bucket(Epoch(clock))])
  /\ UNCHANGED <<clock, present, slot, fired, abs>>

\* Step 3 (maybe_clear): zero value and meta of a slot of another epoch.
\* Mutant: the clear leaves meta, so min/max still see the old is_set.
MaybeClearValueOnly(s, e) ==
  IF Agg # "none" /\ s.epoch # e THEN [s EXCEPT !.value = 0] ELSE s

MaybeClear(s, e) ==
  IF Agg # "none" /\ s.epoch # e THEN [s EXCEPT !.value = 0, !.meta = 0] ELSE s

(* Step 2 and 3: the lookup; on success the pointer is the element's slot *)
(* and key_exists is 1, on failure it is a local struct {0, 0, epoch};    *)
(* then maybe_clear through the pointer.                                   *)
Lookup(c) ==
  /\ Running(c) /\ OpOf(c) = "lookup"
  /\ LET f == Top(c)
         hit == f.b \in present
     IN /\ SetTop(c, [f EXCEPT !.pc = 3, !.hit = hit,
                              !.local = Slot(0, 0, f.e)])
        /\ IF hit THEN slot' = [slot EXCEPT ![c][f.b] = MaybeClear(@, f.e)]
                  ELSE UNCHANGED slot
  /\ UNCHANGED <<clock, present, fired, abs>>

(* Step 4: visit(value_arg).                                               *)
Expr(c) ==
  /\ Running(c) /\ OpOf(c) = "expr"
  /\ \E v \in Vals : SetTop(c, [Top(c) EXCEPT !.pc = 4, !.v = v])
  /\ UNCHANGED <<clock, present, slot, fired, abs>>

\* CreateMinMax: store the value when is_set is not 1 or it wins (>=).
Wins(v, curr) == IF Agg = "max" THEN v >= curr ELSE curr >= v

(* The update of value and meta by the aggregation, then the store of the *)
(* epoch, all through the pointer.                                         *)
Applied(s, f) ==
  LET upd == CASE Agg = "avg" -> [s EXCEPT !.value = @ + f.v, !.meta = @ + 1]
               [] Agg = "sum" -> [s EXCEPT !.value = @ + f.v]
               [] Agg \in {"min", "max"} ->
                    IF s.meta = 1 /\ ~Wins(f.v, s.value) THEN s
                    ELSE [s EXCEPT !.value = f.v, !.meta = 1]
               [] Agg = "none" -> [s EXCEPT !.value = f.v, !.meta = f.now]
  IN [upd EXCEPT !.epoch = f.e]

(* Write through the pointer: into the element's slot (and the call is    *)
(* done), or into the local struct, which the update step then stores.     *)
Apply(c) ==
  /\ Running(c) /\ OpOf(c) = "apply"
  /\ LET f == Top(c)
     IN IF f.hit
          THEN /\ slot' = [slot EXCEPT ![c][f.b] = Applied(@, f)]
               /\ Pop(c)
               /\ Record(c, f)
          ELSE /\ SetTop(c, [f EXCEPT !.pc = 5, !.local = Applied(@, f)])
               /\ UNCHANGED <<slot, abs>>
  /\ UNCHANGED <<clock, present, fired>>

(* The update block: map_update_elem(BPF_ANY) of the local struct, which  *)
(* overwrites this CPU's slot of an existing element, or creates it with  *)
(* zeroes in the other CPUs' slots.                                        *)
Update(c) ==
  /\ Running(c) /\ OpOf(c) = "update"
  /\ LET f == Top(c)
     IN /\ present' = present \cup {f.b}
        /\ slot' = [d \in CPUs |-> [slot[d] EXCEPT ![f.b] =
                      IF d = c THEN f.local ELSE IF f.b \in present THEN @ ELSE Zero]]
        /\ Pop(c)
        /\ Record(c, f)
  /\ UNCHANGED <<clock, fired>>

(* Time passes, also while an invocation runs.                             *)
Tick ==
  /\ clock < MaxTime
  /\ clock' = clock + 1
  /\ UNCHANGED <<stack, present, slot, fired, abs>>

(* The model starts at StartTime, with no bucket written or, with          *)
(* InitPresent, each CPU's slot of each bucket written by one invocation   *)
(* in the last earlier epoch that maps to the bucket.                      *)
Prev(b) == CHOOSE e \in 1 .. Epoch(StartTime) - 1 :
             /\ Bucket(e) = b
             /\ \A d \in 1 .. Epoch(StartTime) - 1 : Bucket(d) = b => d <= e
Earlier(b, v) == [v |-> v, now |-> Prev(b) * Interval, e |-> Prev(b)]
NoUps == [epoch |-> 0, ups |-> <<>>]

Init ==
  /\ clock = StartTime
  /\ stack = [c \in CPUs |-> <<>>]
  /\ present = IF InitPresent THEN Buckets ELSE {}
  /\ fired = 0
  /\ \E w \in [CPUs \X Buckets -> Vals] :
       /\ slot = [c \in CPUs |-> [b \in Buckets |->
                   IF InitPresent THEN Applied(Slot(0, 0, Prev(b)), Earlier(b, w[c, b]))
                                  ELSE Zero]]
       /\ abs = [c \in CPUs |-> [b \in Buckets |->
                   IF InitPresent THEN AbsUpdate(NoUps, Earlier(b, w[c, b])) ELSE NoUps]]

Step(c) == Now(c) \/ Lookup(c) \/ Expr(c) \/ Apply(c) \/ Update(c)

Next == Tick \/ \E c \in CPUs : Fire(c) \/ Step(c)

\* A running BPF program runs to its end; time need not pass, probes need
\* not fire.
Spec == Init /\ [][Next]_vars /\ \A c \in CPUs : WF_vars(Step(c))
-----------------------------------------------------------------------------
\* The slot that the abstract t-series asks for.
AggValue(ups) ==
  LET vs == [i \in 1 .. Len(ups) |-> ups[i].v]
  IN CASE Agg \in {"sum", "avg"} -> FoldLeft(+, 0, vs)
       [] Agg = "min"            -> Min(ToSet(vs))
       [] Agg = "max"            -> Max(ToSet(vs))
       [] Agg = "none"           -> Last(vs)

AggMeta(ups) ==
  CASE Agg = "avg"             -> Len(ups)
    [] Agg = "sum"             -> 0
    [] Agg \in {"min", "max"}  -> 1
    [] Agg = "none"            -> Last(ups).now

Expected(a) ==
  IF a.ups = <<>> THEN Zero ELSE Slot(AggValue(a.ups), AggMeta(a.ups), a.epoch)

TypeOK ==
  /\ clock \in StartTime .. MaxTime
  /\ present \subseteq Buckets /\ fired \in 0 .. MaxFires
  /\ \A c \in CPUs : \A b \in Buckets :
       slot[c][b].epoch = 0 \/ slot[c][b].epoch % NumIntervals = b

(* When CPU c runs no invocation, each of its slots holds the aggregate   *)
(* of exactly the updates it made to that bucket in the latest epoch it   *)
(* used the bucket for, stamped with that epoch: the reset on a new epoch *)
(* (epoch != old_epoch, before the update), the BPF_ANY store of the      *)
(* local struct after a missed lookup and the zeroes another CPU's        *)
(* creation of the element leaves neither lose nor mix epochs.            *)
TSeriesAccurate ==
  \A c \in CPUs : ~Running(c) =>
    \A b \in present : slot[c][b] = Expected(abs[c][b])
=============================================================================
