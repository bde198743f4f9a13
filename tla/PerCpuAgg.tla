------------------------------ MODULE PerCpuAgg ------------------------------
(***************************************************************************)
(* One key of a per-CPU aggregation map, updated by the BPF code that     *)
(* CodegenLLVM::visit(Call) emits for count()/sum()/min()/max()/avg() and *)
(* delete(), by invocations running in parallel on several CPUs (and      *)
(* nested on one CPU inside a helper call), and read back by the loop of  *)
(* IRBuilderBPF::CreatePerCpuMapAggElems.                                  *)
(*                                                                         *)
(* The map is a per-CPU hash (the key may be absent) or a per-CPU array   *)
(* (the key always exists).  Kernel semantics the code relies on:         *)
(*  - map_lookup_elem returns a pointer to this CPU's slot of the element; *)
(*  - map_update_elem from a BPF program writes only this CPU's slot; on a *)
(*    per-CPU hash a new element gets zeroes in the other CPUs' slots;     *)
(*  - map_delete_elem removes the element; a pointer taken before still    *)
(*    points at its memory, which a preallocated map may hand to the next  *)
(*    element it creates for the key.                                      *)
(*                                                                         *)
(* A slot is a pair: <<value, 0>> for count/sum, <<value, is_set>> for     *)
(* min/max, <<total, count>> for avg.                                      *)
(***************************************************************************)
EXTENDS Integers, Sequences, FiniteSetsExt, Functions

CONSTANTS
  NumCpus,     \* the CPUs are 0 .. NumCpus-1 (the read loop's order)
  Kind,        \* "count", "sum", "min", "max" or "avg"
  MapKind,     \* "hash" (keyed map) or "array" (per-CPU array)
  Vals,        \* arguments of sum()/min()/max()/avg()
  CanDelete,   \* the probe may also run delete() on the key
  ExprHelper,  \* evaluating the argument of min/max/avg calls a helper
  MaxFires,    \* bound on the number of probe firings
  MaxDepth     \* bound on the nesting depth on one CPU

ASSUME /\ NumCpus \in Nat \ {0}
       /\ Kind \in {"count", "sum", "min", "max", "avg"}
       /\ MapKind \in {"hash", "array"}
       /\ CanDelete \in BOOLEAN /\ ExprHelper \in BOOLEAN
       /\ MaxFires \in Nat /\ MaxDepth \in Nat \ {0}

CPUs == 0 .. NumCpus - 1
\* count() always adds 1 (b_.getInt64(1)).
ArgVals == IF Kind = "count" THEN {1} ELSE Vals
Zero == <<0, 0>>

VARIABLES
  stack,    \* stack[c]: frames of the invocations running on CPU c
  present,  \* the key's element exists
  gen,      \* number of elements created for the key so far
  slot,     \* slot[c]: CPU c's slot of the element
  fired,    \* history: number of probe firings
  contrib   \* history: contrib[v] = updates with argument v that took
            \* effect since the key was last deleted

vars == <<stack, present, gen, slot, fired, contrib>>

(***************************************************************************)
(* The operations of one call, in the order the code emits them.  count() *)
(* and sum() evaluate their argument before CreatePerCpuMapElemAdd looks  *)
(* the key up; min/max/avg look it up first and evaluate the argument     *)
(* after, so a helper in the argument runs between the lookup and the     *)
(* write through the returned pointer.                                     *)
(***************************************************************************)
AggCode ==
  IF Kind \notin {"count", "sum"} /\ ExprHelper
    THEN <<"lookup", "expr", "apply", "init">>
    ELSE <<"lookup", "apply", "init">>

CodeOf(f) == IF f.op = "agg" THEN AggCode ELSE <<"delete">>

\* Operations that call a BPF helper: a nested invocation can run inside.
HelperOps == {"lookup", "expr", "init", "delete"}

Top(c) == stack[c][Len(stack[c])]
OpOf(c) == CodeOf(Top(c))[Top(c).pc]
Running(c) == stack[c] # <<>>
SetTop(c, f) == stack' = [stack EXCEPT ![c][Len(stack[c])] = f]
Advance(c) == SetTop(c, [Top(c) EXCEPT !.pc = @ + 1])
Pop(c) == stack' = [stack EXCEPT ![c] = SubSeq(@, 1, Len(@) - 1)]

\* The element the lookup of generation g returned is still the key's.
Alive(g) == present /\ gen = g

\* The value written by the lookup-failure path: CreatePerCpuMapElemInit
\* for count/sum, the {expr, 1} struct for min/max/avg.
InitVal(v) == IF Kind \in {"count", "sum"} THEN <<v, 0>> ELSE <<v, 1>>

\* CreateMinMax: store v when the slot is unset or v wins (>=, <=).
Wins(v, curr) == IF Kind = "max" THEN v >= curr ELSE curr >= v

\* Mutant: min/max count the is_set word up instead of storing 1.
SlotAddIncSet(s, v) ==
  CASE Kind \in {"count", "sum"} -> <<s[1] + v, s[2]>>
    [] Kind \in {"min", "max"}   -> IF s[2] = 1 /\ ~Wins(v, s[1]) THEN s
                                                               ELSE <<v, s[2] + 1>>
    [] Kind = "avg"              -> <<s[1] + v, s[2] + 1>>

\* Mutant: avg adds the value to the count and 1 to the total.
SlotAddSwap(s, v) ==
  CASE Kind \in {"count", "sum"} -> <<s[1] + v, s[2]>>
    [] Kind \in {"min", "max"}   -> IF s[2] = 1 /\ ~Wins(v, s[1]) THEN s
                                                               ELSE <<v, 1>>
    [] Kind = "avg"              -> <<s[1] + 1, s[2] + v>>

(* The lookup-success path: load through the pointer, combine, store.     *)
SlotAdd(s, v) ==
  CASE Kind \in {"count", "sum"} -> <<s[1] + v, s[2]>>
    [] Kind \in {"min", "max"}   -> IF s[2] = 1 /\ ~Wins(v, s[1]) THEN s
                                                               ELSE <<v, 1>>
    [] Kind = "avg"              -> <<s[1] + v, s[2] + 1>>

NoContrib == [v \in ArgVals |-> 0]
Record(v) == contrib' = [contrib EXCEPT ![v] = @ + 1]

Init ==
  /\ stack = [c \in CPUs |-> <<>>]
  /\ present = (MapKind = "array")
  /\ gen = 0
  /\ slot = [c \in CPUs |-> Zero]
  /\ fired = 0
  /\ contrib = NoContrib

Frame(op, v) == [op |-> op, v |-> v, pc |-> 1, hit |-> FALSE, g |-> 0]

\* What one firing calls: the aggregation with some argument, or delete().
Calls == {Frame("agg", v) : v \in ArgVals}
           \cup (IF CanDelete THEN {Frame("del", 0)} ELSE {})

(* The kernel runs the probe on CPU c, idle or inside a helper call of    *)
(* the invocation on top of c's stack.                                     *)
Fire(c) ==
  /\ fired < MaxFires
  /\ Len(stack[c]) < MaxDepth
  /\ IF Running(c) THEN OpOf(c) \in HelperOps ELSE TRUE
  /\ \E f \in Calls : stack' = [stack EXCEPT ![c] = Append(@, f)]
  /\ fired' = fired + 1
  /\ UNCHANGED <<present, gen, slot, contrib>>

(* map_lookup_elem: remember whether it found the element, and which.     *)
Lookup(c) ==
  /\ Running(c) /\ OpOf(c) = "lookup"
  /\ SetTop(c, [Top(c) EXCEPT !.pc = @ + 1, !.hit = present, !.g = gen])
  /\ UNCHANGED <<present, gen, slot, fired, contrib>>

(* Evaluating the argument of min/max/avg, which calls a helper.          *)
Expr(c) ==
  /\ Running(c) /\ OpOf(c) = "expr"
  /\ Advance(c)
  /\ UNCHANGED <<present, gen, slot, fired, contrib>>

(* The branch on the lookup result.  On success, the load, combine and    *)
(* store through the pointer, with no helper in between.  If the element  *)
(* was deleted since the lookup, the store goes to its old memory: lost,  *)
(* or, when the map reused that memory for the key's new element, into    *)
(* the new element.                                                        *)
Apply(c) ==
  /\ Running(c) /\ OpOf(c) = "apply"
  /\ LET f == Top(c)
         write == /\ slot' = [slot EXCEPT ![c] = SlotAdd(@, f.v)]
                  /\ Record(f.v)
     IN IF ~f.hit
          THEN Advance(c) /\ UNCHANGED <<slot, contrib>>
          ELSE /\ Pop(c)
               /\ IF Alive(f.g) THEN write
                  ELSE \/ UNCHANGED <<slot, contrib>>
                       \/ present /\ write
  /\ UNCHANGED <<present, gen, fired>>

(* The lookup-failure path: map_update_elem(BPF_ANY) of the initial       *)
(* value.  An existing element gets this CPU's slot overwritten; a new    *)
(* one is created with zeroes in the other CPUs' slots.                    *)
InitElem(c) ==
  /\ Running(c) /\ OpOf(c) = "init"
  /\ Pop(c)
  /\ Record(Top(c).v)
  /\ IF present
       THEN /\ slot' = [slot EXCEPT ![c] = InitVal(Top(c).v)]
            /\ UNCHANGED <<present, gen>>
       ELSE /\ present' = TRUE
            /\ gen' = gen + 1
            /\ slot' = [d \in CPUs |-> IF d = c THEN InitVal(Top(c).v) ELSE Zero]
  /\ UNCHANGED fired

(* delete(): map_delete_elem on a hash (an absent key is a helper error,  *)
(* reported as an event and not modelled further); on an array, which    *)
(* cannot be cleared, map_update_elem of a zero value.  Either way the    *)
(* script's value is reset.                                                *)
Delete(c) ==
  /\ Running(c) /\ OpOf(c) = "delete"
  /\ Pop(c)
  /\ IF MapKind = "array"
       THEN /\ slot' = [slot EXCEPT ![c] = Zero]
            /\ contrib' = NoContrib
            /\ UNCHANGED present
       ELSE IF present
       THEN /\ present' = FALSE
            /\ slot' = [d \in CPUs |-> Zero]
            /\ contrib' = NoContrib
       ELSE UNCHANGED <<present, slot, contrib>>
  /\ UNCHANGED <<gen, fired>>

Step(c) == Lookup(c) \/ Expr(c) \/ Apply(c) \/ InitElem(c) \/ Delete(c)

Next == \E c \in CPUs : Fire(c) \/ Step(c)

Spec == Init /\ [][Next]_vars /\ \A c \in CPUs : WF_vars(Step(c))

-----------------------------------------------------------------------------
(***************************************************************************)
(* The read-back loop of CreatePerCpuMapAggElems: for i = 0, 1, ... look  *)
(* up CPU i's slot, stop at the first failed lookup (an absent key fails  *)
(* at i = 0: a runtime error and the initial accumulators), and fold the  *)
(* slot into <<val_1, val_2>>.                                             *)
(***************************************************************************)
\* createPerCpuMinMax: take the slot if it is set and the result is unset
\* or the slot is strictly better.
Beats(a, b) == IF Kind = "max" THEN a > b ELSE a < b

ReadSlot(acc, s) ==
  CASE Kind \in {"count", "sum"} -> <<acc[1] + s[1], acc[2]>>
    [] Kind \in {"min", "max"}   ->
         IF s[2] = 1 /\ (acc[2] # 1 \/ Beats(s[1], acc[1])) THEN <<s[1], 1>>
                                                           ELSE acc
    [] Kind = "avg"              -> <<acc[1] + s[1], acc[2] + s[2]>>

\* Mutant: the loop stops one CPU early.
RECURSIVE ReadLoopShort(_, _)
ReadLoopShort(i, acc) ==
  IF i >= NumCpus - 1 \/ ~present THEN acc
  ELSE ReadLoopShort(i + 1, ReadSlot(acc, slot[i]))

RECURSIVE ReadLoop(_, _)
ReadLoop(i, acc) ==
  IF i >= NumCpus \/ ~present THEN acc ELSE ReadLoop(i + 1, ReadSlot(acc, slot[i]))

ReadAgg == ReadLoop(0, Zero)

\* The abstract value: the aggregate of the updates that took effect.
Total == MapThenSumSet(LAMBDA v : v * contrib[v], ArgVals)
Updates == MapThenSumSet(LAMBDA v : contrib[v], ArgVals)
Used == {v \in ArgVals : contrib[v] > 0}

AbsValue ==
  CASE Kind \in {"count", "sum"} -> <<Total, 0>>
    [] Kind = "avg"              -> <<Total, Updates>>
    [] Kind \in {"min", "max"}   ->
         IF Used = {} THEN Zero
         ELSE <<IF Kind = "max" THEN Max(Used) ELSE Min(Used), 1>>

-----------------------------------------------------------------------------
\* The second word of a slot: unused by count/sum, the is_set flag of
\* min/max, the number of values of avg.
SecondWord ==
  CASE Kind \in {"count", "sum"} -> {0}
    [] Kind \in {"min", "max"}   -> {0, 1}
    [] Kind = "avg"              -> 0 .. MaxFires

TypeOK ==
  /\ \A c \in CPUs : /\ Len(stack[c]) <= MaxDepth
                     /\ \A i \in 1 .. Len(stack[c]) :
                          stack[c][i].pc \in 1 .. Len(CodeOf(stack[c][i]))
  /\ present \in BOOLEAN
  /\ gen \in 0 .. MaxFires
  /\ slot \in [CPUs -> Int \X SecondWord]
  /\ fired \in 0 .. MaxFires
  /\ contrib \in [ArgVals -> 0 .. MaxFires]

(* The value the read-back loop returns is the aggregate of exactly the    *)
(* updates that took effect since the key was last deleted: no update of  *)
(* one CPU (or of an invocation nested on it) is overwritten by another's *)
(* initialisation, a write through a pointer taken before a delete never  *)
(* resurrects a deleted value, and delete() leaves nothing behind on any  *)
(* CPU.                                                                    *)
AggMatches == ReadAgg = AbsValue
=============================================================================
