-------------------------------- MODULE Loops --------------------------------
(***************************************************************************)
(* The loops of a probe body as CodegenLLVM emits them:                    *)
(*   while   visit(While): blocks while_cond, while_body, while_end, with  *)
(*           loops_ = (while_cond, while_end);                             *)
(*   range   visit(For, Range) and IRBuilderBPF::CreateForRange: the       *)
(*           64-bit count end - start, cast to 32 bits, tested > 0 signed, *)
(*           passed to bpf_loop with a callback whose index plus the       *)
(*           start (kept in the context) is the loop variable;             *)
(*   map     visit(For, Map) and CreateForEachMapElem: the callback runs   *)
(*           for each element of the map, with (key, value) as variable.   *)
(* A callback's body is built by createForCallback with loops_ =           *)
(* (for_continue, for_break), whose blocks return 0 and 1; captured       *)
(* variables reach it as pointers in the context struct (createForContext).*)
(*                                                                         *)
(* The body run each iteration is the script                               *)
(*     if ($v == brk) { break }  if ($v == skip) { continue }              *)
(*     $n++;  <record $v>                                                  *)
(* with $n a variable of the probe captured by the loop.  A while loop     *)
(* steps its own variable first: $i = start; while ($i < end) { $i++; ... }.*)
(* Registers are W64 bits wide (64 in the code) and the bpf_loop count    *)
(* W32 bits (32); MaxLoops is the kernel's BPF_MAX_LOOPS.                  *)
(***************************************************************************)
EXTENDS Integers, Sequences, SequencesExt

CONSTANTS
  W64, W32,     \* register and bpf_loop count widths
  MaxLoops,     \* bpf_loop refuses more iterations (-E2BIG)
  Kinds,        \* loop kinds to check: subset of {"while", "range", "map"}
  Starts, Ends, \* range bounds, as W64-bit patterns
  Marks,        \* values the body may break or continue at
  MapKeys       \* the keys of the iterated map

NoMark == -1
M64 == 2^W64
M32 == 2^W32
Signed(p, w) == IF p >= 2^(w - 1) THEN p - 2^w ELSE p

VARIABLES
  kind,   \* the loop of the body
  lo, hi, \* its start and end
  brk,    \* the value it breaks at (NoMark: none)
  skip,   \* the value it continues at (NoMark: none)
  order,  \* the order bpf_for_each_map_elem visits the keys in
  pc,     \* "entry", "cond", "body" (while), "call" (in bpf_loop or
          \* bpf_for_each_map_elem), "done"
  i,      \* the while loop's $i
  idx,    \* the helper's callback index
  nr,     \* the number of callbacks the helper makes
  n,      \* the captured variable $n
  seen,   \* the values recorded, in order
  err     \* a helper error was reported

vars == <<kind, lo, hi, brk, skip, order, pc, i, idx, nr, n, seen, err>>

Init ==
  /\ kind \in Kinds /\ lo \in Starts /\ hi \in Ends
  /\ brk \in Marks \cup {NoMark} /\ skip \in Marks \cup {NoMark}
  /\ order \in SetToSeqs(MapKeys)
  /\ pc = "entry" /\ i = 0 /\ idx = 0 /\ nr = 0 /\ n = 0 /\ seen = <<>>
  /\ err = FALSE

(* visit(Jump): break branches to the second block of loops_.back(),       *)
(* continue to the first.                                                  *)
Jump(targets, j) == IF j = "break" THEN targets[2] ELSE targets[1]

\* The loops_ entries of a while loop and of a callback, and the value the
\* callback's blocks return.
WhileTargets == <<"cond", "done">>
ForTargets == <<"for_continue", "for_break">>
RetOf(block) == IF block = "for_break" THEN 1 ELSE 0

\* Where the body leaves for value v: a jump, or the end of the body.
Outcome(v) == CASE v = brk -> "break" [] v = skip -> "continue" [] OTHER -> "end"

\* $n++ and the record, when the body runs to its end; the increment is a
\* store through the pointer the context holds.
\* Mutant: the context holds a copy of $n, so the callback's increment is lost.
RecordByValue(v, inCallback) ==
  /\ n' = IF inCallback THEN n ELSE n + 1
  /\ seen' = Append(seen, v)
Record(v, inCallback) == n' = n + 1 /\ seen' = Append(seen, v)

(* while: the condition block compares $i < end (signed); the body steps   *)
(* $i and runs the script, then branches back to while_cond.              *)
WhileEnter ==
  /\ pc = "entry" /\ kind = "while"
  /\ i' = lo /\ pc' = "cond"
  /\ UNCHANGED <<kind, lo, hi, brk, skip, order, idx, nr, n, seen, err>>

WhileCond ==
  /\ pc = "cond"
  /\ pc' = IF Signed(i, W64) < Signed(hi, W64) THEN "body" ELSE "done"
  /\ UNCHANGED <<kind, lo, hi, brk, skip, order, i, idx, nr, n, seen, err>>

\* Mutant: $i++ computed without the register's wrap-around.
WhileBodyNoWrap ==
  /\ pc = "body"
  /\ LET v == i + 1
         o == Outcome(v)
     IN /\ i' = v
        /\ IF o = "end"
             THEN Record(v, FALSE) /\ pc' = "cond"
             ELSE pc' = Jump(WhileTargets, o) /\ UNCHANGED <<n, seen>>
  /\ UNCHANGED <<kind, lo, hi, brk, skip, order, idx, nr, err>>
WhileBody ==
  /\ pc = "body"
  /\ LET v == (i + 1) % M64
         o == Outcome(v)
     IN /\ i' = v
        /\ IF o = "end"
             THEN Record(v, FALSE) /\ pc' = "cond"
             ELSE pc' = Jump(WhileTargets, o) /\ UNCHANGED <<n, seen>>
  /\ UNCHANGED <<kind, lo, hi, brk, skip, order, idx, nr, err>>

(* for over a range: iters = end - start in 64 bits, cast to 32 bits; the *)
(* helper is called only when that is > 0 signed, and refuses a count     *)
(* above MaxLoops with an error that CreateHelperErrorCond reports.       *)
\* visit(For, Range): iters = end - start, a 64-bit subtraction.
Iters == (hi - lo) % M64

RangeEnter ==
  /\ pc = "entry" /\ kind = "range"
  /\ LET count == Iters % M32
     IN CASE Signed(count, W32) <= 0 ->
               pc' = "done" /\ UNCHANGED <<nr, err>>
          [] count > MaxLoops ->
               pc' = "done" /\ err' = TRUE /\ UNCHANGED nr
          [] OTHER ->
               pc' = "call" /\ nr' = count /\ UNCHANGED err
  /\ UNCHANGED <<kind, lo, hi, brk, skip, order, i, idx, n, seen>>

\* for over a map: bpf_for_each_map_elem calls back once per element.
MapEnter ==
  /\ pc = "entry" /\ kind = "map"
  /\ nr' = Len(order)
  /\ pc' = IF order = <<>> THEN "done" ELSE "call"
  /\ UNCHANGED <<kind, lo, hi, brk, skip, order, i, idx, n, seen, err>>

(* One callback: the loop variable is start + index (range) or the key;   *)
(* the body runs; a return of 1 (for_break) or the last index ends the     *)
(* helper.                                                                 *)
\* The callback's declaration of the loop variable for callback k: the
\* start kept in the context plus the index, or the element's key.
LoopVar(k) == IF kind = "range" THEN (lo + k) % M64 ELSE order[k + 1]

Callback ==
  /\ pc = "call"
  /\ LET v == LoopVar(idx)
         o == Outcome(v)
         ret == IF o = "end" THEN 0 ELSE RetOf(Jump(ForTargets, o))
     IN /\ IF o = "end" THEN Record(v, TRUE) ELSE UNCHANGED <<n, seen>>
        /\ IF ret = 1 \/ idx + 1 = nr
             THEN pc' = "done" /\ UNCHANGED idx
             ELSE pc' = "call" /\ idx' = idx + 1
  /\ UNCHANGED <<kind, lo, hi, brk, skip, order, i, nr, err>>

Next == WhileEnter \/ WhileCond \/ WhileBody \/ RangeEnter \/ MapEnter \/ Callback

Spec == Init /\ [][Next]_vars

-----------------------------------------------------------------------------
(***************************************************************************)
(* Reference: the values the loop's variable takes, in order, and those   *)
(* the body records: the ones before the first brk, less skip.            *)
(***************************************************************************)
RangeLen == Signed(hi, W64) - Signed(lo, W64)

Walk ==
  CASE kind = "while" -> [k \in 1 .. RangeLen |-> (lo + k) % M64]
    [] kind = "range" -> [k \in 1 .. RangeLen |-> (lo + k - 1) % M64]
    [] OTHER          -> order

Expected ==
  LET upTo == {k \in 1 .. Len(Walk) : Walk[k] = brk}
      run == IF upTo = {} THEN Walk
             ELSE SubSeq(Walk, 1, Min(upTo) - 1)
  IN SelectSeq(run, LAMBDA v : v # skip)

TypeOK ==
  /\ kind \in Kinds /\ pc \in {"entry", "cond", "body", "call", "done"}
  /\ i \in 0 .. M64 - 1 /\ idx \in 0 .. MaxLoops /\ nr \in 0 .. M32 - 1
  /\ n \in Nat /\ seen \in Seq(0 .. M64 - 1) /\ err \in BOOLEAN

(* A for loop over start..end runs its body once for each value from start *)
(* to end - 1, in order, or, when that is more than bpf_loop allows, the   *)
(* helper's error is reported; while and map loops run for each value and *)
(* key.  break ends the loop, continue goes on with the next value, and    *)
(* $n, captured by the callback through the context, counts the bodies    *)
(* that ran to their end.  (CreateForRange's cast of the count to 32 bits *)
(* and its signed test, createForCallback's return values, visit(Jump).)  *)
LoopCorrect ==
  pc = "done" =>
    IF kind = "range" /\ RangeLen > MaxLoops
      THEN err
      ELSE ~err /\ seen = Expected /\ n = Len(Expected)
=============================================================================
