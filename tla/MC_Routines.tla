----------------------------- MODULE MC_Routines -----------------------------
(***************************************************************************)
(* The routines checked input by input, in one model: a behaviour starts  *)
(* one of them on one of its inputs, the others staying at a fixed idle   *)
(* state that their properties do not look at:                            *)
(*   A  AggArith: log2() and linear() of hist()/lhist(), avg()'s division;*)
(*   L  Loops: while, break/continue, for over ranges and maps;          *)
(*   S  StringOps: the inline string, buffer and array comparisons.      *)
(***************************************************************************)
EXTENDS Integers, Sequences

VARIABLES
  inst,                                          \* "A", "L" or "S"
  in,                                            \* instance A
  kind, lo, hi, brk, skip, order, pc, i, idx, nr, n, seen, err, \* instance L
  sin                                            \* instance S

A == INSTANCE AggArith WITH
       LogW <- 3, MaxK <- 5, LinBounds <- {0, 1, 2, 5, 7, 100},
       LinSteps <- {1, 2, 3, 7}, Counts <- {0, 1, 2, 3, 5, 255}

L == INSTANCE Loops WITH
       W64 <- 8, W32 <- 4, MaxLoops <- 5, Kinds <- {"while", "range", "map"},
       Starts <- {0, 254}, Ends <- {0, 1, 4, 254}, Marks <- {0, 2},
       MapKeys <- {1, 2}

S == INSTANCE StringOps WITH
       Bytes <- {0, 1, 2}, MaxSize <- 3, MaxN <- 4, Elems <- {0, 1},
       ArrLen <- 2, BufLen <- 2

lvars == <<kind, lo, hi, brk, skip, order, pc, i, idx, nr, n, seen, err>>
vars == <<inst, in, lvars, sin>>

\* The idle states.
AIdle == in = [f |-> "avg", x |-> 0, count |-> 1, signed |-> FALSE]
LIdle == /\ kind = "while" /\ lo = 0 /\ hi = 0 /\ brk = -1 /\ skip = -1
         /\ order = <<1, 2>> /\ pc = "done" /\ i = 0 /\ idx = 0 /\ nr = 0
         /\ n = 0 /\ seen = <<>> /\ err = FALSE
SIdle == sin = [f |-> "arrayeq", a |-> <<0, 0>>, b |-> <<0, 0>>, op |-> "=="]

Init ==
  \/ inst = "A" /\ A!Init /\ LIdle /\ SIdle
  \/ inst = "L" /\ L!Init /\ AIdle /\ SIdle
  \/ inst = "S" /\ S!Init /\ AIdle /\ LIdle

RunA(act) == inst = "A" /\ act /\ UNCHANGED <<inst, lvars, sin>>
RunL(act) == inst = "L" /\ act /\ UNCHANGED <<inst, in, sin>>
RunS(act) == inst = "S" /\ act /\ UNCHANGED <<inst, in, lvars>>

Next == RunA(A!Next) \/ RunL(L!Next) \/ RunS(S!Next)

Spec == Init /\ [][Next]_vars

\* The type invariant of the instance a behaviour runs.
TypeOK ==
  /\ inst \in {"A", "L", "S"}
  /\ inst = "A" => A!TypeOK
  /\ inst = "L" => L!TypeOK
  /\ inst = "S" => S!TypeOK

(* Log2CorrectSigned of AggArith: hist() buckets every signed value as    *)
(* the log2 comment defines.                                               *)
Log2CorrectSigned == inst = "A" => A!Log2CorrectSigned

(* LinearCorrectSigned of AggArith: lhist() puts a signed value into the  *)
(* bucket whose range holds it.                                            *)
LinearCorrectSigned == inst = "A" => A!LinearCorrectSigned

(* AvgCorrect of AggArith: avg()'s read truncates toward zero with the    *)
(* sign of the total, the most negative total included.                   *)
AvgCorrect == inst = "A" => A!AvgCorrect

(* LoopCorrect of Loops: a loop runs its body for exactly the values      *)
(* before the break less the continued one, counted through the context   *)
(* pointer, or reports bpf_loop's error.                                   *)
LoopCorrect == inst = "L" => L!LoopCorrect

(* CompareCorrect of StringOps: string ==/!=, strncmp(), strcontains()    *)
(* and integer array ==/!= agree with their operands' values.             *)
CompareCorrect == inst = "S" => S!CompareCorrect
=============================================================================
