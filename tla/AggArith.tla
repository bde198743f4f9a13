------------------------------ MODULE AggArith ------------------------------
(***************************************************************************)
(* The integer arithmetic that bpftrace's generated BPF code performs for  *)
(* aggregations, at a reduced register width W (the code uses 64 bits):   *)
(*                                                                         *)
(*   Log2      the inlined log2(n, k) function of hist()                   *)
(*             (CodegenLLVM::createLog2Function)                           *)
(*   Linear    the inlined linear(value, min, max, step) function of       *)
(*             lhist() (CodegenLLVM::createLinearFunction)                 *)
(*   AvgDiv    the final division of an avg()/stats() read               *)
(*             (IRBuilderBPF::CreatePerCpuMapAggElems)                     *)
(*                                                                         *)
(* Register contents are W-bit patterns 0 .. 2^W-1; a signed comparison   *)
(* reads a pattern as a two's complement number (SignedOf).  Each          *)
(* operator is checked over every input against a reference definition    *)
(* of what it computes, written from the function's own comment or the    *)
(* mathematical meaning of the aggregation.                                *)
(***************************************************************************)
EXTENDS Integers

CONSTANTS
  LogW,      \* log2 of the register width; the code has LogW = 6
  MaxK,      \* largest hist() precision k (0 .. 5 in bpftrace)
  LinBounds, \* candidate lhist() min/max arguments
  LinSteps,  \* candidate lhist() step arguments
  Counts     \* candidate avg() counts

W == 2^LogW
Word == 0 .. 2^W - 1
SignedOf(p) == IF p >= 2^(W - 1) THEN p - 2^W ELSE p
PatternOf(x) == x % 2^W

-----------------------------------------------------------------------------
(* hist(): log2(n, k).  The position of the leftmost 1 is found by a       *)
(* binary search over the word: for i = LogW-1 .. 0, if n >= 2^(2^i)       *)
(* shift n right by 2^i and add 2^i to l.                                   *)
\* Mutant: the threshold test is strict (n > 2^(2^i)).
RECURSIVE LeftmostBitGT(_, _, _)
LeftmostBitGT(n, l, i) ==
  IF i < 0 THEN l
  ELSE LET shift == IF n > 2^(2^i) THEN 2^i ELSE 0
       IN LeftmostBitGT(n \div 2^shift, l + shift, i - 1)

RECURSIVE LeftmostBit(_, _, _)
LeftmostBit(n, l, i) ==
  IF i < 0 THEN l
  ELSE LET shift == IF n >= 2^(2^i) THEN 2^i ELSE 0
       IN LeftmostBit(n \div 2^shift, l + shift, i - 1)

Log2(n, k) ==
  LET mask == 2^k - 1
  IN IF SignedOf(n) < 0 THEN 0
     ELSE IF n <= mask THEN n + 1
     ELSE LET l == LeftmostBit(n, 0, LogW - 1) - k
              x == (n \div 2^l) % 2^k
          IN (l + 1) * 2^k + x + 1

(* lhist(): linear(value, min, max, step), signed comparisons and         *)
(* unsigned subtraction and division.                                      *)
\* Mutant: values above max are not clamped into the last bucket.
LinearNoClamp(value, min, max, step) ==
  IF SignedOf(value) < SignedOf(min) THEN 0
  ELSE PatternOf(value - min) \div step + 1

Linear(value, min, max, step) ==
  IF SignedOf(value) < SignedOf(min) THEN 0
  ELSE IF SignedOf(value) > SignedOf(max)
    THEN PatternOf(max - min) \div step + 1
    ELSE PatternOf(value - min) \div step + 1

(* avg() read: total / count, where a signed total is negated, divided    *)
(* unsigned and negated back (BPF has no signed division); the BPF        *)
(* division by zero yields 0.                                              *)
UDiv(a, b) == IF b = 0 THEN 0 ELSE a \div b

\* Mutant: the signed total is divided as an unsigned pattern.
AvgDivUnsigned(total, count, signed) == UDiv(total, count)

\* Mutant: the negated quotient is not wrapped back into the register.
AvgDivNoWrap(total, count, signed) ==
  IF signed /\ SignedOf(total) < 0
    THEN -UDiv(PatternOf(-total), count)
    ELSE UDiv(total, count)

AvgDiv(total, count, signed) ==
  IF signed /\ SignedOf(total) < 0
    THEN PatternOf(-UDiv(PatternOf(-total), count))
    ELSE UDiv(total, count)

-----------------------------------------------------------------------------
(* Reference definitions.                                                  *)

\* floor(log2(x)) for x >= 1
FloorLog2(x) == CHOOSE p \in 0 .. W : 2^p <= x /\ x < 2^(p + 1)

(* The bucket of the comment of createLog2Function: 0 for a negative       *)
(* value, 1 + value below 2^k, otherwise 1 + concat(A, B) where A is the   *)
(* (1-based) position of the leftmost 1 minus k and B the k bits after it. *)
Log2Ref(x, k) ==
  IF x < 0 THEN 0
  ELSE IF x < 2^k THEN x + 1
  ELSE LET p == FloorLog2(x)
           A == p + 1 - k
           B == x \div 2^(p - k) - 2^k
       IN 1 + A * 2^k + B

(* The lhist bucket of x: bucket 0 below min, bucket b >= 1 covering       *)
(* [min + (b-1)*step, min + b*step), the last bucket open above.           *)
LinearRef(x, min, max, step) ==
  LET top == 1 + (max - min) \div step
  IN IF x < min THEN 0
     ELSE CHOOSE b \in 1 .. top : /\ min + (b - 1) * step <= x
                                  /\ b = top \/ x < min + b * step

\* Truncating signed division, 0 for a zero count, as a W-bit pattern.
AvgRef(t, count) ==
  IF count = 0 THEN 0
  ELSE PatternOf(IF t < 0 THEN -((-t) \div count) ELSE t \div count)

-----------------------------------------------------------------------------
(* One state per input: TLC checks the invariants on every one.           *)
VARIABLE in

Inputs ==
       [f : {"log2"}, x : Word, k : 0 .. MaxK, signed : BOOLEAN]
  \cup [f : {"linear"}, x : Word, min : LinBounds, max : LinBounds,
        step : LinSteps, signed : BOOLEAN]
  \cup [f : {"avg"}, x : Word, count : Counts, signed : BOOLEAN]

\* The mathematical value of the argument: its type decides how the
\* pattern promoted to 64 bits is read.
Value(i) == IF i.signed THEN SignedOf(i.x) ELSE i.x

Init == /\ in \in Inputs
        /\ in.f = "linear" => in.min < in.max

Next == UNCHANGED in

Spec == Init /\ [][Next]_in

(* Every result is a register value: the bucket indexes and the average   *)
(* are W-bit patterns.                                                     *)
TypeOK ==
  /\ in \in Inputs
  /\ in.f = "log2" => Log2(in.x, in.k) \in Word
  /\ in.f = "linear" => Linear(in.x, in.min, in.max, in.step) \in Word
  /\ in.f = "avg" => AvgDiv(in.x, in.count, in.signed) \in Word

(* hist() puts every value of a signed argument, and every value of an    *)
(* unsigned one, into the bucket the log2 comment defines.                 *)
Log2Correct ==
  in.f = "log2" => Log2(in.x, in.k) = Log2Ref(Value(in), in.k)

(* The same, for signed arguments only.                                    *)
Log2CorrectSigned ==
  in.f = "log2" /\ in.signed => Log2(in.x, in.k) = Log2Ref(Value(in), in.k)

(* lhist() puts the value of a signed argument into the bucket whose       *)
(* range holds it, the last bucket being open above.                       *)
LinearCorrectSigned ==
  in.f = "linear" /\ in.signed =>
    Linear(in.x, in.min, in.max, in.step)
      = LinearRef(Value(in), in.min, in.max, in.step)

(* The avg() read divides the summed total by the summed count with the    *)
(* sign of the total, truncating toward zero, including the most negative  *)
(* total, whose negation overflows.                                        *)
AvgCorrect ==
  in.f = "avg" => AvgDiv(in.x, in.count, in.signed) = AvgRef(Value(in), in.count)
=============================================================================
