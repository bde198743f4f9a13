------------------------------ MODULE StringOps ------------------------------
(***************************************************************************)
(* The comparison routines that IRBuilderBPF emits inline, and the         *)
(* operators of CodegenLLVM that call them:                                *)
(*   CreateStrncmp          for ==/!= on strings (binop_string) and on     *)
(*                          buffers (binop_buf), and for strncmp();        *)
(*   CreateStrcontains      for strcontains();                             *)
(*   CreateIntegerArrayCmp  for ==/!= on integer arrays.                   *)
(* A string or an array is the sequence of its bytes or elements, of the  *)
(* length of its type; byte 0 is NUL.  Each routine is a loop over the    *)
(* index that the code unrolls or branches back in; here it is a          *)
(* recursive operator over that index, with the code's own exits in its   *)
(* order.  Every result is the i1 the code casts to a 64-bit 0 or 1.      *)
(*                                                                         *)
(* A buf() value is the packed struct {u32 length; u8 data[N]} of         *)
(* AsyncEvent::Buf, stored little-endian as on the BPF targets.           *)
(***************************************************************************)
EXTENDS Integers, Sequences

CONSTANTS
  Bytes,     \* byte values of strings and buffers, 0 among them
  MaxSize,   \* largest string type size
  MaxN,      \* largest strncmp() length argument
  Elems,     \* integer array element values
  ArrLen,    \* integer array length
  BufLen     \* max_strlen - sizeof(AsyncEvent::Buf): buf()'s data size

\* The byte at C index k of a string.
At(s, k) == s[k + 1]

MinOf(a, b) == IF a < b THEN a ELSE b
Bit(b) == IF b THEN 1 ELSE 0

-----------------------------------------------------------------------------
(* CreateStrncmp(str1, str2, n, inverse): the result starts as !inverse;  *)
(* for each i < n a differing byte branches to strcmp.false with it, and  *)
(* a NUL in str1 branches to strcmp.done, as does the end of the loop,    *)
(* which stores inverse.                                                   *)
\* Mutant: the NUL test is dropped, so bytes after the terminator count.
RECURSIVE StrncmpNoNul(_, _, _, _, _)
StrncmpNoNul(s1, s2, n, inverse, i) ==
  IF i >= n THEN inverse
  ELSE IF At(s1, i) # At(s2, i) THEN ~inverse
  ELSE StrncmpNoNul(s1, s2, n, inverse, i + 1)
RECURSIVE StrncmpFrom(_, _, _, _, _)
StrncmpFrom(s1, s2, n, inverse, i) ==
  IF i >= n THEN inverse
  ELSE IF At(s1, i) # At(s2, i) THEN ~inverse
  ELSE IF At(s1, i) = 0 THEN inverse
  ELSE StrncmpFrom(s1, s2, n, inverse, i + 1)

Strncmp(s1, s2, n, inverse) == Bit(StrncmpFrom(s1, s2, n, inverse, 0))

(* CreateStrcontains(haystack, hsz, needle, nsz): an empty needle is      *)
(* contained; otherwise for each start i below hsz up to the haystack's   *)
(* NUL, the inner loop over j below nsz returns true at the needle's NUL  *)
(* and goes to the next i when i + j passes hsz or the bytes differ.      *)
Strcontains(h, hsz, nd, nsz) ==
  LET RECURSIVE Inner(_, _), Outer(_)
      Inner(i, j) ==
        IF j >= nsz THEN FALSE
        ELSE IF At(nd, j) = 0 THEN TRUE
        ELSE IF i + j >= hsz THEN FALSE
        ELSE IF At(h, i + j) # At(nd, j) THEN FALSE
        ELSE Inner(i, j + 1)
      Outer(i) ==
        IF i >= hsz \/ At(h, i) = 0 THEN FALSE
        ELSE Inner(i, 0) \/ Outer(i + 1)
  IN Bit(At(nd, 0) = 0 \/ Outer(0))

(* CreateIntegerArrayCmp(val1, val2, inverse): the result starts as       *)
(* inverse; while i < n (signed) a differing element stores !inverse.     *)
ArrayCmp(a, b, inverse) ==
  LET RECURSIVE From(_)
      From(i) == IF i >= Len(a) THEN inverse
                 ELSE IF a[i + 1] # b[i + 1] THEN ~inverse
                 ELSE From(i + 1)
  IN Bit(From(0))

-----------------------------------------------------------------------------
(* The callers in CodegenLLVM.                                             *)

\* binop_string: == and != compare min(size(left), size(right)) bytes.
BinopString(a, b, op) == Strncmp(a, b, MinOf(Len(a), Len(b)), op = "==")

\* strncmp(a, b, n): n capped at both sizes, not inverted.
StrncmpCall(a, b, n) ==
  Strncmp(a, b, MinOf(n, MinOf(Len(a), Len(b))), FALSE)

\* strcontains(a, b): the sizes of the two string types.
StrcontainsCall(a, b) == Strcontains(a, Len(a), b, Len(b))

\* binop_integer_array.
BinopIntegerArray(a, b, op) == ArrayCmp(a, b, op = "==")

\* buf(src, req) with a length that is not a literal: the length is
\* clamped to BufLen, stored as the u32 header, the data zeroed, and length
\* bytes of src read in.
\* Mutant: the requested length is stored without the clamp.
BufValueNoClamp(src, req) ==
  LET len == req
      header == [k \in 1 .. 4 |-> (len \div 2^(8 * (k - 1))) % 256]
  IN header \o [k \in 1 .. BufLen |-> IF k <= len THEN src[k] ELSE 0]
BufValue(src, req) ==
  LET len == IF req <= BufLen THEN req ELSE BufLen
      header == [k \in 1 .. 4 |-> (len \div 2^(8 * (k - 1))) % 256]
  IN header \o [k \in 1 .. BufLen |-> IF k <= len THEN src[k] ELSE 0]

\* binop_buf: the buffers' bytes compared by CreateStrncmp.
BinopBuf(x, y, op) == Strncmp(x, y, MinOf(Len(x), Len(y)), op = "==")

-----------------------------------------------------------------------------
(* One state per input: TLC checks the invariants on every one.           *)
VARIABLE sin

Str == UNION {[1 .. k -> Bytes] : k \in 1 .. MaxSize}
\* A string value whose type holds its terminator.
Terminated(s) == \E k \in DOMAIN s : s[k] = 0
Strings == {s \in Str : Terminated(s)}
Ops == {"==", "!="}

Inputs ==
       [f : {"streq"}, a : Strings, b : Strings, op : Ops]
  \cup [f : {"strncmp"}, a : Strings, b : Strings, n : 0 .. MaxN]
  \cup [f : {"strcontains"}, a : Strings, b : Strings]
  \cup [f : {"arrayeq"}, a : [1 .. ArrLen -> Elems], b : [1 .. ArrLen -> Elems],
        op : Ops]
  \cup [f : {"bufeq"}, a : [1 .. BufLen -> Bytes], b : [1 .. BufLen -> Bytes],
        la : 0 .. BufLen + 1, lb : 0 .. BufLen + 1, op : Ops]

Result(i) ==
  CASE i.f = "streq"       -> BinopString(i.a, i.b, i.op)
    [] i.f = "strncmp"     -> StrncmpCall(i.a, i.b, i.n)
    [] i.f = "strcontains" -> StrcontainsCall(i.a, i.b)
    [] i.f = "arrayeq"     -> BinopIntegerArray(i.a, i.b, i.op)
    [] i.f = "bufeq"       -> BinopBuf(BufValue(i.a, i.la), BufValue(i.b, i.lb), i.op)

Init == sin \in Inputs
Next == UNCHANGED sin
Spec == Init /\ [][Next]_sin

-----------------------------------------------------------------------------
(* Reference definitions, from C's string functions and from what the     *)
(* operators mean.                                                         *)

\* The C string a string value holds: its bytes before the first NUL.
CStr(s) == LET nul == {k \in DOMAIN s : s[k] = 0}
           IN IF nul = {} THEN s
              ELSE SubSeq(s, 1, (CHOOSE k \in nul : \A m \in nul : k <= m) - 1)
Take(s, n) == SubSeq(s, 1, MinOf(n, Len(s)))
IsSubstring(t, s) == \E k \in 0 .. Len(s) - Len(t) : SubSeq(s, k + 1, k + Len(t)) = t
\* The result of a comparison whose operands are equal exactly when same.
Verdict(same, op) == Bit(same = (op = "=="))
Clamp(len) == IF len <= BufLen THEN len ELSE BufLen

\* The length a buf() value's header gives.
HeaderLen(v) == v[1] + 256 * v[2] + 256^2 * v[3] + 256^3 * v[4]

(* Every result is 0 or 1, and a buf() value is its header and BufLen    *)
(* data bytes, the header never giving more than the data holds.          *)
TypeOK ==
  /\ sin \in Inputs
  /\ Result(sin) \in {0, 1}
  /\ sin.f = "bufeq" =>
       \A v \in {BufValue(sin.a, sin.la), BufValue(sin.b, sin.lb)} :
         /\ v \in [1 .. 4 + BufLen -> 0 .. 255]
         /\ HeaderLen(v) <= BufLen

(* ==/!= on strings, strncmp() and strcontains() agree with the C strings *)
(* their operands hold: equal strings compare equal whatever their type   *)
(* sizes and whatever follows the terminator, strncmp() is 0 exactly when *)
(* the first n characters agree, strcontains() finds every substring;     *)
(* ==/!= on integer arrays compares every element.  (CreateStrncmp's NUL  *)
(* exit, the min of the sizes in binop_string and strncmp(), the bounds   *)
(* and the inner loop of CreateStrcontains.)                               *)
CompareCorrect ==
  CASE sin.f = "streq" ->
         Result(sin) = Verdict(CStr(sin.a) = CStr(sin.b), sin.op)
    [] sin.f = "strncmp" ->
         Result(sin) = Bit(Take(CStr(sin.a), sin.n) # Take(CStr(sin.b), sin.n))
    [] sin.f = "strcontains" ->
         Result(sin) = Bit(IsSubstring(CStr(sin.b), CStr(sin.a)))
    [] sin.f = "arrayeq" ->
         Result(sin) = Verdict(sin.a = sin.b, sin.op)
    [] OTHER -> TRUE

(* == on two buf() values is 1 exactly when their lengths are equal and   *)
(* so are the bytes they read (binop_buf, the buf() struct of Call).       *)
BufEqCorrect ==
  sin.f = "bufeq" =>
    Result(sin) = Verdict(/\ Clamp(sin.la) = Clamp(sin.lb)
                          /\ Take(sin.a, Clamp(sin.la)) = Take(sin.b, Clamp(sin.lb)),
                          sin.op)
=============================================================================
