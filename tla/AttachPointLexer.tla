--------------------------- MODULE AttachPointLexer ---------------------------
(***************************************************************************)
(* AttachPointParser::lex_attachpoint: splits an attach point's raw_input  *)
(* into parts_ at ':' outside double quotes, handles '\x' escapes inside   *)
(* quotes, and expands a positional parameter $N in place, re-lexing the   *)
(* substituted text (idx-- before the loop's ++idx).                       *)
(*                                                                         *)
(* A string is a sequence of one-character strings.  One loop iteration    *)
(* is one step; the final emplace_back of the last argument is Finish.     *)
(***************************************************************************)
EXTENDS Naturals, Sequences, SequencesExt

CONSTANTS
  Alphabet,  \* the characters raw inputs are made of
  MaxLen,    \* the longest raw input
  Params     \* the script's positional parameters: Params[n] is $n

DigitSeq == <<"0", "1", "2", "3", "4", "5", "6", "7", "8", "9">>
Digits == ToSet(DigitSeq)
DigitVal(d) == CHOOSE v \in 0 .. 9 : DigitSeq[v + 1] = d

\* util::to_uint(s, 10) for a non-empty run of digits.
RECURSIVE Decimal(_)
Decimal(s) == IF s = <<>> THEN 0
              ELSE Decimal(SubSeq(s, 1, Len(s) - 1)) * 10 + DigitVal(Last(s))

\* BPFtrace::get_param: the n-th parameter, or "" when there is none.
GetParam(n) == IF n \in 1 .. Len(Params) THEN Params[n] ELSE <<>>

\* The number of digits of the parameter index starting at position j;
\* the scan stops at a leading '0'.
\* Mutant: a leading '0' does not stop the scan ($0, $01 accepted).
RECURSIVE RunLenNoZero(_, _, _)
RunLenNoZero(s, j, len) ==
  IF j > Len(s) \/ s[j] \notin Digits THEN len ELSE RunLenNoZero(s, j + 1, len + 1)

RECURSIVE RunLen(_, _, _)
RunLen(s, j, len) ==
  IF j > Len(s) \/ s[j] \notin Digits \/ (len = 0 /\ s[j] = "0") THEN len
  ELSE RunLen(s, j + 1, len + 1)

Inputs == UNION {[1 .. n -> Alphabet] : n \in 0 .. MaxLen}

VARIABLES
  input,  \* the attach point's raw_input (does not change)
  raw,    \* the string being lexed, with the expansions made so far
  idx,    \* the loop index (0-based, as in the code)
  inq,    \* in_quotes
  arg,    \* the argument being built
  parts,  \* parts_
  st      \* "lexing", or the State returned: "ok" / "invalid"

vars == <<input, raw, idx, inq, arg, parts, st>>

Init ==
  /\ input \in Inputs
  /\ raw = input /\ idx = 0 /\ inq = FALSE
  /\ arg = <<>> /\ parts = <<>> /\ st = "lexing"

\* The character at the 0-based index i.
Ch(i) == raw[i + 1]

\* Mutant: '\' escapes outside quotes too.
BranchEscapeOutside ==
  CASE Ch(idx) = ":" /\ ~inq                           -> "colon"
    [] Ch(idx) = "\""                                  -> "quote"
    [] Ch(idx) = "\\" /\ idx + 1 < Len(raw)            -> "escape"
    [] ~inq /\ Ch(idx) = "$"                            -> "param"
    [] OTHER                                           -> "char"

(* The branch of the loop body that the character at idx takes, in the  *)
(* order of the code's if / else if chain.                                 *)
Branch ==
  CASE Ch(idx) = ":" /\ ~inq                           -> "colon"
    [] Ch(idx) = "\""                                  -> "quote"
    [] inq /\ Ch(idx) = "\\" /\ idx + 1 < Len(raw)     -> "escape"
    [] ~inq /\ Ch(idx) = "$"                            -> "param"
    [] OTHER                                           -> "char"

Iterating(b) == st = "lexing" /\ idx < Len(raw) /\ Branch = b

Colon ==
  /\ Iterating("colon")
  /\ parts' = Append(parts, arg) /\ arg' = <<>> /\ idx' = idx + 1
  /\ UNCHANGED <<input, raw, inq, st>>

Quote ==
  /\ Iterating("quote")
  /\ inq' = ~inq /\ idx' = idx + 1
  /\ UNCHANGED <<input, raw, arg, parts, st>>

Escape ==
  /\ Iterating("escape")
  /\ arg' = Append(arg, Ch(idx + 1)) /\ idx' = idx + 2
  /\ UNCHANGED <<input, raw, inq, parts, st>>

\* Mutant: lexing resumes after the reference, as if the value had the
\* reference's length, instead of at the value's first character.
ParamSkipValue ==
  /\ Iterating("param")
  /\ LET len == RunLen(raw, idx + 2, 0)
         num == SubSeq(raw, idx + 2, idx + 1 + len)
     IN IF len = 0
          THEN st' = "invalid" /\ UNCHANGED <<raw, idx>>
          ELSE /\ raw' = SubSeq(raw, 1, idx) \o GetParam(Decimal(num))
                           \o SubSeq(raw, idx + 2 + len, Len(raw))
               /\ idx' = idx + 1 + len
               /\ UNCHANGED st
  /\ UNCHANGED <<input, inq, arg, parts>>

(* A '$' outside quotes is followed by the index digits.  With none, the   *)
(* lexer fails (a trailing '$' gives an empty index, which to_uint         *)
(* rejects).  Otherwise raw becomes prefix ++ get_param(n) ++ rest and     *)
(* idx-- / ++idx leave idx on the first character of the value.            *)
Param ==
  /\ Iterating("param")
  /\ LET len == RunLen(raw, idx + 2, 0)
         num == SubSeq(raw, idx + 2, idx + 1 + len)
     IN IF len = 0
          THEN st' = "invalid" /\ UNCHANGED raw
          ELSE /\ raw' = SubSeq(raw, 1, idx) \o GetParam(Decimal(num))
                           \o SubSeq(raw, idx + 2 + len, Len(raw))
               /\ UNCHANGED st
  /\ UNCHANGED <<input, idx, inq, arg, parts>>

Char ==
  /\ Iterating("char")
  /\ arg' = Append(arg, Ch(idx)) /\ idx' = idx + 1
  /\ UNCHANGED <<input, raw, inq, parts, st>>

(* After the loop: the last argument is always added, so an input ending  *)
(* in ':' gets an empty last part.                                         *)
Finish ==
  /\ st = "lexing" /\ idx >= Len(raw)
  /\ parts' = Append(parts, arg) /\ st' = "ok"
  /\ UNCHANGED <<input, raw, idx, inq, arg>>

Next == Colon \/ Quote \/ Escape \/ Param \/ Char \/ Finish

\* lex_attachpoint is a sequential loop: it keeps running until it returns.
Spec == Init /\ [][Next]_vars /\ WF_vars(Next)

-----------------------------------------------------------------------------
(***************************************************************************)
(* Reference: the lexing rules of the attach point syntax, stated per      *)
(* character position k of a string s rather than as a loop.               *)
(***************************************************************************)
RECURSIVE InQuotes(_, _), Escaped(_, _)
\* An odd number of unescaped '"' precede position k.
InQuotes(s, k) ==
  k > 1 /\ (InQuotes(s, k - 1) # (s[k - 1] = "\"" /\ ~Escaped(s, k - 1)))
\* Position k follows an unescaped '\' inside quotes.
Escaped(s, k) ==
  k > 1 /\ s[k - 1] = "\\" /\ InQuotes(s, k - 1) /\ ~Escaped(s, k - 1)

Separator(s, k) == s[k] = ":" /\ ~InQuotes(s, k)
Kept(s, k) ==
  /\ ~Separator(s, k)
  /\ ~(s[k] = "\"" /\ ~Escaped(s, k))
  /\ ~(s[k] = "\\" /\ InQuotes(s, k) /\ ~Escaped(s, k) /\ k < Len(s))

\* The parts: the kept characters between consecutive separators.
SplitRef(s) ==
  LET cuts == <<0>> \o SetToSortSeq({k \in 1 .. Len(s) : Separator(s, k)}, <)
                    \o <<Len(s) + 1>>
      Part(a, b) == LET ks == SetToSortSeq({k \in a + 1 .. b - 1 : Kept(s, k)}, <)
                    IN [i \in 1 .. Len(ks) |-> s[ks[i]]]
  IN [i \in 1 .. Len(cuts) - 1 |-> Part(cuts[i], cuts[i + 1])]

\* A positional parameter: an unquoted '$' and its decimal index, which
\* may not start with 0 ($0 is reserved).
Dollar(s, k) == s[k] = "$" /\ ~InQuotes(s, k)
IndexLen(s, k) ==
  IF k < Len(s) /\ s[k + 1] = "0" THEN 0
  ELSE CHOOSE j \in 0 .. Len(s) - k :
         /\ \A i \in 1 .. j : s[k + i] \in Digits
         /\ k + j + 1 > Len(s) \/ s[k + j + 1] \notin Digits
ValidRef(s) == \A k \in 1 .. Len(s) : Dollar(s, k) => IndexLen(s, k) > 0

\* The input with every parameter reference replaced by its value.
ExpandRef(s) ==
  LET InIndex(k) == \E d \in 1 .. k - 1 : Dollar(s, d) /\ k <= d + IndexLen(s, d)
      Piece(k) ==
        IF Dollar(s, k)
          THEN GetParam(Decimal(SubSeq(s, k + 1, k + IndexLen(s, k))))
        ELSE IF InIndex(k) THEN <<>> ELSE <<s[k]>>
  IN FlattenSeq([k \in 1 .. Len(s) |-> Piece(k)])

\* Parameter values that bring no quote, escape or reference of their own.
PlainParams ==
  \A n \in 1 .. Len(Params) : \A i \in 1 .. Len(Params[n]) :
    Params[n][i] \notin {"\"", "\\", "$"}

-----------------------------------------------------------------------------
TypeOK ==
  /\ input \in Inputs
  /\ st \in {"lexing", "ok", "invalid"}
  /\ idx \in 0 .. Len(raw) /\ inq \in BOOLEAN
  /\ arg \in Seq(Alphabet \cup UNION {ToSet(Params[n]) : n \in 1 .. Len(Params)})

(* lex_attachpoint, with parameter values that are plain text, returns OK *)
(* exactly when every unquoted '$' is followed by a valid index, and then  *)
(* its parts_ are those of splitting the expanded input at unquoted ':',   *)
(* with quotes removed and '\x' in quotes read as x: the in-place          *)
(* expansion followed by idx--, and the escape branch's idx += 2, neither  *)
(* skip nor re-read a character.                                           *)
LexCorrect ==
  PlainParams /\ st # "lexing" =>
    /\ (st = "ok") = ValidRef(input)
    /\ st = "ok" => parts = SplitRef(ExpandRef(input))

(* Lexing an attach point ends: the loop of lex_attachpoint returns for   *)
(* every raw_input and every parameter value.                              *)
LexTerminates == <>(st # "lexing")
=============================================================================
