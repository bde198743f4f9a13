------------------------- MODULE MC_AttachPointParser -------------------------
(***************************************************************************)
(* The two stages of AttachPointParser checked in one model: lexing one   *)
(* raw_input (AttachPointLexer, instance MC_AttachPointLexer) and parsing *)
(* the lexed attach points of one probe (AttachPointParse, instance        *)
(* MC_AttachPointParse).  A behaviour runs one stage from its initial     *)
(* states; the other stage's variables keep an initial state of theirs.   *)
(***************************************************************************)
EXTENDS Naturals, Sequences, AttachPointInputs

CONSTANTS
  Alphabet, MaxLen, Params,
  ProbeList, HasFentry, WildcardMatch(_, _), Demangle(_, _), HasParam(_),
  PartVariant(_), FuncModules(_), Libs, PidExe, WatchpointBinary,
  APs, MaxAPs, IdxBits

VARIABLES
  stage,                                  \* "lex" or "parse"
  input, raw, idx, inq, arg, parts, st,   \* AttachPointLexer
  env, written, aps, i, failed, errors, done  \* AttachPointParse

Lx == INSTANCE MC_AttachPointLexer
Ps == INSTANCE MC_AttachPointParse

lexVars == <<input, raw, idx, inq, arg, parts, st>>
parseVars == <<env, written, aps, i, failed, errors, done>>
vars == <<stage, lexVars, parseVars>>

\* An initial state of the stage that does not run: the lexer on the empty
\* input, the parser on a probe with the first attach point of APs.
LexIdle ==
  /\ input = <<>> /\ raw = <<>> /\ idx = 0 /\ inq = FALSE
  /\ arg = <<>> /\ parts = <<>> /\ st = "lexing"
ParseIdle ==
  /\ env = [pid |-> FALSE, listing |-> FALSE]
  /\ written = <<CHOOSE a \in APs : TRUE>>
  /\ aps = Ps!Numbered(written)
  /\ i = 0 /\ failed = 0 /\ errors = {} /\ done = FALSE

Init ==
  \/ stage = "lex" /\ Lx!Init /\ ParseIdle
  \/ stage = "parse" /\ Ps!Init /\ LexIdle

Next ==
  \/ stage = "lex" /\ Lx!Next /\ UNCHANGED <<stage, parseVars>>
  \/ stage = "parse" /\ Ps!Next /\ UNCHANGED <<stage, lexVars>>

Spec == Init /\ [][Next]_vars /\ WF_vars(Next)

\* The type invariants of both stages.
TypeOK == Lx!TypeOK /\ Ps!TypeOK

(* LexCorrect of AttachPointLexer: lex_attachpoint splits and expands as   *)
(* the lexing rules say.                                                   *)
LexCorrect == Lx!LexCorrect

(* ParseCorrect of AttachPointParse: parse() leaves the attach points and  *)
(* errors the reference says.                                              *)
ParseCorrect == Ps!ParseCorrect
=============================================================================
