--------------------------- MODULE AttachPointParse ---------------------------
(***************************************************************************)
(* AttachPointParser::parse for one probe: the loop over the probe's       *)
(* attach_points that parses each one (parse_attachpoint) and, when it    *)
(* returns SKIP or NEW_APS, erases it, steps the size_t index back with    *)
(* i-- and appends the wildcard's expansion at the end of the list; then  *)
(* the removal of attach points with an empty provider and the check that *)
(* some remain.                                                            *)
(*                                                                         *)
(* An attach point is its lexed parts (ProviderParsers), whether it      *)
(* lexes, ignore_invalid, and the fields parse_attachpoint sets; id       *)
(* names it by its position as written and the probe types of the         *)
(* expansions it comes from.                                               *)
(***************************************************************************)
EXTENDS ProviderParsers, SequencesExt

CONSTANTS
  APs,       \* the attach points a probe may be written with: [parts, lexok]
  MaxAPs,    \* the most attach points of a probe
  IdxBits    \* the width of the size_t loop index

Mod == 2^IdxBits

\* The probe types in the order of the std::set they are matched into
\* (ProbeList is given in that order).
InSetOrder(types) ==
  LET names == [k \in 1 .. Len(ProbeList) |-> ProbeList[k].name]
  IN SelectSeq(names, LAMBDA t : t \in types)

\* Mutant: the new attach points keep the wildcard's ignore_invalid.
ExpansionKeepIgnore(a, ps) ==
  [id |-> a.id \o <<ps[1]>>, parts |-> ps, lexok |-> TRUE, ignore |-> a.ignore,
   fields |-> NoFields]

\* A new attach point of NEW_APS, made from attach point a with parts ps.
Expansion(a, ps) ==
  [id |-> a.id \o <<ps[1]>>, parts |-> ps, lexok |-> TRUE, ignore |-> TRUE,
   fields |-> NoFields]

\* parse_attachpoint for attach point a, and its new attach points in order.
Outcome(a, env) == ParseAttachpoint(a.parts, a.lexok, a.ignore, env)
NewAPs(a, env) ==
  LET news == Outcome(a, env).news
      order == InSetOrder({ps[1] : ps \in news})
  IN [j \in 1 .. Len(order) |->
        Expansion(a, CHOOSE ps \in news : ps[1] = order[j])]

VARIABLES
  env,       \* the run's -p PID and listing mode: [pid, listing]
  written,   \* the attach points as written in the script
  aps,       \* probe->attach_points
  i,         \* the loop index
  failed,    \* the count parse() returns
  errors,    \* the errors given: [id, ignore, why] of the attach point
  done       \* the loop and the pruning after it have run

vars == <<env, written, aps, i, failed, errors, done>>

Envs == [pid : BOOLEAN, listing : BOOLEAN]

\* The attach points of a probe, numbered in the order they are written.
Written == UNION {[1 .. k -> APs] : k \in 1 .. MaxAPs}
Numbered(w) ==
  [k \in 1 .. Len(w) |->
     [id |-> <<k>>, parts |-> w[k].parts, lexok |-> w[k].lexok,
      ignore |-> FALSE, fields |-> NoFields]]

Init ==
  /\ env \in Envs
  /\ written \in Written
  /\ aps = Numbered(written)
  /\ i = 0 /\ failed = 0 /\ errors = {} /\ done = FALSE

Error(a, r) == [id |-> a.id, ignore |-> a.ignore, why |-> r.why]

\* Mutant: the index is not stepped back after an erase, as if the loop
\* were written without i--.
ParseNoStepBack ==
  /\ ~done /\ i < Len(aps)
  /\ LET a == aps[i + 1]
         r == Outcome(a, env)
     IN IF r.state \in {"skip", "new_aps"}
          THEN /\ aps' = RemoveAt(aps, i + 1) \o NewAPs(a, env)
               /\ i' = (i + 1) % Mod
               /\ UNCHANGED <<failed, errors>>
          ELSE /\ aps' = [aps EXCEPT ![i + 1].fields = r.ap]
               /\ i' = (i + 1) % Mod
               /\ IF r.state = "invalid"
                    THEN failed' = failed + 1 /\ errors' = errors \cup {Error(a, r)}
                    ELSE UNCHANGED <<failed, errors>>
  /\ UNCHANGED <<env, written, done>>

(* One iteration of the loop for attach point i.  INVALID counts a         *)
(* failure and records the error; SKIP and NEW_APS erase the attach point, *)
(* decrement i (wrapping below 0, as size_t does) and, for NEW_APS, append *)
(* the new attach points; then ++i.                                        *)
Parse ==
  /\ ~done /\ i < Len(aps)
  /\ LET a == aps[i + 1]
         r == Outcome(a, env)
     IN IF r.state \in {"skip", "new_aps"}
          THEN /\ aps' = RemoveAt(aps, i + 1) \o NewAPs(a, env)
               /\ i' = (((i + Mod - 1) % Mod) + 1) % Mod
               /\ UNCHANGED <<failed, errors>>
          ELSE /\ aps' = [aps EXCEPT ![i + 1].fields = r.ap]
               /\ i' = (i + 1) % Mod
               /\ IF r.state = "invalid"
                    THEN failed' = failed + 1 /\ errors' = errors \cup {Error(a, r)}
                    ELSE UNCHANGED <<failed, errors>>
  /\ UNCHANGED <<env, written, done>>

(* After the loop: attach points with an empty provider are removed; a     *)
(* probe left with none is an error.                                       *)
Prune ==
  /\ ~done /\ i >= Len(aps)
  /\ LET left == SelectSeq(aps, LAMBDA a : a.fields.provider # "")
     IN /\ aps' = left
        /\ failed' = IF left = <<>> THEN failed + 1 ELSE failed
  /\ done' = TRUE
  /\ UNCHANGED <<env, written, i, errors>>

Next == Parse \/ Prune

Spec == Init /\ [][Next]_vars /\ WF_vars(Next)

-----------------------------------------------------------------------------
(***************************************************************************)
(* Reference: what the loop is for.  Every attach point written and every  *)
(* attach point a wildcard expands to is parsed once.  The list left has   *)
(* those that were not skipped or replaced: first the written ones, in     *)
(* order, then each wildcard's expansion, in the order of the wildcards,   *)
(* less those with an empty provider.                                      *)
(***************************************************************************)
Resolved(a) ==
  LET r == Outcome(a, env)
  IN IF r.state \in {"skip", "new_aps"} THEN <<>>
     ELSE <<[a EXCEPT !.fields = r.ap]>>

RefParsed ==
  LET w == Numbered(written)
  IN FlattenSeq([k \in 1 .. Len(w) |-> Resolved(w[k])])
     \o FlattenSeq([k \in 1 .. Len(w) |->
            LET n == NewAPs(w[k], env)
            IN FlattenSeq([j \in 1 .. Len(n) |-> Resolved(n[j])])])

RefList == SelectSeq(RefParsed, LAMBDA a : a.fields.provider # "")

RefErrors ==
  LET w == Numbered(written)
      All == ToSet(w) \cup UNION {ToSet(NewAPs(a, env)) : a \in ToSet(w)}
  IN {Error(a, Outcome(a, env)) : a \in {b \in All : Outcome(b, env).state = "invalid"}}

TypeOK ==
  /\ env \in Envs
  /\ Len(written) \in 1 .. MaxAPs /\ ToSet(written) \subseteq APs
  /\ i \in 0 .. Mod - 1
  /\ failed \in Nat /\ done \in BOOLEAN
  /\ \A k \in 1 .. Len(aps) : aps[k].ignore = (Len(aps[k].id) = 2)

(* When parse() has run, the probe's attach points are exactly the ones    *)
(* the reference leaves, in its order, with the fields their parser set;  *)
(* the errors are those of the attach points whose parse is INVALID, and   *)
(* failed counts them (plus one for a probe left without attach points).  *)
(* Erasing at index i, stepping back with i-- (wrapping at 0) and          *)
(* appending at the end neither skips nor re-parses an attach point.       *)
ParseCorrect ==
  done =>
    /\ aps = RefList
    /\ errors = RefErrors
    /\ failed = Cardinality(RefErrors) + (IF RefList = <<>> THEN 1 ELSE 0)

(* Section 4.1 of the design: "invalid arity is fatal for explicit         *)
(* providers, non-fatal (Skip) for expanded ones".  No attach point made   *)
(* by wildcard expansion (ignore_invalid) is given an error for its number *)
(* of parts, whichever provider parser its probe type dispatches to.      *)
ExpandedArityNotFatal ==
  \A e \in errors : e.ignore => e.why # "arity"

(* uprobe_parser lets a -p PID stand for the target, also before a         *)
(* language ("For PID, the target may be skipped": uprobe:cpp:func).  A    *)
(* supported language written before the function, in uprobe:path:lang:   *)
(* func or, with a PID, in uprobe:lang:func, is the parsed attach point's  *)
(* lang.                                                                   *)
LangKept ==
  done =>
    \A k \in 1 .. Len(aps) :
      LET ps == aps[k].parts
      IN /\ ProbeTypeOf(aps[k].fields.provider) \in {"uprobe", "uretprobe"}
         /\ Len(ps) = 4 \/ (env.pid /\ Len(ps) = 3)
         /\ SupportedLang(ps[Len(ps) - 1])
         => aps[k].fields.lang = ps[Len(ps) - 1]
=============================================================================
