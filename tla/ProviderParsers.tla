---------------------------- MODULE ProviderParsers ----------------------------
(***************************************************************************)
(* AttachPointParser::parse_attachpoint and the provider parsers it       *)
(* dispatches to (special_parser ... raw_tracepoint_parser), as operators *)
(* from the lexed parts_ of an attach point to the State returned and the *)
(* AttachPoint fields set.                                                 *)
(*                                                                         *)
(* A part is a string from a small vocabulary; what the string helpers of *)
(* util/ (outside this component) say of each part is stated below, per   *)
(* part.  The environment the parser reads (a -p PID, listing mode, the   *)
(* executable of the PID, library resolution, the modules of a kernel     *)
(* function) is the record env and the constants.                          *)
(***************************************************************************)
EXTENDS Naturals, Sequences, Functions, TLC, ProbeMatcher

CONSTANTS
  FuncModules(_),   \* bpftrace_.get_func_modules(func)
  Libs,             \* "libX" parts bcc_procutils_which_so resolves
  PidExe,           \* the path of the PID's executable, or "" if unknown
  WatchpointBinary  \* get_watchpoint_binary_path(), or ""

(***************************************************************************)
(* The string helpers, for the parts of the vocabulary.                    *)
(***************************************************************************)
\* util::has_wildcard
Wild == {"*", "k*", "t*", "z*", "*probe", "f*", "/bin/*"}
HasWildcard(w) == w \in Wild
\* std::string::find('/')
HasSlash(w) == w \in {"/bin/sh", "/bin/*", "/lib/libc.so", "/proc/1/exe"}
\* util::to_uint: the parts that are numbers, with their value
UintVal == ("1" :> 1) @@ ("8" :> 8) @@ ("500" :> 500) @@ ("5000" :> 5000)
ToUintOk(w) == w \in DOMAIN UintVal
\* util::split_string(w, '+', true): the '+'-separated fields, empty ones
\* removed; a part with no '+' is not in the table.
PlusSplit ==
  ("f+8" :> <<"f", "8">>) @@ ("f+x" :> <<"f", "x">>) @@ ("f+" :> <<"f">>)
  @@ ("f+8+8" :> <<"f", "8", "8">>) @@ ("f+arg1" :> <<"f", "arg1">>)
  @@ ("f+arg" :> <<"f", "arg">>) @@ ("f+argx" :> <<"f", "argx">>)
\* std::count(w, '+')
PlusCount(w) ==
  IF w \notin DOMAIN PlusSplit THEN 0 ELSE IF w = "f+8+8" THEN 2 ELSE 1
\* the parts longer than 3 that start with "arg", and their substr(3)
ArgSuffix == ("arg1" :> "1") @@ ("argx" :> "x")
\* is_supported_lang
SupportedLang(w) == w = "cpp"
\* bcc_procutils_which_so("X") for a part "libX" it resolves
LibPath(w) == "/lib/libc.so"

\* expand_probe_name and probetype(): aliases to names, names to types.
Alias == ("k" :> "kprobe") @@ ("t" :> "tracepoint") @@ ("p" :> "profile")
ExpandProbeName(w) == IF w \in DOMAIN Alias THEN Alias[w] ELSE w
ProbeTypes ==
  [p \in {ProbeList[k] : k \in 1 .. Len(ProbeList)} |-> p.type]
ProbeTypeOf(name) ==
  IF name \in {"begin", "end", "self"} THEN "special"
  ELSE IF name = "bench" THEN "benchmark"
  ELSE LET ps == {p \in DOMAIN ProbeTypes : p.name = name}
       IN IF ps = {} THEN "invalid" ELSE ProbeTypes[CHOOSE p \in ps : TRUE]

(***************************************************************************)
(* The AttachPoint fields a parser sets, and the State it returns with the *)
(* reason of an INVALID: "arity" for argument_count_error (and the same    *)
(* check in iter_parser), "value" for any other error.                     *)
(***************************************************************************)
NoFields ==
  [provider |-> "", target |-> "", ns |-> "", func |-> "", func_offset |-> 0,
   address |-> 0, len |-> 0, mode |-> "", lang |-> "", freq |-> 0, pin |-> "",
   bpf_prog_id |-> 0, async |-> FALSE]

R(s, why, f) == [state |-> s, why |-> why, ap |-> f]
Ok(f) == R("ok", "", f)
Bad(f) == R("invalid", "value", f)
\* argument_count_error
ArgumentCountError(f) == R("invalid", "arity", f)
\* the arity check of the parsers that honour ignore_invalid
ArityFail(f, ignore) == IF ignore THEN R("skip", "", f) ELSE ArgumentCountError(f)

\* special_parser: begin/end take no argument (a trailing "*" is dropped),
\* self takes target and func.
SpecialParser(ps, f) ==
  IF f.provider \in {"begin", "end"}
    THEN LET q == IF Len(ps) = 2 /\ ps[2] = "*" THEN <<ps[1]>> ELSE ps
         IN IF Len(q) # 1 THEN ArgumentCountError(f) ELSE Ok(f)
  ELSE IF Len(ps) # 3 THEN ArgumentCountError(f)
  ELSE Ok([f EXCEPT !.target = ps[2], !.func = ps[3]])

BenchmarkParser(ps, f) ==
  IF Len(ps) # 2 THEN ArgumentCountError(f) ELSE Ok([f EXCEPT !.target = ps[2]])

\* The func+offset case of kprobe_parser and uprobe_parser.
OffsetParse(fn, f, allow_offset) ==
  LET op == PlusSplit[fn]
  IN CASE ~allow_offset      -> Bad(f)
       [] PlusCount(fn) # 1  -> Bad(f)
       [] Len(op) # 2        -> Bad(f)
       [] ~ToUintOk(op[2])   -> Bad([f EXCEPT !.func = op[1]])
       [] OTHER              ->
            Ok([f EXCEPT !.func = op[1], !.func_offset = UintVal[op[2]]])

KprobeParser(ps, f, ignore, allow_offset) ==
  IF Len(ps) \notin {2, 3} THEN ArityFail(f, ignore)
  ELSE LET g == IF Len(ps) = 3 THEN [f EXCEPT !.target = ps[2]] ELSE f
           fn == ps[Len(ps)]
       IN IF PlusCount(fn) > 0 THEN OffsetParse(fn, g, allow_offset)
          ELSE Ok([g EXCEPT !.func = fn])

(* uprobe_parser: with a PID, a missing target (2 parts) is inserted and  *)
(* parts_[1] becomes the PID's executable, also when 3 parts have a       *)
(* language at parts_[1]; then 3 or 4 parts; a "libX" target without      *)
(* wildcard is resolved; func+offset, or an absolute address when the     *)
(* last part is a number.                                                  *)
UprobeParser(ps0, f, ignore, env, allow_offset, allow_abs_addr) ==
  LET ps == IF env.pid /\ (Len(ps0) = 2 \/ (Len(ps0) = 3 /\ SupportedLang(ps0[2])))
              THEN [(IF Len(ps0) = 2 THEN <<ps0[1], "", ps0[2]>> ELSE ps0)
                      EXCEPT ![2] = PidExe]
              ELSE ps0
  IN IF Len(ps) \notin {3, 4} THEN ArityFail(f, ignore)
     ELSE LET g == [f EXCEPT !.lang = IF Len(ps) = 4 THEN ps[3] ELSE f.lang,
                             !.target = IF ~HasWildcard(ps[2]) /\ ps[2] \in Libs
                                          THEN LibPath(ps[2]) ELSE ps[2]]
              fn == ps[Len(ps)]
          IN CASE PlusCount(fn) > 0 -> OffsetParse(fn, g, allow_offset)
               [] allow_abs_addr /\ ToUintOk(fn) ->
                    IF HasWildcard(g.target) THEN Bad(g)
                    ELSE Ok([g EXCEPT !.address = UintVal[fn]])
               [] allow_abs_addr -> Ok([g EXCEPT !.address = 0, !.func = fn])
               [] OTHER -> Ok([g EXCEPT !.func = fn])

\* usdt_parser: with a PID, a missing target (2 parts) is left empty.
UsdtParser(ps0, f, ignore, env) ==
  LET ps == IF env.pid /\ Len(ps0) = 2 THEN <<ps0[1], "", ps0[2]>> ELSE ps0
  IN CASE Len(ps) \notin {3, 4} -> ArityFail(f, ignore)
       [] Len(ps) = 3 -> Ok([f EXCEPT !.target = ps[2], !.func = ps[3]])
       [] OTHER -> Ok([f EXCEPT !.target = ps[2], !.ns = ps[3], !.func = ps[4]])

\* tracepoint_parser: tracepoint:*wild* gets a "*" category.
TracepointParser(ps0, f, ignore) ==
  LET ps == IF Len(ps0) = 2 /\ HasWildcard(ps0[2])
              THEN <<ps0[1], "*", ps0[2]>> ELSE ps0
  IN IF Len(ps) # 3 THEN ArityFail(f, ignore)
     ELSE Ok([f EXCEPT !.target = ps[2], !.func = ps[3]])

(* frequency_parser (profile, interval): a wildcard (listing); a rate in  *)
(* nanoseconds, at least 1000, as microseconds; or unit and rate.  Its    *)
(* arity check does not look at ignore_invalid.                            *)
FrequencyParser(ps, f) ==
  CASE Len(ps) = 2 /\ HasWildcard(ps[2]) ->
         Ok([f EXCEPT !.target = ps[2], !.freq = 0])
    [] Len(ps) = 2 /\ ~ToUintOk(ps[2]) -> Bad(f)
    [] Len(ps) = 2 /\ UintVal[ps[2]] < 1000 -> Bad(f)
    [] Len(ps) = 2 -> Ok([f EXCEPT !.target = "us", !.freq = UintVal[ps[2]] \div 1000])
    [] Len(ps) # 3 -> ArgumentCountError(f)
    [] ~ToUintOk(ps[3]) -> Bad([f EXCEPT !.target = ps[2]])
    [] OTHER -> Ok([f EXCEPT !.target = ps[2], !.freq = UintVal[ps[3]]])

\* software_parser and hardware_parser: event and an optional count.
CountParser(ps, f, ignore) ==
  CASE Len(ps) \notin {2, 3} -> ArityFail(f, ignore)
    [] Len(ps) = 3 /\ ps[3] # "*" /\ ~ToUintOk(ps[3]) -> Bad([f EXCEPT !.target = ps[2]])
    [] Len(ps) = 3 /\ ps[3] # "*" ->
         Ok([f EXCEPT !.target = ps[2], !.freq = UintVal[ps[3]]])
    [] OTHER -> Ok([f EXCEPT !.target = ps[2]])
(* watchpoint_parser: an address, or func+argN; a length; a mode.  Its   *)
(* arity check does not look at ignore_invalid.                            *)
WatchpointParser(ps, f, async) ==
  LET a == ps[2]
      fa == PlusSplit[a]
      addr == IF PlusCount(a) = 0 THEN a ELSE ArgSuffix[fa[2]]
      g == IF PlusCount(a) = 0 THEN f ELSE [f EXCEPT !.func = fa[1]]
  IN CASE Len(ps) # 4 -> ArgumentCountError(f)
       [] PlusCount(a) > 0 /\ Len(fa) # 2 -> Bad(f)
       [] PlusCount(a) > 0 /\ fa[2] \notin DOMAIN ArgSuffix -> Bad(g)
       [] ~ToUintOk(addr) -> Bad(g)
       [] ~ToUintOk(ps[3]) -> Bad([g EXCEPT !.address = UintVal[addr]])
       [] OTHER ->
            Ok([g EXCEPT !.address = UintVal[addr], !.len = UintVal[ps[3]],
                         !.target = WatchpointBinary, !.mode = ps[4],
                         !.async = async])

(* fentry_parser: fentry[:module]:func, or fentry:bpf[:id]:prog; a func   *)
(* without module takes the module it is in when that is unique, and an   *)
(* ambiguous one is an error unless listing.                               *)
FentryParser(ps, f, ignore, env) ==
  CASE Len(ps) \notin {2, 3, 4} -> ArityFail(f, ignore)
    [] ps[2] = "bpf" ->
         LET g == [f EXCEPT !.target = "bpf"]
         IN CASE Len(ps) = 2 -> Bad(g)
              [] Len(ps) = 3 -> Ok([g EXCEPT !.func = ps[3]])
              [] ps[3] = "*" -> Ok([g EXCEPT !.func = ps[4]])
              [] ~ToUintOk(ps[3]) -> Bad([g EXCEPT !.func = ps[4]])
              [] OTHER -> Ok([g EXCEPT !.func = ps[4], !.bpf_prog_id = UintVal[ps[3]]])
    [] Len(ps) = 4 -> Bad(f)
    [] Len(ps) = 3 -> Ok([f EXCEPT !.target = ps[2], !.func = ps[3]])
    [] HasWildcard(ps[2]) -> Ok([f EXCEPT !.func = ps[2], !.target = "*"])
    [] OTHER ->
         LET mods == FuncModules(ps[2])
             g == [f EXCEPT !.func = ps[2]]
         IN CASE Cardinality(mods) = 1 ->
                   Ok([g EXCEPT !.target = CHOOSE m \in mods : TRUE])
              [] Cardinality(mods) > 1 /\ env.listing -> Ok([g EXCEPT !.target = "*"])
              [] Cardinality(mods) > 1 -> Bad(g)
              [] OTHER -> Ok(g)

IterParser(ps, f, ignore) ==
  CASE Len(ps) \notin {2, 3} -> ArityFail(f, ignore)
    [] Len(ps) = 3 -> Ok([f EXCEPT !.func = ps[2], !.pin = ps[3]])
    [] OTHER -> Ok([f EXCEPT !.func = ps[2]])

\* raw_tracepoint_parser: a missing module is "*".
RawTracepointParser(ps, f, ignore) ==
  CASE Len(ps) \notin {2, 3} -> ArityFail(f, ignore)
    [] Len(ps) = 3 -> Ok([f EXCEPT !.target = ps[2], !.func = ps[3]])
    [] OTHER -> Ok([f EXCEPT !.target = "*", !.func = ps[2]])

\* The switch on probetype(ap.provider) in parse_attachpoint.
ProviderParse(ps, f, ignore, env) ==
  LET t == ProbeTypeOf(f.provider)
  IN
    CASE t = "special"    -> SpecialParser(ps, f)
      [] t = "benchmark"  -> BenchmarkParser(ps, f)
      [] t = "kprobe"     -> KprobeParser(ps, f, ignore, TRUE)
      [] t = "kretprobe"  -> KprobeParser(ps, f, ignore, FALSE)
      [] t = "uprobe"     -> UprobeParser(ps, f, ignore, env, TRUE, TRUE)
      [] t = "uretprobe"  -> UprobeParser(ps, f, ignore, env, FALSE, TRUE)
      [] t = "usdt"       -> UsdtParser(ps, f, ignore, env)
      [] t = "tracepoint" -> TracepointParser(ps, f, ignore)
      [] t \in {"profile", "interval"} -> FrequencyParser(ps, f)
      [] t \in {"software", "hardware"} -> CountParser(ps, f, ignore)
      [] t = "watchpoint" -> WatchpointParser(ps, f, FALSE)
      [] t = "asyncwatchpoint" -> WatchpointParser(ps, f, TRUE)
      [] t \in {"fentry", "fexit"} -> FentryParser(ps, f, ignore, env)
      [] t = "iter"       -> IterParser(ps, f, ignore)
      [] t = "rawtracepoint" -> RawTracepointParser(ps, f, ignore)
      [] OTHER -> Bad(f)

(***************************************************************************)
(* parse_attachpoint, after lexing: an attach point is its parts, whether *)
(* they lexed, and ignore_invalid.  An empty first part is kept with an    *)
(* empty provider; a first part with a wildcard is expanded against the   *)
(* userspace probe types (with a PID, or a '/' in the second part) or the *)
(* kernel ones, with "*" for an attach point of one part.  No match is an *)
(* error; several make NEW_APS, one attach point per match whose raw      *)
(* input is the match followed by the rest after the first ':' (all of a   *)
(* single part), with ignore_invalid set.  Otherwise the provider is set  *)
(* and its parser called.  news holds the parts of the new attach points. *)
(***************************************************************************)
ParseAttachpoint(ps, lexok, ignore, env) ==
  LET query == IF Len(ps) = 1 THEN "*" ELSE ps[1]
      user == env.pid \/ (Len(ps) >= 2 /\ HasSlash(ps[2]))
      types == IF ~HasWildcard(ps[1]) THEN {ps[1]}
               ELSE IF user THEN ExpandProbetypeUserspace(query, HasWildcard(query))
               ELSE ExpandProbetypeKernel(query, HasWildcard(query))
      rest == IF Len(ps) > 1 THEN Tail(ps) ELSE ps
      New(t) == <<t>> \o rest
      one == CHOOSE t \in types : TRUE
      N(s, why, f, news) == [state |-> s, why |-> why, ap |-> f, news |-> news]
  IN CASE ~lexok -> N("invalid", "value", NoFields, {})
       [] ps = <<>> -> N("invalid", "value", NoFields, {})
       [] ps[1] = "" -> N("ok", "", NoFields, {})
       [] types = {} -> N("invalid", "value", NoFields, {})
       [] Cardinality(types) > 1 -> N("new_aps", "", NoFields, {New(t) : t \in types})
       [] OTHER ->
            LET r == ProviderParse(ps, [NoFields EXCEPT !.provider = ExpandProbeName(one)],
                                   ignore, env)
            IN N(r.state, r.why, r.ap, {})
=============================================================================
