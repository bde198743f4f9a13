-------------------------- MODULE AttachPointInputs --------------------------
(***************************************************************************)
(* The values the attach point parser's models are checked with: the     *)
(* positional parameters and alphabet of the lexer, and PROBE_LIST, the   *)
(* matcher's answers, the kernel's function modules and the attach points *)
(* of the parser.  No constants, so that one model can instantiate both   *)
(* stages with them.                                                       *)
(***************************************************************************)

\* $1 is a value with a ':' (it splits the part), $2 a digit, $10 and up
\* are missing.
MC_Params == << <<"a", ":">>, <<"1">> >>
MC_Alphabet == {":", "\"", "\\", "$", "0", "1", "2", "a"}

\* Two parameters whose values refer to each other ($1 is "$2", $2 is
\* "$1"; a value "$1" for $1 loops the same way, in steps that change
\* nothing).
MC_SelfParams == << <<"$", "2">>, <<"$", "1">> >>
MC_SelfAlphabet == {"$", "1", "a"}

(***************************************************************************)
(* PROBE_LIST, in the order of probe names a std::set keeps: the kernel   *)
(* list shows kprobe, tracepoint, profile, interval, software, hardware,  *)
(* fentry, iter and rawtracepoint; the userspace list uprobe and usdt;    *)
(* return probes are in neither.                                           *)
(***************************************************************************)
P(name, k, u) == [name |-> name, type |-> name, kernel |-> k, user |-> u]
MC_ProbeList ==
  << P("asyncwatchpoint", FALSE, FALSE), P("fentry", TRUE, FALSE),
     P("fexit", FALSE, FALSE), P("hardware", TRUE, FALSE),
     P("interval", TRUE, FALSE), P("iter", TRUE, FALSE),
     P("kprobe", TRUE, FALSE), P("kretprobe", FALSE, FALSE),
     P("profile", TRUE, FALSE), P("rawtracepoint", TRUE, FALSE),
     P("software", TRUE, FALSE), P("tracepoint", TRUE, FALSE),
     P("uprobe", FALSE, TRUE), P("uretprobe", FALSE, FALSE),
     P("usdt", FALSE, TRUE), P("watchpoint", FALSE, FALSE) >>

\* util::wildcard_match for the probe type patterns of the instance.
MC_WildcardMatch(line, pattern) ==
  CASE pattern = "*"      -> TRUE
    [] pattern = "k*"     -> line \in {"kprobe", "kretprobe"}
    [] pattern = "t*"     -> line = "tracepoint"
    [] pattern = "*probe" -> line \in {"kprobe", "kretprobe", "uprobe", "uretprobe"}
    [] OTHER              -> FALSE
MC_Demangle(line, truncate) == ""
MC_HasParam(search) == FALSE
MC_PartVariant(line) == FALSE

\* f is in one kernel module, g in two, h in none.
MC_FuncModules(func) ==
  CASE func = "f" -> {"m"} [] func = "g" -> {"m", "n"} [] OTHER -> {}

A(ps) == [parts |-> ps, lexok |-> TRUE]

\* Attach points exercising every provider parser and its error paths.
MC_Explicit ==
  { A(<<"kprobe", "f">>), A(<<"kprobe", "m", "f+8">>), A(<<"kretprobe", "f+8">>),
    A(<<"kprobe", "f+8+8">>), A(<<"kprobe", "f+x">>), A(<<"kprobe", "f+">>),
    A(<<"k", "f", "f", "f">>),
    A(<<"uprobe", "/bin/sh", "f">>), A(<<"uprobe", "libc", "8">>),
    A(<<"uprobe", "/bin/*", "8">>), A(<<"uretprobe", "/bin/sh", "f+8">>),
    A(<<"uprobe", "/bin/sh", "cpp", "f">>), A(<<"uprobe", "f">>),
    A(<<"usdt", "f">>), A(<<"usdt", "/bin/sh", "p", "f">>),
    A(<<"tracepoint", "f*">>), A(<<"t", "f", "f">>),
    A(<<"profile", "5000">>), A(<<"profile", "500">>), A(<<"p", "f*">>),
    A(<<"interval", "s", "1">>), A(<<"interval", "s", "x">>),
    A(<<"interval", "s", "1", "f">>),
    A(<<"software", "f", "*">>), A(<<"hardware", "f", "x">>),
    A(<<"software", "f", "8">>),
    A(<<"watchpoint", "8", "8", "rw">>), A(<<"asyncwatchpoint", "f+arg1", "8", "rw">>),
    A(<<"watchpoint", "f+arg", "8", "rw">>), A(<<"watchpoint", "f+argx", "8", "rw">>),
    A(<<"watchpoint", "f+8+8", "8", "rw">>), A(<<"watchpoint", "f", "8", "rw">>),
    A(<<"watchpoint", "8", "x", "rw">>), A(<<"watchpoint", "8">>),
    A(<<"fentry", "f">>), A(<<"fexit", "g">>), A(<<"fentry", "h">>),
    A(<<"fentry", "f*">>), A(<<"fentry", "bpf">>), A(<<"fentry", "bpf", "f">>),
    A(<<"fentry", "bpf", "8", "f">>), A(<<"fentry", "bpf", "x", "f">>),
    A(<<"fentry", "bpf", "*", "f">>), A(<<"fentry", "m", "f", "f">>),
    A(<<"iter", "f">>), A(<<"iter", "f", "p">>), A(<<"iter">>),
    A(<<"rawtracepoint", "f">>), A(<<"rawtracepoint", "m", "f">>),
    A(<<"begin">>), A(<<"end", "*">>), A(<<"begin", "f">>),
    A(<<"self", "m", "f">>), A(<<"self", "f">>), A(<<"bench", "f">>), A(<<"bench">>),
    A(<<"">>), A(<<"bogus", "f">>), [parts |-> <<"kprobe">>, lexok |-> FALSE] }

\* Probe type wildcards: several kernel matches, the single match k*, no
\* match, a path in the second part (userspace), and one part alone.
MC_Wildcards ==
  { A(<<"*", "f">>), A(<<"*">>), A(<<"k*", "f">>), A(<<"z*", "f">>),
    A(<<"*", "/bin/sh", "f">>), A(<<"*probe", "/bin/sh", "f">>),
    A(<<"t*", "f", "f", "f">>) }

MC_APs == MC_Explicit \cup MC_Wildcards

\* A wildcard probe type with four arguments, which no provider takes.
MC_AritySpread == { A(<<"*", "f", "f", "f", "f">>), A(<<"kprobe", "f">>) }

\* A C++ function of the PID's executable, its target left out.
MC_PidLang == { A(<<"uprobe", "cpp", "f">>), A(<<"uprobe", "/bin/sh", "cpp", "f">>) }
=============================================================================
