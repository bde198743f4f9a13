----------------------------- MODULE ProbeMatcher -----------------------------
(***************************************************************************)
(* ProbeMatcher: the symbol oracle the attach point parser asks to expand *)
(* a wildcard.  get_matches_in_stream filters the lines of a symbol       *)
(* stream by a search input; expand_probetype_kernel/_userspace match a   *)
(* probe type pattern against the kernel or the userspace probe list,      *)
(* which kernel_probe_list/userspace_probe_list build from PROBE_LIST.    *)
(*                                                                         *)
(* A symbol or probe name is a string; what the wildcard matcher and the  *)
(* demangler (outside this component) do with it is given as constants.   *)
(***************************************************************************)
EXTENDS Naturals, FiniteSets, Sequences

CONSTANTS
  ProbeList,            \* PROBE_LIST: a sequence of [name, type, kernel, user]
  HasFentry,            \* feature_->has_fentry()
  WildcardMatch(_, _),  \* util::wildcard_match(line, search input)
  Demangle(_, _),       \* cxxdemangle(line) (parameters cut when the 2nd
                        \* argument holds), or "" when line is not mangled
  HasParam(_),          \* the search input contains '('
  PartVariant(_)        \* the line contains ".part."

(***************************************************************************)
(* get_matches_in_stream: a line matches when the search input matches it *)
(* or, with demangling on, its demangled name (parameters cut unless the   *)
(* search input has a '('); ".part.N" kprobe variants are skipped.        *)
(***************************************************************************)
MatchesInStream(search, lines, demangle) ==
  LET truncate == ~HasParam(search)
      Matched(l) ==
        \/ WildcardMatch(l, search)
        \/ /\ demangle
           /\ Demangle(l, truncate) # ""
           /\ WildcardMatch(Demangle(l, truncate), search)
  IN {l \in lines : Matched(l) /\ ~PartVariant(l)}

Names(s) == {s[k].name : k \in 1 .. Len(s)}

\* kernel_probe_list: the probe types shown in the kernel list, fentry only
\* when the kernel supports it.
KernelProbeList ==
  Names(SelectSeq(ProbeList,
         LAMBDA p : p.kernel /\ (p.type = "fentry" => HasFentry)))

\* userspace_probe_list: the probe types shown in the userspace list.
UserspaceProbeList == Names(SelectSeq(ProbeList, LAMBDA p : p.user))

\* expand_probetype_kernel / expand_probetype_userspace: a pattern with a
\* wildcard is matched against the list, a plain name stands for itself.
ExpandProbetype(probe_type, list, wild) ==
  IF wild THEN MatchesInStream(probe_type, list, FALSE) ELSE {probe_type}

ExpandProbetypeKernel(probe_type, wild) ==
  ExpandProbetype(probe_type, KernelProbeList, wild)

ExpandProbetypeUserspace(probe_type, wild) ==
  ExpandProbetype(probe_type, UserspaceProbeList, wild)
=============================================================================
