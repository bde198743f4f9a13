---------------------------- MODULE MC_ProbeExec ----------------------------
(***************************************************************************)
(* Model-checking instances of ProbeExec.                                  *)
(***************************************************************************)
EXTENDS ProbeExec

CONSTANTS c1, c2

MC_CPUs == {c1, c2}

\* hist(), a call of a script function, then count(), under the recursion
\* check: both the inlined log2 and the subprogram return with createRet.
MC_BodyHistGuarded == <<"hist", "call", "count">>

=============================================================================
