-------------------------- MODULE MC_ProbeExecPair --------------------------
(***************************************************************************)
(* Two instances of ProbeExec checked in one model, a behaviour running   *)
(* one of them while the other stays in its initial state:                *)
(*   G  a kprobe with a predicate, count() and exit() under the recursion *)
(*      check, nesting up to depth 3 on a CPU;                             *)
(*   K  hist()/lhist() and a script function call in a probe type the     *)
(*      kernel never nests (depth 1), without the recursion check.        *)
(***************************************************************************)
EXTENDS Naturals, Sequences

CONSTANTS c1, c2

VARIABLES
  inst,                                                          \* "G" or "K"
  gstack, grflag, gloss, gpresent, gval, grb, gfired, gcounted,  \* instance G
  gemitted, grejected, gconsumed,
  kstack, krflag, kloss, kpresent, kval, krb, kfired, kcounted,  \* instance K
  kemitted, krejected, kconsumed

G == INSTANCE ProbeExec WITH
       CPUs <- {c1, c2}, Body <- <<"pred", "count", "printf", "exit">>,
       RecursionCheck <- TRUE, MaxFires <- 4, MaxDepth <- 3, RingCap <- 1,
       stack <- gstack, rflag <- grflag, loss <- gloss, present <- gpresent,
       val <- gval, rb <- grb, fired <- gfired, counted <- gcounted,
       emitted <- gemitted, rejected <- grejected, consumed <- gconsumed

K == INSTANCE ProbeExec WITH
       CPUs <- {c1, c2}, Body <- <<"hist", "lhist", "call", "printf">>,
       RecursionCheck <- FALSE, MaxFires <- 4, MaxDepth <- 1, RingCap <- 1,
       stack <- kstack, rflag <- krflag, loss <- kloss, present <- kpresent,
       val <- kval, rb <- krb, fired <- kfired, counted <- kcounted,
       emitted <- kemitted, rejected <- krejected, consumed <- kconsumed

gvars == <<gstack, grflag, gloss, gpresent, gval, grb, gfired, gcounted,
          gemitted, grejected, gconsumed>>
kvars == <<kstack, krflag, kloss, kpresent, kval, krb, kfired, kcounted,
          kemitted, krejected, kconsumed>>
vars == <<inst, gvars, kvars>>

Init == inst \in {"G", "K"} /\ G!Init /\ K!Init

RunG(act) == inst = "G" /\ act /\ UNCHANGED <<inst, kvars>>
RunK(act) == inst = "K" /\ act /\ UNCHANGED <<inst, gvars>>

Next == RunG(G!Next) \/ RunK(K!Next)

\* Only safety properties are checked, so no fairness is assumed.
Spec == Init /\ [][Next]_vars

\* The type invariants of both instances.
TypeOK == G!TypeOK /\ K!TypeOK

(* GuardExclusive of ProbeExec: under the recursion check at most one     *)
(* invocation per CPU is inside the probe body.                            *)
GuardExclusive == G!GuardExclusive /\ K!GuardExclusive

(* CountsAccurate of ProbeExec, for both bodies: the per-CPU slots of the *)
(* count/hist key sum to the updates that took effect.                    *)
CountsAccurate == G!CountsAccurate /\ K!CountsAccurate

(* IdleFlagClear of ProbeExec: every return path clears the CPU's         *)
(* recursion flag.                                                         *)
IdleFlagClear == G!IdleFlagClear /\ K!IdleFlagClear

(* EventsAccounted of ProbeExec, for both bodies: every output attempted *)
(* is in the ring buffer, read, or counted as lost, and every invocation  *)
(* turned away by the recursion check is counted as lost.                 *)
EventsAccounted == G!EventsAccounted /\ K!EventsAccounted
=============================================================================
