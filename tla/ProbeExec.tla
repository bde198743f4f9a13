------------------------------ MODULE ProbeExec ------------------------------
(***************************************************************************)
(* The BPF program that CodegenLLVM::generateProbe emits for one probe,    *)
(* executed by the kernel on several CPUs.                                 *)
(*                                                                         *)
(* A probe body is compiled into a sequence of operations (Code).  Each    *)
(* CPU keeps a stack of invocations of that program: a new invocation on a *)
(* CPU starts either when the CPU is idle or while the invocation on top   *)
(* of its stack is inside a BPF helper call (map update, ring-buffer       *)
(* output, map lookup), which is how a probe on a function the helper      *)
(* calls (e.g. queued_spin_lock_slowpath, page_fault_user) nests on the    *)
(* same CPU.  BPF programs are not preempted between helper calls, so the  *)
(* code between two helper calls is one atomic step here.                  *)
(*                                                                         *)
(* State kept by the generated code:                                       *)
(*   rflag   the per-CPU recursion_prevention array value (key 0)          *)
(*   loss    the per-CPU EVENT_LOSS_COUNTER global                         *)
(*   present whether the aggregation key exists in the per-CPU hash map    *)
(*   val     the per-CPU slots of that key's count value                   *)
(*   rb      the number of records waiting in the ring buffer              *)
(***************************************************************************)
EXTENDS Naturals, Sequences, FiniteSets, Functions

CONSTANTS
  CPUs,            \* the CPUs the probe fires on
  Body,            \* the probe body: a sequence of Stmts
  RecursionCheck,  \* BPFtrace::need_recursion_check_
  MaxFires,        \* bound on the number of probe firings
  MaxDepth,        \* bound on the nesting depth on one CPU
  RingCap          \* ring buffer capacity, in records

Stmts == {"pred", "count", "hist", "lhist", "printf", "exit", "call"}

ASSUME /\ CPUs # {}
       /\ Body \in Seq(Stmts)
       /\ RecursionCheck \in BOOLEAN
       /\ MaxFires \in Nat /\ MaxDepth \in Nat \ {0} /\ RingCap \in Nat

VARIABLES
  stack,    \* stack[c]: program counters of the invocations running on c
  rflag,    \* rflag[c]: recursion prevention value of CPU c
  loss,     \* loss[c]: event loss counter of CPU c
  present,  \* the aggregation map key exists
  val,      \* val[c]: CPU c's slot of the aggregation value
  rb,       \* records in the ring buffer
  fired,    \* history: number of probe firings so far
  counted,  \* history: number of count/hist updates that took effect
  emitted,  \* history: number of ring buffer outputs attempted
  rejected, \* history: number of invocations the recursion check turned away
  consumed  \* history: number of records user space has read

hist == <<emitted, rejected, consumed>>
vars == <<stack, rflag, loss, present, val, rb, fired, counted, hist>>

(***************************************************************************)
(* Compilation of a probe (generateProbe, visit(Predicate), visit(Call)).  *)
(* Operations:                                                             *)
(*   "check"   CreateCheckSetRecursion at the entry                        *)
(*   "pred"    the predicate: on false, createRet                          *)
(*   "log2"    the call of the inlined log2 function of hist()             *)
(*   "linear"  the call of the inlined linear function of lhist()          *)
(*   "lookup"  map_lookup_elem of CreatePerCpuMapElemAdd                   *)
(*   "update"  CreatePerCpuMapElemInit: map_update_elem(BPF_ANY) of 1      *)
(*   "output"  bpf_ringbuf_output of an async event (printf, exit)         *)
(*   "subprog" the call of a script function (a BPF subprogram) whose     *)
(*             body calls no helper                                        *)
(*   "ret"     createRet                                                   *)
(***************************************************************************)
StmtCode(s) ==
  CASE s = "pred"   -> <<"pred">>
    [] s = "count"  -> <<"lookup", "update">>
    [] s = "hist"   -> <<"log2", "lookup", "update">>
    [] s = "lhist"  -> <<"linear", "lookup", "update">>
    [] s = "printf" -> <<"output">>
    [] s = "exit"   -> <<"output", "ret">>
    [] s = "call"   -> <<"subprog">>

RECURSIVE CompileBody(_)
CompileBody(b) ==
  IF b = <<>> THEN <<>> ELSE StmtCode(Head(b)) \o CompileBody(Tail(b))

Code ==
  (IF RecursionCheck THEN <<"check">> ELSE <<>>) \o CompileBody(Body) \o <<"ret">>

\* Operations that call a BPF helper: a nested probe can fire inside them.
HelperOps == {"lookup", "update", "output"}

\* The returns emitted by createRet (the probe's own and those of the
\* inlined helper functions) clear the recursion flag.
Unset(c) == IF RecursionCheck THEN rflag' = [rflag EXCEPT ![c] = 0]
                              ELSE UNCHANGED rflag

Top(c) == stack[c][Len(stack[c])]
Op(c) == Code[Top(c)]
Goto(c, pc) == stack' = [stack EXCEPT ![c][Len(stack[c])] = pc]
Pop(c) == stack' = [stack EXCEPT ![c] = SubSeq(@, 1, Len(@) - 1)]
Running(c) == stack[c] # <<>>

Init ==
  /\ stack = [c \in CPUs |-> <<>>]
  /\ rflag = [c \in CPUs |-> 0]
  /\ loss = [c \in CPUs |-> 0]
  /\ present = FALSE
  /\ val = [c \in CPUs |-> 0]
  /\ rb = 0
  /\ fired = 0
  /\ counted = 0
  /\ emitted = 0 /\ rejected = 0 /\ consumed = 0

(***************************************************************************)
(* The kernel runs the program on CPU c: on an idle CPU, or nested inside  *)
(* a helper call of the invocation currently on top of c's stack.          *)
(***************************************************************************)
Fire(c) ==
  /\ fired < MaxFires
  /\ Len(stack[c]) < MaxDepth
  /\ IF Running(c) THEN Op(c) \in HelperOps ELSE TRUE
  /\ stack' = [stack EXCEPT ![c] = Append(@, 1)]
  /\ fired' = fired + 1
  /\ UNCHANGED <<rflag, loss, present, val, rb, counted, hist>>

\* Mutant: the xchg result is tested but the flag is never stored.
CheckNoSet(c) ==
  /\ Running(c) /\ Op(c) = "check"
  /\ IF rflag[c] = 0
       THEN Goto(c, Top(c) + 1) /\ UNCHANGED loss
       ELSE Pop(c) /\ loss' = [loss EXCEPT ![c] = @ + 1]
  /\ rejected' = IF rflag[c] = 0 THEN rejected ELSE rejected + 1
  /\ UNCHANGED <<rflag, present, val, rb, fired, counted, emitted, consumed>>

\* Mutant: the flag is taken with an atomic add instead of an xchg, so a
\* rejected invocation raises it past 1.
CheckAdd(c) ==
  /\ Running(c) /\ Op(c) = "check"
  /\ rflag' = [rflag EXCEPT ![c] = @ + 1]
  /\ IF rflag[c] = 0
       THEN Goto(c, Top(c) + 1) /\ UNCHANGED loss
       ELSE Pop(c) /\ loss' = [loss EXCEPT ![c] = @ + 1]
  /\ rejected' = IF rflag[c] = 0 THEN rejected ELSE rejected + 1
  /\ UNCHANGED <<present, val, rb, fired, counted, emitted, consumed>>

(* CreateCheckSetRecursion: xchg(flag, 1); if it was set, increment the    *)
(* event loss counter and return without touching the flag.               *)
Check(c) ==
  /\ Running(c) /\ Op(c) = "check"
  /\ rflag' = [rflag EXCEPT ![c] = 1]
  /\ IF rflag[c] = 0
       THEN Goto(c, Top(c) + 1) /\ UNCHANGED loss
       ELSE Pop(c) /\ loss' = [loss EXCEPT ![c] = @ + 1]
  /\ rejected' = IF rflag[c] = 0 THEN rejected ELSE rejected + 1
  /\ UNCHANGED <<present, val, rb, fired, counted, emitted, consumed>>

(* visit(Predicate): a false predicate returns through createRet.         *)
Pred(c) ==
  /\ Running(c) /\ Op(c) = "pred"
  /\ \/ Goto(c, Top(c) + 1) /\ UNCHANGED rflag
     \/ Pop(c) /\ Unset(c)
  /\ UNCHANGED <<loss, present, val, rb, fired, counted, hist>>

(* The call of log2()/linear(): every return of these functions is built  *)
(* by createRet, which clears the recursion flag.                         *)
HistHelper(c) ==
  /\ Running(c) /\ Op(c) \in {"log2", "linear"}
  /\ Goto(c, Top(c) + 1)
  /\ Unset(c)
  /\ UNCHANGED <<loss, present, val, rb, fired, counted, hist>>

(* The call of a script function: the subprogram's return, at the end of  *)
(* a void body or at a return statement, is built by createRet, which      *)
(* clears the recursion flag of the probe that called it.                  *)
SubprogRet(c) ==
  /\ Running(c) /\ Op(c) = "subprog"
  /\ Goto(c, Top(c) + 1)
  /\ Unset(c)
  /\ UNCHANGED <<loss, present, val, rb, fired, counted, hist>>

(* CreatePerCpuMapElemAdd: lookup; on success load, add 1, store into     *)
(* this CPU's slot (no helper in between); on failure go on to the        *)
(* CreatePerCpuMapElemInit update.                                         *)
Lookup(c) ==
  /\ Running(c) /\ Op(c) = "lookup"
  /\ IF present
       THEN /\ Goto(c, Top(c) + 2)
            /\ val' = [val EXCEPT ![c] = @ + 1]
            /\ counted' = counted + 1
       ELSE Goto(c, Top(c) + 1) /\ UNCHANGED <<val, counted>>
  /\ UNCHANGED <<rflag, loss, present, rb, fired, hist>>

\* Mutant: the initial value written is a whole per-CPU array (1 for this
\* CPU, 0 for the others), overwriting the other CPUs' slots.
UpdateZeroOthers(c) ==
  /\ Running(c) /\ Op(c) = "update"
  /\ Goto(c, Top(c) + 1)
  /\ val' = [d \in CPUs |-> IF d = c THEN 1 ELSE 0]
  /\ present' = TRUE
  /\ counted' = counted + 1
  /\ UNCHANGED <<rflag, loss, rb, fired, hist>>

(* map_update_elem(map, key, 1, BPF_ANY) from a BPF program on a per-CPU  *)
(* hash: a new element gets 1 in this CPU's slot and 0 elsewhere, an      *)
(* existing one has this CPU's slot overwritten.                           *)
Update(c) ==
  /\ Running(c) /\ Op(c) = "update"
  /\ Goto(c, Top(c) + 1)
  /\ val' = IF present THEN [val EXCEPT ![c] = 1]
                       ELSE [d \in CPUs |-> IF d = c THEN 1 ELSE 0]
  /\ present' = TRUE
  /\ counted' = counted + 1
  /\ UNCHANGED <<rflag, loss, rb, fired, hist>>

\* Mutant: the loss branch tests ret > 0, so a failed output is not counted.
OutputNoCount(c) ==
  /\ Running(c) /\ Op(c) = "output"
  /\ Goto(c, Top(c) + 1)
  /\ IF rb < RingCap THEN rb' = rb + 1 ELSE UNCHANGED rb
  /\ emitted' = emitted + 1
  /\ UNCHANGED <<rflag, loss, present, val, fired, counted, rejected, consumed>>

(* CreateRingbufOutput: a failed bpf_ringbuf_output (ring full) bumps the *)
(* CPU's event loss counter (CreateIncEventLossCounter).                   *)
Output(c) ==
  /\ Running(c) /\ Op(c) = "output"
  /\ Goto(c, Top(c) + 1)
  /\ IF rb < RingCap
       THEN rb' = rb + 1 /\ UNCHANGED loss
       ELSE loss' = [loss EXCEPT ![c] = @ + 1] /\ UNCHANGED rb
  /\ emitted' = emitted + 1
  /\ UNCHANGED <<rflag, present, val, fired, counted, rejected, consumed>>

\* Mutant: the return does not unset the recursion flag.
RetKeepFlag(c) ==
  /\ Running(c) /\ Op(c) = "ret"
  /\ Pop(c)
  /\ UNCHANGED <<rflag, loss, present, val, rb, fired, counted, hist>>

(* createRet at the end of the probe or after exit().                      *)
Ret(c) ==
  /\ Running(c) /\ Op(c) = "ret"
  /\ Pop(c)
  /\ Unset(c)
  /\ UNCHANGED <<loss, present, val, rb, fired, counted, hist>>

(* User space drains one record from the ring buffer.                      *)
Consume ==
  /\ rb > 0
  /\ rb' = rb - 1
  /\ consumed' = consumed + 1
  /\ UNCHANGED <<stack, rflag, loss, present, val, fired, counted, emitted, rejected>>

Step(c) == Check(c) \/ Pred(c) \/ HistHelper(c) \/ SubprogRet(c) \/ Lookup(c)
             \/ Update(c) \/ Output(c) \/ Ret(c)

Next ==
  \/ \E c \in CPUs : Fire(c) \/ Step(c)
  \/ Consume

(* A BPF program, once running, runs to completion: the CPU keeps         *)
(* executing it.  User space keeps polling the ring buffer.               *)
Fairness == /\ \A c \in CPUs : WF_vars(Step(c))
            /\ WF_vars(Consume)

Spec == Init /\ [][Next]_vars /\ Fairness

-----------------------------------------------------------------------------
TypeOK ==
  /\ stack \in [CPUs -> Seq(1 .. Len(Code))]
  /\ \A c \in CPUs : Len(stack[c]) <= MaxDepth
  /\ rflag \in [CPUs -> {0, 1}]
  /\ loss \in [CPUs -> Nat]
  /\ present \in BOOLEAN
  /\ val \in [CPUs -> Nat]
  /\ rb \in 0 .. RingCap
  /\ fired \in 0 .. MaxFires
  /\ counted \in Nat
  /\ hist \in Nat \X Nat \X Nat

\* The invocations on c that passed the recursion check and have not returned.
Guarded(c) == {i \in 1 .. Len(stack[c]) : stack[c][i] > 1}

(* The recursion check (CreateCheckSetRecursion at probe entry,           *)
(* CreateUnSetRecursion on return) admits at most one invocation per CPU  *)
(* into the probe body: while one has entered and not returned, an        *)
(* invocation nested on the same CPU is turned away.                       *)
GuardExclusive ==
  RecursionCheck => \A c \in CPUs : Cardinality(Guarded(c)) <= 1

(* Every count()/hist() update that took effect is reflected in the       *)
(* per-CPU value read back by user space: the sum over CPUs of the key's  *)
(* slots equals the number of updates (no lost update between the lookup  *)
(* miss and the BPF_ANY initialisation of CreatePerCpuMapElemAdd).         *)
CountsAccurate ==
  SumFunction(val) = counted

(* A CPU that runs no invocation has its recursion flag clear: every      *)
(* return path of the generated program (end of body, false predicate,    *)
(* exit()) goes through createRet, so no CPU is left dropping all later   *)
(* events of the probe.                                                    *)
IdleFlagClear ==
  \A c \in CPUs : ~Running(c) => rflag[c] = 0

(* No event goes missing without a trace: every record a probe tried to  *)
(* output is still in the ring buffer, was read by user space, or was     *)
(* counted in the event loss counter, which also counts every invocation  *)
(* the recursion check turned away.  (CreateRingbufOutput's test of the   *)
(* helper's result and CreateIncEventLossCounter, with the ring buffer    *)
(* full and invocations on two CPUs sharing one counter name.)            *)
EventsAccounted ==
  emitted + rejected = rb + consumed + SumFunction(loss)
=============================================================================
