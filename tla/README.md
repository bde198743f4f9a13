# TLA+ models of bpftrace's generated probe programs and front end

This directory holds TLA+ specifications of parts of bpftrace (sources under
`src/`), the TLC configurations that check them, and `PROJECT.json`. That file
lists the components, runs, mutants, the mapping from definitions to source
lines, findings and hazards.

## The system and its parts

bpftrace compiles a script into BPF programs, one per attach point. The kernel
runs those programs on every CPU, and user space reads their maps and a ring
buffer. The parts that matter to a model checker are these:

| Part | Source | What changes state |
|---|---|---|
| Probe program control | `codegen_llvm.cpp` generateProbe, createRet, visit(Predicate), exit; `irbuilderbpf.cpp` CreateCheckSetRecursion / CreateUnSetRecursion | the per-CPU `recursion_prevention` flag, early returns |
| Async output | `irbuilderbpf.cpp` CreateOutput, CreateRingbufOutput, CreateIncEventLossCounter | ring buffer, per-CPU event loss counter |
| Per-CPU aggregations | `codegen_llvm.cpp` visit(Call) count/sum/min/max/avg/hist/lhist/tseries/delete; `irbuilderbpf.cpp` CreatePerCpuMapElemAdd/Init, CreatePerCpuMapAggElems | per-CPU hash map slots |
| log2/linear helpers | `codegen_llvm.cpp` createLog2Function, createLinearFunction | none of their own, but every one of their returns is a createRet |
| Scratch buffers | `irbuilderbpf.cpp` createScratchBuffer, createGetScratchMap | an early return on a lookup failure that cannot happen |
| Watchpoint setup probe | `codegen_llvm.cpp` generateWatchpointSetupProbe | ring buffer and the recursion flag |
| Loops | `codegen_llvm.cpp` visit(While), visit(Jump), visit(For), createForContext, createForCallback; `irbuilderbpf.cpp` CreateForRange, CreateForEachMapElem | the loop's blocks, the callback's return value, captured variables through the context |
| String, buffer and array comparisons | `codegen_llvm.cpp` binop_string, binop_buf, binop_integer_array, visit(Call) strncmp/strcontains/buf; `irbuilderbpf.cpp` CreateStrncmp, CreateStrcontains, CreateIntegerArrayCmp | none: pure routines emitted inline |
| Attach point parser | `ast/attachpoint_parser.cpp` lex_attachpoint, parse, parse_attachpoint | the probe's list of attach points, positional parameter expansion |
| Probe matcher | `probe_matcher.cpp` | none: a filter over symbol lists |
| Feature detection, pcap writer, clang build, resource and portability passes | `bpffeature.h`, `pcap_writer.cpp`, `clang_build.cpp`, `codegen_resources.cpp`, `resource_analyser.h`, `required_resources.h`, `portability_analyser.h` | I/O or a one-shot AST pass |

How the parts interact at run time:
- The same program can run on several CPUs at once.
- On one CPU, a program can also run nested inside one of its own helper
  calls. This happens when the probe is attached to a kernel function that the
  helper reaches, such as a spin lock slow path or a page fault.
- When `need_recursion_check_` is set, the program starts with an atomic xchg
  of its CPU's flag. If the flag was already set, the program counts a lost
  event and returns.
- Every createRet clears the flag.
- Aggregations are per-CPU map slots. User space sums them.

## Modules

### ProbeExec (`ProbeExec.tla`, `MC_ProbeExec.tla`)

ProbeExec models one probe's generated program, executed by the kernel on
the CPUs in `CPUs`.

- **State:**
  - `stack[c]` holds the program counters of the invocations nested on CPU c.
  - `rflag` is the recursion flag.
  - `loss` is the event loss counter.
  - `present` and `val` are the aggregation key's existence and its per-CPU
    slots.
  - `rb` counts the ring buffer's records.
  - `fired`, `counted`, `emitted`, `rejected` and `consumed` are history
    counters: firings, updates that took effect, outputs attempted,
    invocations the recursion check turned away, and records user space read.
- **Compilation.** The probe body is a sequence of statements (`Body`).
  `StmtCode` and `CompileBody` turn it into the operations the code emits:
  - `check` (CreateCheckSetRecursion);
  - `pred` (visit(Predicate));
  - `log2` and `linear` (the inlined helper calls of hist and lhist);
  - `lookup` and `update` (CreatePerCpuMapElemAdd and CreatePerCpuMapElemInit);
  - `output` (CreateRingbufOutput);
  - `ret` (createRet).
- **Actions.** There is one per operation, plus two more:
  - `Fire`: the kernel starts an invocation, either on an idle CPU or nested in
    a helper call of the top invocation.
  - `Consume`: user space drains the ring buffer.
- **Subprograms.** A `call` statement runs a script subprogram. Its return
  (`SubprogRet`) is built with createRet, like every return, and so unsets
  the recursion flag.
- **Atomicity.** Code between two helper calls is one step, because BPF
  programs are not preempted. The load, add and store that follow a successful
  lookup are therefore one step.

The bounds are two CPUs, at most 2 to 4 firings, a nesting depth of 2 or 3,
and a ring buffer of one record. These bounds are enough for these cases:
- two CPUs that both miss the lookup;
- a nested invocation inside each helper call;
- a full ring buffer.

`ProbeExec`'s `Spec` carries weak fairness on each CPU's steps (a running
BPF program runs to completion) and on `Consume` (the event loop keeps
polling), but no liveness property is checked: with straight-line code every
invocation returns by the shape of the model, so such a property would show
nothing. The runs use the safety part only. Deadlock checking is off because the system is idle once probes stop firing.

`MC_ProbeExecPair` (run `probe`) checks two instances in one state space,
selected by `inst` in `Init`, the other staying in its initial state: `G`, the
recursion-checked kprobe with a predicate, count(), printf() and exit() (four
firings, depth three), and `K`, hist()/lhist() with a script function call in
a probe type that never nests (depth one, no recursion check). `MC_ProbeExec` keeps the body of the
`hist_guarded` violation run.

### AggArith (`AggArith.tla`)

AggArith holds the pure arithmetic of aggregations as operators, at a register
width of W = 2^LogW bits (the code has 64; the runs use 8).
- `LeftmostBit` and `Log2` are the inlined log2(n, k) of hist(). LeftmostBit is
  the binary search for the leftmost 1, written RECURSIVE over i.
- `Linear` is the inlined linear(value, min, max, step) of lhist().
- `AvgDiv` is the final division of an avg() read. A negative signed total is
  negated, divided unsigned and negated back.
- `Log2Ref`, `LinearRef` and `AvgRef` are reference definitions, written from
  the functions' comments and from what the aggregation means.
- The only variable, `in`, is one input record. Init enumerates every input
  and Next leaves it unchanged, so the invariants are checked on every input.

With 8 bits, every register value is enumerated, the sign bit included.

### PerCpuAgg (`PerCpuAgg.tla`, `MC_PerCpuAgg.tla`)

PerCpuAgg models one aggregation key of one kind (`Kind`) in a per-CPU hash or
array (`MapKind`), updated by one probe on `NumCpus` CPUs.
- **State:**
  - `stack[c]` holds the nested invocations on CPU c. Each is an operation
    index, the argument, and the lookup's result and the element generation it
    saw.
  - `present` says whether the element exists.
  - `gen` counts re-creations of the element.
  - `slot[c]` is CPU c's pair in the element.
  - `fired` counts firings.
  - `contrib` records the updates since the last delete, per CPU.
- **Operations** (`AggCode`):
  - count and sum evaluate their argument first, then look up the key.
  - min, max and avg look up first (`CreateMapLookup` at codegen 915) and
    evaluate the argument afterwards. With `ExprHelper`, the argument is a
    helper call that a nested invocation can interrupt.
  - `Apply` writes through the pointer (`SlotAdd`, `Wins`) or, on a miss,
    moves to `InitElem`. InitElem is the BPF_ANY map_update_elem: it writes the
    own slot of an existing element, or it creates the element and zeroes the
    other CPUs' slots.
  - `Delete` is delete(). For an array it stores zero in the own slot. For a
    hash it removes the element.
- **Stale pointers.** A pointer taken before a delete is written either into
  freed memory (the write is lost) or into a re-created element that reuses
  the memory. These are the two disjuncts of `Apply`.
- **Read side.** `ReadLoop` is CreatePerCpuMapAggElems: it walks the CPUs,
  stops at the first failed lookup, and combines the slots with `ReadSlot`
  (`createPerCpuSum`, `createPerCpuMinMax` and `createPerCpuAvg`).
- **Abstract value.** `AbsValue` is the aggregate of the updates in `contrib`,
  the value an atomic aggregation would hold. `AggMatches` compares it with
  what the read loop returns in every state, which also implies that every
  step changes the value read back as one atomic update or delete would, so
  no separate refinement property is checked.

`MC_PerCpuAgg` checks three instances in one state space, selected by `inst`
in `Init`: min() in a hash with delete() (four firings, depth one), avg()
in an array with a helper call as the argument (three firings, depth two),
and the min() t-series instance `T` of TSeries described below.
The bounds are two CPUs, three or four firings, and a nesting depth of one or
two. With them, both CPUs update the key, a delete lands between one CPU's
lookup and its write, and an invocation nests between lookup and write. Only
safety is checked.

### TSeries (`TSeries.tla`, `MC_TSeries.tla`)

TSeries models the code of `tseries(@m, interval_ns, num_intervals, agg)`
(`codegen_llvm.cpp:1122-1358`) for one map key of a per-CPU hash. The
buckets are the map's elements, and each element has a `{value, meta, epoch}`
slot per CPU.
- **State:** `clock` (the time `createGetNsSwTAI` reads: boot time plus a
  constant, so it only moves forward), `stack[c]` (the nested invocations on
  CPU c, each with its time, epoch, bucket, lookup result, local struct and
  argument), `present` (the buckets whose element exists), `slot[c][b]`, and
  the history `abs[c][b]`: the updates CPU c made to bucket b in the latest
  epoch it used the bucket for.
- **Actions**, in the order of the code:
  - `Now` reads the time and computes the epoch and the bucket.
  - `Lookup` is the lookup and the maybe_clear block. On success the
    slot is reset when its stored epoch differs. On failure the local struct
    `{0, 0, epoch}` is used.
  - `Expr` evaluates the argument.
  - `Apply` updates value and meta by `agg` (`CreateMinMax` for min and max)
    and stores the epoch, through the pointer.
  - `Update` is the `map_update_elem(BPF_ANY)` of the local struct after a
    missed lookup. It creates the element with zeroes in the other CPUs'
    slots.
  - `Fire` starts an invocation, either on an idle CPU or inside one of the
    helpers (the time read, the lookup, the argument, the update).
  - `Tick` advances the clock, also while invocations run.
- **Abstract t-series.** `AbsUpdate` is what the spec promises. An update of a
  newer epoch starts the bucket afresh. One of the same epoch joins it, and an
  older one is dropped. `Expected` turns that into the slot the code should
  hold.
- **Init.** With `InitPresent`, every bucket starts out written once by each
  CPU in the last earlier epoch that maps to it. This is the steady state after
  `num_intervals` intervals, and the reset on a new epoch has something to
  clear.
- **Bounds.** The `T` instance of `MC_PerCpuAgg` (run `agg`) uses two CPUs,
  min(), interval 2 ns, two buckets, `InitPresent` (each slot written in the
  bucket's previous epoch, so the first update of an epoch resets it), times
  6 to 9 (epochs 3 and 4), 3 firings and nesting depth 2. An invocation
  nested in the argument's helper after the outer one's reset sees the old
  epoch, resets again and updates, and the outer update then adds to it
  (hazard at `codegen_llvm.cpp:1304`). The clock spans less than
  num_intervals intervals, so the late reset of `tseries_wrap` cannot happen. `tseries_wrap` uses one CPU, avg(), nesting depth 2, and times 3 to
  5, so the clock can pass two boundaries (one bucket's reuse) while an
  invocation runs.
- **Losing an update on a first write.** When a bucket's lookup misses and
  an invocation nested in the argument's helper creates the bucket, the outer
  BPF_ANY store of the local struct overwrites it, as with count().
  spec.md calls aggregation updates atomic-free, so this is listed as a
  hazard: `TSeries_wrap.cfg` with `InitPresent = FALSE` and `MaxTime = 3`
  shows it.

### AttachPointLexer (`AttachPointLexer.tla`, `MC_AttachPointLexer.tla`)

AttachPointLexer models `AttachPointParser::lex_attachpoint`
(`attachpoint_parser.cpp:201-268`). A string is a sequence of one-character
strings, and one loop iteration is one step.
- **The branch chain.** `Branch` gives the if / else-if chain in the code's
  order:
  - `Colon`: ':' outside quotes;
  - `Quote`: '"';
  - `Escape`: '\' inside quotes, with a character after it;
  - `Param`: '$' outside quotes;
  - `Char`: any other character.
- **Param.** `Param` scans the index digits with `RunLen` (the scan stops at
  a leading '0'). If there are no digits, the input is invalid. Otherwise `raw`
  becomes prefix ++ `get_param(n)` ++ rest, and the index stays on the first
  substituted character (`idx--` before `++idx`). The substituted text is
  lexed again.
- **Finish** appends the last argument.
- **Reference.** The reference definitions state the syntax per character
  position (`InQuotes`, `Escaped`, `SplitRef`, `ValidRef`, `ExpandRef`).
  `Init` enumerates every raw input up to `MaxLen` characters over an alphabet
  that has each special character.

### ProbeMatcher (`ProbeMatcher.tla`)

ProbeMatcher holds the parts of `probe_matcher.cpp` the parser calls, as
operators (the matcher keeps no state of its own).
- `MatchesInStream` is `get_matches_in_stream` (40-102): a line matches when
  the search input matches it or, with demangling on, its demangled name
  (parameters cut unless the search input has a '('). ".part." variants are
  skipped. The wildcard matcher and the demangler are outside `src/`, so they
  are constants (`WildcardMatch`, `Demangle`).
- `KernelProbeList` and `UserspaceProbeList` are `kernel_probe_list` and
  `userspace_probe_list` (374-405): the names of `PROBE_LIST` shown in each
  list, fentry only when the kernel has it.
- `ExpandProbetypeKernel` / `ExpandProbetypeUserspace` (623-639) match a
  pattern with a wildcard against the list; a plain name stands for itself.

### ProviderParsers (`ProviderParsers.tla`)

ProviderParsers extends ProbeMatcher with `parse_attachpoint` and every
provider parser, as operators from the lexed parts, `ignore_invalid` and the
environment (`-p` given, listing mode) to a result: the `State` (ok, skip,
invalid, new_aps), the reason of an INVALID ("arity" for
`argument_count_error`, "value" otherwise) and the AttachPoint fields set.
- `ParseAttachpoint` (93-154): lex failure, no parts and an empty first part
  first; then the probe type wildcard expanded against the userspace list
  (with `-p`, or a '/' in the second part) or the kernel list, with "*" for
  an attach point of one part; no match is INVALID, several are NEW_APS with
  one new attach point per match (the match followed by the other parts).
- `ProviderParse` (155-196) is the switch on `probetype`. Each parser keeps
  its checks in the code's order: `KprobeParser` with `OffsetParse`,
  `UprobeParser` with the `-p` rewrite of the parts and library resolution,
  `UsdtParser`, `TracepointParser` with its auto-wildcard category,
  `FrequencyParser` (profile, interval), `CountParser` (software, hardware),
  `WatchpointParser`, `FentryParser` with the module lookup (`FuncModules`)
  and listing, `IterParser`, `RawTracepointParser`, `SpecialParser` and
  `BenchmarkParser`.
- `ArityFail` is the SKIP-if-ignore_invalid check most parsers make;
  `FrequencyParser`, `WatchpointParser`, `SpecialParser` and
  `BenchmarkParser` call `ArgumentCountError` directly, as the code does.
- **Strings.** TLC cannot take strings apart, so each part is a word of a
  small vocabulary and the `util` helpers (`has_wildcard`, `to_uint`,
  `split_string`, `std::count` of '+') are tables over that vocabulary.
  `expand_probe_name`, `probetype`, `is_supported_lang` and library lookup
  are not under `src/` and are modelled from spec.md.

### AttachPointParse (`AttachPointParse.tla`, `MC_AttachPointParse.tla`)

AttachPointParse models the loop of `AttachPointParser::parse`
(`attachpoint_parser.cpp:45-90`) for one probe.
- **State.** `aps` is `probe->attach_points`; each has an `id` (its position
  as written, then the probe types of the expansions it comes from), its
  parts, whether it lexes, `ignore_invalid` and its fields. `i` is the loop
  index, `failed` the count returned, `errors` the errors given.
- **Parse** is one iteration, with `ParseAttachpoint` as the outcome. After
  SKIP or NEW_APS it erases the attach point, decrements the `size_t` index
  `i` (which wraps at 0, modelled at `IdxBits` bits) and appends the
  expansion, in the order of the `std::set` of matches (`InSetOrder`).
  `Prune` removes empty providers and counts a probe left with none.
- **Reference.** `ParseCorrect` compares the end state with a direct
  definition: every attach point and expansion parsed once, expansions after
  their wildcard's siblings, each with the fields its parser sets, and every
  error counted.
- `MC_AttachPointParse` gives `PROBE_LIST` (the order of a `std::set` of
  names), a wildcard matcher for the patterns used, `FuncModules` with a
  function in one module, in two and in none, and the inputs: `MC_Explicit`
  hits every parser's branches and error paths, `MC_Wildcards` the probe type
  expansions.

### Loops (`Loops.tla`)

The loops of a probe body. The body is a fixed script: break at the value
`brk`, continue at `skip`, otherwise `$n++` and record the value, with `$n` a
variable of the probe that the loop captures.
- **State.** `kind` (while, range or map), the bounds `lo`/`hi` as W64-bit
  patterns, `brk`, `skip`, the order `order` in which
  bpf_for_each_map_elem visits the keys, `pc`, the while variable `i`, the
  callback index `idx`, the number of callbacks `nr`, `$n`, the recorded
  values `seen` and the helper error flag `err`.
- **Actions.**
  - `WhileEnter`, `WhileCond` and `WhileBody` are the blocks of visit(While).
    `Jump` is visit(Jump): break goes to the second block of `loops_.back()`,
    continue to the first.
  - `RangeEnter` is visit(For, Range) with CreateForRange: `Iters` is the
    64-bit end - start; it is cast to W32 bits, tested signed > 0, and a count
    above `MaxLoops` is bpf_loop's -E2BIG, reported by CreateHelperErrorCond.
  - `MapEnter` is CreateForEachMapElem, one callback per element.
  - `Callback` is the function createForCallback builds. `LoopVar` is its
    declaration (start + index, or the key). The body's break and continue go
    to `for_break` and `for_continue`, which return 1 and 0, and `Record`
    increments `$n` through the context pointer of createForContext.
- **Bounds.** W64 = 8 and W32 = 4 scale the 64- and 32-bit widths, and
  `MaxLoops` = 5 scales BPF_MAX_LOOPS. Starts {0, 254} and ends {0, 1, 4, 254}
  give empty and negative ranges, one that wraps through zero, and one of 6
  iterations, above the limit. Break and continue at 0 and 2 hit the first,
  a middle and the last value, and the map has two keys in either order.
- No fairness is needed: `LoopCorrect` is a safety property. The model has
  no unbounded loop, so termination holds by its shape and is not checked.
  A body ends when its loop is done, so deadlock checking is off.

### StringOps (`StringOps.tla`)

The comparison routines IRBuilderBPF emits inline, and their callers.
- `StrncmpFrom` is the loop of CreateStrncmp, RECURSIVE over the index, with
  the code's exits in its order: a differing byte, then a NUL in the first
  string, then the bound. `Strncmp` casts the result to 0 or 1.
- `Strcontains` is CreateStrcontains: an empty needle is contained; the outer
  loop stops at the haystack's size or NUL, the inner one succeeds at the
  needle's NUL and gives up at the haystack's bound or a differing byte.
- `ArrayCmp` is CreateIntegerArrayCmp.
- `BinopString`, `StrncmpCall`, `StrcontainsCall`, `BinopIntegerArray` and
  `BinopBuf` are the callers in CodegenLLVM, with their bounds
  (min of the type sizes, and strncmp()'s n capped by both).
- `BufValue` is the buf() value: the length clamped to `BufLen`, stored as a
  little-endian u32 header, then the zeroed data with that many bytes read.
  The layout is AsyncEvent::Buf from spec.md.
- The only variable, `sin`, is one input; `Result` is visit(Binop)'s dispatch
  on the operand types. `CStr`, `Take`, `IsSubstring` and `Verdict` are the
  reference definitions.
- **Bounds.** Bytes {0,1,2}, string types of 1 to 3 bytes that hold their
  terminator, strncmp() lengths 0 to 4 (past both sizes), arrays of 2
  elements and buffers of 2 data bytes with lengths 0 to 3 (one past the clamp).

### MC_Routines (`MC_Routines.tla`)

AggArith, Loops and StringOps are pure or terminate in a few steps, so one run
checks all three. A variable `inst` chosen in `Init` selects the instance; the
other two keep fixed values, and each property is `inst = X => X!property`.
The instances' constants are those described above.

### MC_AttachPointParser (`MC_AttachPointParser.tla`)

Lexing and parsing are checked in one run: `MC_AttachPointParser`
instantiates `MC_AttachPointLexer` and `MC_AttachPointParse` side by side.
A variable `stage` chosen in `Init` selects which one runs; the other stays in
its initial state. The two state spaces are disjoint, so each invariant is
checked over exactly the states its own model reaches.
The values both instances are checked with (`MC_Alphabet`, `MC_Params`,
`MC_ProbeList`, `MC_WildcardMatch`, `MC_FuncModules`, `MC_APs`, ...) live in
`AttachPointInputs.tla`, a module without constants that the three MC modules
extend, so the combined model gives its constants values that do not depend on
its own instances.

## Runs

| Run | Config | Expect | What it shows |
|---|---|---|---|
| probe | `ProbeExec.cfg` | pass | A recursion-checked probe with a predicate, count(), printf() and exit(), nested on two CPUs. It admits one invocation per CPU into the body (`GuardExclusive`) and loses no count (`CountsAccurate`). No idle CPU keeps its flag set (`IdleFlagClear`). With the one-record ring buffer full, every event attempted is buffered, read or counted in the loss counter, which also counts the invocations the check turned away (`EventsAccounted`). In the same run, hist()/lhist() on two CPUs of a probe type that never nests lose no count, because per-CPU slots make a lookup miss on two CPUs harmless. |
| hist_guarded | `ProbeExec_hist_guarded.cfg` | violation | A probe that calls hist() and a subprogram, under the recursion check, clears its own flag, so a second invocation on the same CPU enters the body (`GuardExclusive`). |
| tseries_wrap | `TSeries_wrap.cfg` | violation | With `num_intervals` boundaries passing during a nested run, the late invocation resets a newer bucket and stamps it older (`TSeriesAccurate`). |
| lexer_selfparam | `AttachPointLexer_selfparam.cfg` | violation | With $1 = "$2" and $2 = "$1", lexing "$1" never ends (`LexTerminates`). |
| parser | `AttachPointParser.cfg` | pass | For every raw input of up to 4 characters, lex_attachpoint accepts exactly the inputs with valid parameter references and returns the expanded input split at unquoted ':' (`LexCorrect`). For every probe of up to 2 attach points drawn from the inputs of `MC_APs`, with and without `-p` and listing, parse() parses each attach point and expansion once, keeps the right ones in order with their fields, and counts every error (`ParseCorrect`). |
| parse_arity | `AttachPointParse_arity.cfg` | violation | "*:f:f:f:f" expands to every kernel probe type, and the profile expansion fails the probe on its argument count (`ExpandedArityNotFatal`). |
| uprobe_pid_lang | `AttachPointParse_pidlang.cfg` | violation | With `-p`, "uprobe:cpp:f" loses its language (`LangKept`). |
| routines | `Routines.cfg` | pass | log2() and linear() bucket every signed value as their comments define (`Log2CorrectSigned`, `LinearCorrectSigned`). The avg division truncates toward zero with the sign of the total, the most negative total included (`AvgCorrect`). while, for over a range and for over a map, with break and continue, run the body for exactly the values before the break less the continued one and count them in the captured `$n`; a range above the bpf_loop limit reports the helper error (`LoopCorrect`). String ==/!=, strncmp() and strcontains() agree with C's string functions on the C strings their operands hold, whatever the type sizes and the bytes after the terminator, and integer array ==/!= compares every element (`CompareCorrect`). |
| arith_unsigned | `AggArith_unsigned.cfg` | violation | An unsigned hist() argument with its top bit set lands in bucket 0 (`Log2Correct`). |
| agg | `PerCpuAgg.cfg` | pass | min() in a per-CPU hash, with delete() racing the updates of two CPUs and stale pointer writes lost or landing in a re-created element, and avg() in a per-CPU array, with invocations nested between lookup and write, read back exactly the aggregate of the updates that took effect (`AggMatches`). A min() t-series on two CPUs, nesting inside its helper calls, over buckets that hold a previous epoch, keeps in every slot the aggregate of its CPU's updates in the bucket's latest epoch (`TSeriesAccurate`): the reset, a nested reset of the same epoch, and another CPU's zeroed slot. |
| range_wrap | `Loops_range_wrap.cfg` | violation | A range of 2^W32 + 1 iterations runs once, with no error (`LoopCorrect`). |
| buf_eq | `StringOps_bufeq.cfg` | violation | buf(a, 2) == buf(b, 2) is 1 for a = <<0,0>> and b = <<0,1>> (`BufEqCorrect`). |

### Finding: returns that are not the probe's end switch off the recursion check

`createRet` emits `CreateUnSetRecursion` when `need_recursion_check_` is set,
and it builds every return. That includes the returns of the inlined log2 and
linear functions of hist()/lhist() (`codegen_llvm.cpp:3947, 3965, 3992, 4065,
4088, 4098`). It also includes the returns of subprograms: the implicit one at
3521 and `return` at 3248-3257. So a probe that calls hist() or a subprogram
clears its own flag mid-body. The `hist_guarded` trace:
1. The outer invocation passes the check.
2. Its log2 call returns and clears the flag.
3. A nested invocation passes the check while the outer one is still in the
   body (`GuardExclusive`).

From there, the nested invocation's BPF_ANY initialisation can overwrite the
outer count. With the body `call, count` alone, TLC finds the same violation
through the subprogram's return (`SubprogRet`).

### Finding: t-series resets a newer bucket from an older epoch

tseries() reads the time first (`codegen_llvm.cpp:1189`). It compares the
stored epoch with its own using `!=` (1287) and stores its epoch last (1338).
In `tseries_wrap`, the time read is epoch 3 (bucket 1), and then:
1. An invocation nested in the lookup helper, at epoch 5 (bucket 1 again),
   resets the bucket, adds its value and stores epoch 5.
2. The outer lookup sees 5 != 3, resets the bucket and stores 3.
3. The epoch-5 update is lost, and the bucket's epoch has gone backwards.

This needs `num_intervals` interval boundaries to pass during the nested run.
That is likely with a small interval or `num_intervals` = 1. The reset
compares with `!=`. A late invocation would do what the abstract t-series
does if it compared with `<` and skipped the update of an older epoch.

### Finding: positional parameters that refer to each other hang the lexer

`lex_attachpoint` substitutes a parameter's value into `raw` and lexes again
from the same index (`attachpoint_parser.cpp:254`). If the values refer to
one another ($1 = "$2", $2 = "$1"), or a value is its own reference, the
substitution never ends. `lexer_selfparam` shows the two-state cycle.

### Finding: log2() and linear() read unsigned arguments as signed

log2 tests `n < 0` with `CreateICmpSLT` (`codegen_llvm.cpp:3942`), and linear
compares with `min` and `max` signed (`codegen_llvm.cpp:4054, 4071`). The
argument is zero-extended when its type is unsigned, so a u64 value of 2^63 or
more counts as negative. hist() puts it in bucket 0 and lhist() in the
below-min bucket. spec.md describes bucket 0 as the bucket of negative values.
`arith_unsigned` shows the smallest case at 8 bits: x = 128 with k = 0 gives
bucket 0, where the reference gives 9.

### Finding: expanded attach points with a wrong argument count fail the probe

spec.md (section 4.1) and the comment at `attachpoint_parser.cpp:146` say that
the attach points a probe type wildcard expands to have `ignore_invalid` set,
so one whose number of parts does not fit its provider is skipped. Most
parsers do so (`if (ap_->ignore_invalid) return SKIP;`), but
`frequency_parser` (545), `watchpoint_parser` (621), `special_parser` and
`benchmark_parser` call `argument_count_error` unconditionally. In
`parse_arity`, "*:f:f:f:f" expands to the kernel probe types; kprobe,
tracepoint and the others skip, but interval and profile give an "arity"
error and the probe fails.

### Finding: with -p, uprobe:LANG:func loses its language

`uprobe_parser` (`attachpoint_parser.cpp:372-379`) accepts, with `-p`, three
parts whose second is a supported language ("uprobe:cpp:func") as an attach
point whose target is left out, as its comment says. It then writes the PID's
executable over `parts_[1]`, which is the language, and with three parts the
language is never read. `uprobe_pid_lang` shows "uprobe:cpp:f" parsed with
target "/proc/1/exe" and no language (`LangKept`), where
"uprobe:/bin/sh:cpp:f" keeps it.

### Finding: for over a range truncates its count to 32 bits

`CreateForRange` (`irbuilderbpf.cpp:1199`) casts the 64-bit count
end - start to 32 bits before its signed `> 0` test and the bpf_loop call.
`for $i : 0..(2^32 + 1)` therefore runs its body once, with no error. A count
from 2^31 up to 2^32 runs the body zero times. Any other count above
BPF_MAX_LOOPS makes the helper fail. `range_wrap` shows it at the scaled
widths 8 and 4: the range 0..17 runs once.

### Finding: == on buf() values ignores their bytes

`binop_buf` (`codegen_llvm.cpp:2254`) compares two buf() values with
CreateStrncmp over min(size) bytes. Those bytes start with the u32 length
header, and CreateStrncmp stops at the first NUL of the left operand. For
equal lengths from 1 to 255, the header's second byte is 0, so the loop ends
there with "equal" before it reaches the data: `buf(a, n) == buf(b, n)` is 1
whatever a and b hold. A NUL inside the data would also end the comparison
early. `buf_eq` shows it with two 2-byte buffers that differ in their last byte.

### Note: delete() on a per-CPU array clears one CPU

A per-CPU array cannot delete elements, so delete() stores a zero value with
`map_update_elem` (`codegen_llvm.cpp:1363-1368`). From BPF, that call writes
only the current CPU's slot, so the other CPUs' values survive. spec.md asks
only that a zero be stored, which the code does, so this is a hazard, not a
run. The array instance of `PerCpuAgg.cfg` run with `Kind = "count"` and
`CanDelete = TRUE` shows it: CPU 0 counts, CPU 1 deletes, and the read still
gives 1.

## Mutants

Each property of a passing run is shown to catch a plausible bug. Each mutant
operator sits just before the definition it replaces, in that module:

| Mutant | What it does | What catches it |
|---|---|---|
| `CheckNoSet` | does not store the flag | `GuardExclusive` |
| `RetKeepFlag` | returns without unsetting the flag | `IdleFlagClear` |
| `UpdateZeroOthers` | initialises the whole per-CPU array | `CountsAccurate` |
| `CheckAdd` | takes the flag with an atomic add instead of an xchg | `TypeOK` (probe) |
| `OutputNoCount` | tests the output's result the wrong way, so a drop is not counted | `EventsAccounted` |
| `LeftmostBitGT` | tests n > 2^(2^i) instead of >= | `Log2CorrectSigned` |
| `LinearNoClamp` | does not clamp values above max | `LinearCorrectSigned` |
| `AvgDivUnsigned` | divides a signed total unsigned | `AvgCorrect` |
| `AvgDivNoWrap` | leaves the negated quotient outside the register | `TypeOK` (routines) |
| `SlotAddIncSet` | adds 1 to is_set instead of storing 1 | `TypeOK` (agg) |
| `ReadLoopShort` | stops the read loop one CPU early | `AggMatches` |
| `MaybeClearValueOnly` | resets value but not meta on a new epoch | `TSeriesAccurate` |
| `RecordByValue` | gives the callback a copy of a captured variable | `LoopCorrect` |
| `WhileBodyNoWrap` | steps the loop variable past the register width | `TypeOK` (routines) |
| `StrncmpNoNul` | does not stop CreateStrncmp at a NUL | `CompareCorrect` |
| `BufValueNoClamp` | stores buf()'s requested length without the clamp | `TypeOK` (routines) |
| `RunLenNoZero` | lets the index scan accept a leading '0' | `LexCorrect` |
| `ExpansionKeepIgnore` | gives the expansion the wildcard's ignore_invalid | `TypeOK` (parser) |
| `ParseNoStepBack` | does not step the index back after an erase | `ParseCorrect` |

## Not modelled, and the plan

Not modelled, with the reason:
- **Scratch buffers.** The failure branch of `createGetScratchMap` is
  unreachable by the code's own comment: it is an array lookup with a constant
  in-range index.
- **The watchpoint setup probe.** It is a uprobe, which never runs nested in
  another BPF program. So its `createRet` cannot release another invocation's
  guard.
- **Preemption.** BPF programs are not preempted. Only helper calls are
  nesting points, which is why the event loss counter's load/add/store is one
  step.
- **Attach point parser.** Parts are words of a fixed vocabulary, so the
  string helpers are tables. `ap.raw_input` and `erase_prefix` are not
  modelled: a new attach point of NEW_APS is built from the lexed parts, where
  the code rebuilds it from the raw text (listed as a hazard).
- **Probe matcher.** The symbol sources (kallsyms, tracefs, ELF symbols, USDT
  notes, BTF), `get_matches_for_ap` and `list_probes` read the running system
  and print; only the probe type expansion the parser uses is modelled.
- **t-series.** The read side that combines CPUs by epoch is in user space,
  outside `src/`.

Next, in order:
1. **stats()** in PerCpuAgg, and a second key, so that a stale pointer can land
   in another key's reused element.
2. **Strings.** str() values truncated to a type that does not hold their
   terminator, whose sizes the semantic analyser (outside `src/`) decides.
3. **Loops.** `return` inside a for body, and the value of a per-CPU map
   element that a map loop aggregates across CPUs (CreatePerCpuMapAggElems).
4. **get_matches_for_ap** over a small symbol table, composed with the parser
   so that a probe's attach points are expanded to the probes attached.

Left out for good: feature detection, pcap writer, the clang build and the
resource and portability passes. They are I/O or single-pass AST walks with no
interleaving, which TLC has nothing to add to.
