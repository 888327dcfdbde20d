# TLA+ models of Discover

Discover is a static analyser for LLVM bitcode written in OCaml, with a C++
normaliser (`llvm-normalizer`) in front of it.  This directory holds TLA+ models of its core, the TLC
configurations that check them and proofs that TLAPS checks.  Paths below are
relative to the root of the repository (`src/` is its OCaml source).

## 1. Inventory

| Part | Source | State | Operations | Interacts with |
|---|---|---|---|---|
| Block worklist | `src/dataflow/dataflow.ml` 1533-2051 | working blocks, `fenv_block_input`, `fenv_instr_output`, `fenv_output`, counters per block | `analyze_blocks`, `analyze_block`, `analyze_instrs`, `compute_block_input`, `choose_working_block` | client analysis (calls), sparse neighbours (reads) |
| Function worklist | `src/dataflow/dataflow.ml` 1043-1468, 1600-1735, 2053-2264 | `penv_working_funcs`, `penv_func_envs`, `penv_func_summaries`, `penv_func_analyzed_inputs`, call stack | `analyze_functions`, `analyze_function`, `enqueue_to_analyze_func`, `record_working_func`, `analyze_instr_call_user_func`, `record_new_func_env` | runs block sessions; a call enqueues its callee, a finished callee its callers |
| Sparse neighbours | `src/dataflow/dataflow.ml` 418-522, `src/llvm/llutils.ml` 1352-1434 | lists of a search, caches | `get_sparse_preceding_blocks`, `get_sparse_succeeding_blocks` | read by the block worklist |
| Sparse program | `src/dataflow/dataflow.ml` 2312-2585, `src/dataflow/pointer.ml` 2920-3130 | marks on values, blocks, functions; used globals | `initialize_analysis` and its passes | decides what the engine sees |
| Client analyses | `range.ml`, `undef.ml`, `memsize.ml`, `memtype.ml`, `pointer.ml`, `lib/int_interval.ml` | abstract data | join, order, transfer, refinement, call input and output | called by the engine |
| Checkers | `dfbug.ml`, `dfassertion.ml`, `dfanalyzer.ml`, `common/bug.ml`, `common/assertion.ml` | potential bugs, verdicts | check each bug or assertion against results | read environments |
| Command line | `src/discover/argument.ml`, `src/common/global.ml` | settings | one per option, in the order given | decides which analyses and checks run |
| SMT session | `src/smt` | the Z3 process | start, request, answer, restart | used by the verifier |
| Separation-logic verifier | `src/seplog` | goals, proof trees | rules, proof search, symbolic execution | SMT session, program representation |
| Program information | `src/llvm/llutils.ml` 1553-1633, 1969-2113 | callers, callees, functions of a type, used globals, call graph, reachable functions | `update_program_info`, `get_reachable_funcs` | read by the engine, the client analyses and the checkers |
| Program representation | the rest of `src/llvm` | program data, caches | loops, block reachability, normalisation | used by everything |
| Normaliser | `llvm-normalizer/src` | an LLVM module, the queue of passes | five module passes, four function passes, verifying, writing | runs before the analyser, which looks for the function it makes |
| Crash reports | `llvm-normalizer/lib/backward` | handlers, stack trace, resolver; on Windows status, waiting threads, handle and skip count | install, handle a signal, unwind, resolve, print; crash, wait, wake, report, exit | linked into the normaliser |
| Assertion library | `lib/discover/discover.h` | - | print whether an assertion holds | linked to analysed programs; the checkers decide the same assertions |
| Front end and driver | `src/discover`, `src/compile` | options, files | compile, then analyse | everything |

What is hard in the analyser, which is sequential, is *order*: two worklists,
one inside the other, whose elements carry data computed when they were enqueued;
tables that are filled while others already read them; caches; and loops that end
only because data stops changing.  In the normaliser it is what one pass leaves to the
next, and use lists and constants that several owners share.  The crash reports are where
things happen at once: signals inside signal handlers, and threads that crash
while a reporter works for another.  `hazards` in `PROJECT.json` lists the places.

What makes each part correct:

* block worklist: it records only facts that the data-flow equations justify,
  forgets no block, loses no data, and ends;
* function worklist: every call that had to wait goes on, summaries are justified,
  only grow and reach their callers, and the analysis ends;
* sparse neighbours: the search finds exactly the blocks that branch-only blocks lead
  to, and the two directions agree;
* sparse program: the marks are stable when the loop ends, nothing relevant loses its
  mark, what is marked and what the engine visits agree, and what is cached stays true;
* program information: callers, callees and the call graph describe the same calls, and
  the used globals are closed under calls;
* client analyses: the join is an upper bound, the order is a preorder, transfer
  functions are monotone (the assumptions of the engine), intervals contain every value
  of the operation they abstract;
* checkers: a verdict follows from the ranges, sizes and aliases it is drawn from, is true
  of every run of the program, and nothing that was asked for is left unchecked, in
  whatever order the options came;
* normaliser: the output means what the input meant: globals have their initial values,
  calls and their arguments are kept, what is in use is not erased, the program stays valid;
  and it ends;
* crash reports: a crash is reported before the process ends, completely and from the right
  place, and the process does end;
* SMT session: each request gets its own answer, or the caller learns that there is none.

## 2. Modules

| Module | Models | Runs |
|---|---|---|
| `BlockAnalysis` | one session of the block worklist | through the next one |
| `MCBlockAnalysis` | its instance over all small graphs | `block_analysis` |
| `InterAnalysis` | the function worklist around block sessions; extends `BlockAnalysis` | through the next one |
| `MCInterAnalysis` | its instance over programs of three functions | `inter_analysis`, `inter_loop` |
| `DataflowProof` | theorems about `BlockAnalysis` and `InterAnalysis` | - |
| `SparseShape` | a function as the search for sparse neighbours sees it | through those that extend it |
| `SparseBlocks` | the search for sparse neighbours; extends `SparseShape` | through the next one |
| `MCSparseBlocks` | its instance over all small graphs | `sparse_blocks` |
| `SparseProgram` | the passes of `initialize_analysis`; extends `SparseShape` | through the next one |
| `MCSparseProgram` | its instance with three functions | `sparse_program` |
| `SparseProof` | theorems about `SparseBlocks` and `SparseProgram` | - |
| `UsedGlobals` | the loop that closes used globals under calls | through `CallInfo` |
| `CallInfo` | `update_program_info` and `get_reachable_funcs`; instantiates `UsedGlobals` | through the next one |
| `MCCallInfo` | its instance with three functions and a library function | `call_info` |
| `CallInfoProof` | theorems about `CallInfo` and the loop of `UsedGlobals` in it | - |
| `IntInterval` | bounds, ranges and intervals of `int_interval.ml` | through those that extend it |
| `RangePath` | the range analysis along a path, beside an execution; extends `IntInterval` | through the next one |
| `MCRangePath` | its instance with two variables and a memory cell | `range_path` |
| `RangePathProof` | theorems about `IntInterval` and `RangePath` | - |
| `Checkers` | options, passes, potential bugs, verdicts, summary; extends `IntInterval` | through the next one |
| `MCCheckers` | its instances, with programs of one instruction | `checkers`, `check_integers` |
| `CheckersProof` | theorems about `Checkers` | - |
| `Subsequences` | sequences, and the part of one that passes a test | through those that extend it |
| `ModulePasses` | the module passes of the normaliser | through `MCNormalizer` |
| `FunctionPasses` | its function passes | through `MCNormalizer` |
| `Normalizer` | its main function; composes the two | through the next one |
| `MCNormalizer` | its instance, with small modules, functions and command lines | `normalizer`, `normalizer_default` |
| `NormalizerProof` | theorems about `Normalizer` | - |
| `BfdResolver` | the resolver for libbfd | through `MCBackward` |
| `StackReport` | crash reports on Linux; extends `BfdResolver` | through `MCBackward` |
| `CrashReporter` | crash reports on Windows | through `MCBackward` |
| `Backward` | the choice by platform; composes the two | through the next one |
| `MCBackward` | its instance, with small processes | `backward` |
| `BackwardProof` | theorems about `Backward` | - |
| `NatRecursion` | induction and recursion over natural numbers, for the proofs | - |

### BlockAnalysis

The variables are the tables of `func_env` that a session changes (`binput` is
`fenv_block_input`, `output` is `fenv_instr_output`, `foutput` is `fenv_output`), the
list of working blocks `wblks`, the counters `times` and the position `cur` of
`analyze_instrs` in the current block.  One action per step: `StartBlock` is
`analyze_block` up to its loop, `analyze_instr` is one round of `analyze_instrs` (a
return also records the function's output), `analyze_instr_unreachable` its early end,
`EnqueueSuccessors` the end of a round of `analyze_blocks`.

The graph is the one the engine sees, not the one of the program: `succ` and `pred`
are computed by separate searches and need not mirror each other (`IsGraph` says how
they may differ).  The client analysis is a set of constants with named assumptions.
Data is compared by `Leq`; `Join` of a set stands for folding `merge_data` over a list.
Which of several least-analysed blocks comes first depends on the sort and on the
library's `insert_dedup`; it is left open, so every result holds for each order.

### InterAnalysis

Adds the tables of `prog_env`.  `StartFunc` chooses a working function and opens
or reopens its environment; `BlockStep` is a step of the block session;
`analyze_instr_call_user_func` enqueues and marks, and takes the summary or stops the
block; `FinishFunc` is the rest of `analyze_function` with the re-enqueuing of
the function itself; `WakeCaller` is the loop over the callsites.  An environment that
is analysed again is the stored one, changed in place, which is why the code's test for
"updated" is true on the first analysis only; `FinishFunc` says so.
`List.sorti` of the external library is taken to be stable for entries of one
function; between different functions ties are left open.  Left out: thrown exceptions,
function pointers, context splitting by phi nodes, non-sparse callees.

`IsTable` is what the results are compared with: a summary for every function and input that solves
the equations of the whole program (`SolvesFunc`; `ret` bounds what a function returns), and that is
monotone in the input.  Without the last condition `SummariesJustified` is false: a block of the
caller may be analysed with a small input, whose callee is summarised for that input, and go on
with a larger one.  `CallAssumption` asks the client analysis to be monotone at calls and returns too.

`EveryCallResumed` is stated for programs in which each function is called with one input (`OneContext`), as when
the client analysis passes nothing about a call.  A function that is to wait for a call is not queued again
if the callee is queued already, for any input, with a callsite at that place (`enqueue_to_analyze_func`), and one
that is queued may take the place of another input of the same function (`record_working_func`).  So, of two inputs that wait
at one call, one can be lost.

### SparseBlocks

One search (`SearchSpec`): `blks`, `visited` and `found` are the three arguments of `compute_blocks`,
`forward` tells which of the two functions runs.  The edges follow
`get_preceding_blocks` and `get_succeeding_blocks`, with the entry the former makes
for a switch.  The order in which `blks` is worked off is left open.

### SparseProgram

`sparse`, `bsparse` and `fsparse` are the three tables of marks; `pass` and `todo` say
which pass is at work and what it has still to visit; `again`, `inner` and `outer` are
the flags of the three nested loops.  One action per pass visits one function or global;
`EndOfPass` is the control between them; `analyze_program_interproc` goes on to the next
entry function, for which values are marked afresh while the marks of blocks and
functions stay.  Instructions are told apart by what the passes ask of them (`Ops`);
`Users` stands for LLVM's use lists.  Functions and globals are visited in any order; the
instructions of a function in their order in it, `VisitInstr` one of them.  `IsProgram` holds the facts of
LLVM that the passes rely on: edges stay in a function, a callee is an operand of its call, a store is nobody's
operand, a block with one successor ends in a branch.  `RoundsTakeMarks` says why the three nested loops
end: a step that asks for another round (`AsksAgain`) takes a mark, and no mark comes back (`TakesMarks`).

Two peculiarities of the code show in the properties.  When a function loses its mark, so
do the calls of it; if such a call is an `invoke`, it ends its block and the search for
successors no longer passes it.  And `init_sparse_funcs`, which takes marks inside the
loop, does not count as a change, so the loop may end before the blocks are looked at
again.  A marked block may then be one that the engine never visits, and
`record_new_func_env`, which waits for all marked blocks, never sees the function as
complete.  `MarkedBlocksReached` is therefore stated for functions that use no function without a
mark; without that condition TLC refutes it.

### UsedGlobals

The loop that `compute_func_used_globals` (all instructions) and
`compute_sparse_used_globals` (sparse instructions) both run.  `calls` and `direct` are
what it starts from (`Start`); a function is visited per step, in any order within a round.

### CallInfo

The parts of `update_program_info` in sequence: `compute_funcs_in_pointers` and
`compute_func_call_info` visit one instruction per step, the used globals are those of
`UsedGlobals` on the callees found, then the call graph is built.
`get_reachable_funcs` is called for any function at any time after that; each answer
is kept.  The code replaces the callees of a function by those of one kind whenever it
records a call: after `f(); p();` only the pointer is left, after `f(); p(); g();` only `g`.  `CalledLast` is
what survives, and the properties are stated for functions that reach, by the calls in the program,
only functions to which nothing of this happens (`NothingErased`).
Functions whose address is taken are filed under the type of the function; a pointer is looked up
under the type of the pointer.

### IntInterval and RangePath

A bound is a 64-bit integer, an unbounded one (`EInt`; `BInt` behaves alike) or infinite;
`MaxInt` stands for the largest 64-bit integer, and sums of `Int64` bounds wrap.
Undefined products and quotients, for which the code raises an error, are `Undefined`.
`Covers(a, x)` is the meaning of an interval and, with the sets `Bounds`, `Ranges` and `Intervals` of what the
code makes, the only definition there that is not code.

`RangePath` follows one path of a function: `data` is what the analysis has, `val` what an
execution has, one action per kind of instruction (`analyze_instr`), branch, and join.
At a branch the analysis keeps both sides, `data` and `other`, of which the execution took
one (`here`); `Merge` joins them, as `compute_block_input` does.  `Sound` is stated for paths of
steps that the intervals are made for: each action sets `claimed` when it is, and the
run ends when it is not.  What is left out this way is the list of the code's approximations:
bounds that wrap, in sums, differences and products (`BoundsFit`) and when they are negated
(`NegationFits`: the least machine integer as a subtrahend, or divided by -1); products of ranges with
open ends, which leave out the zero (`ClosedEnds`); joins of ranges that end at the same
integer, one open and the other not, where the union is open and loses it (`EndsAgree`, `int_interval.ml:344` and
`:351`); a division by a range of unsigned divisors, zero-extension of negative values,
unsigned comparisons of negative values, comparison of two variables neither of
which is a constant (`extract_data_from_predicate` without widening takes the far end of the
other interval), `__assume_range` with an end that is no constant, and an entry that is missing
on one side of a join.  In each of these a value can leave its interval.  Most show within the
three steps of the run; an open end does not: it takes a comparison of two variables that have one
value each (`mk_range` closes only ends of the form `Int64`), then a join or a product, and was
met when the proof of `Sound` failed.

### Checkers

The state is the settings of `global.ml` and the fields of `dfa_data`; one action per option
(`parse_arguments`), per pass and per check, in the order of `analyze_program`.  The program is
a set of instructions with the facts that the analyses found in each environment of
their function and what happens at the instruction in a run; `Right` says
that the analyses are right about that run, in the environment it is in.  The other environments may
say anything.  Buffers of which elements are counted have elements of `ElemSize` bytes.
A potential bug carries `Some` details, as `mk_potential_...` makes it.
`AnalysisWanted` and `BugWanted` say from the options on the command line, not
from the settings, what the user asked for; `OverflowsFound` what has then to be reported of one instruction.  `AliasPrintsOK` and `RangePrintsOK` are what the
functions of `discover.h` print when the analysed program is run; `ValidVerdictsTrue` holds the
verdicts against them.

### ModulePasses, FunctionPasses and Normalizer

`Normalizer` is `main`: it reads, queues the passes that the options ask for, runs them one by
one and writes.  A module (`mod`) has globals with initialisers, functions with the
instructions that matter to these passes, and a heap of aggregate constants: LLVM shares equal
constants, so nulling a field (`setOperand` in `InitGlobal`) changes every initialiser that reaches
it.  `VisitGlobal` and `VisitField` are the recursion of `InitGlobal`, with its activations on
`stack`.  `Used` stands for LLVM's use counts; `input.refused` for the call sites that
`InlineFunction` refuses.  A function (`fn`) is looked at by the function passes alone, one
function per instance: blocks of instructions, whose operands are names.  Instructions of other
functions that share a constant are kept in `foreign`, because `ElimIdenticalInstrs` walks the
users of constants too.  The pass is disabled in `main`; it is modelled as `opt` runs it
(`tool = "opt"`).  `Observed` runs a function along a walk through its graph with symbolic
values: `BehaviourKept` compares what is observed before and after.  `IsModule` and `IsFunction` are what LLVM
guarantees of what it reads.  `InputAssumption` adds that a function with a body ends in an instruction that is no call, that
one of a single block has a body, and that nothing calls `__init_globals`, which `InitGlobal` creates with external
linkage (`InitGlobal.cpp:221`).  `Accounts` says what a function does, its calls expanded, as equations between a function
and those it calls, so that `CallsKept` has a meaning for recursive programs too.  `removeAllocaStoreArg` replaces the loads of all candidates at once, where the code goes through
them one by one: no load is replaced by a load.

The conditions of the properties are what the passes get wrong.  `Separate`: globals that share
an aggregate, or hold an alias, lose values in `InitGlobal`.  `Mergeable`: `ElimIdenticalInstrs`
takes a `zext` and a `sext` of one value to one type for the same, and erases instructions of other
functions.  `Uninlinable`: `UninlineInstruction` puts an instruction before a landing pad, and makes two
values for a phi node that a switch enters twice from one block.  Without each of them TLC finds a
counterexample.

### StackReport, BfdResolver, CrashReporter and Backward

On Linux (`StackReport`), `Install` is the constructor, a call per step, each of which may fail;
`Deliver` is a signal, `Handle` the entry of the handler, and then one action per
frame that is unwound and per frame that is printed.  `FaultInHandler` is a signal met by the handler
itself.  What is outside the process is `world`: the stack, the fault, whether the stack
overflowed, debug entries, object files, source lines.  libdw's search over
debug entries (`deep_first_search_by_pc`) and libbfd's over sections (`find_in_section`) are recursive
functions over them, `get_lines` keeps the unsigned arithmetic (`Wrap`).

On Windows (`CrashReporter`), a section under the mutex is a step, `Wait` is one test of the condition,
`Notify` wakes any one waiter and `WakeUp` none in particular.  The handle of the crashed thread and the number of frames to
skip are written outside the mutex, each in a step of its own.  Threads may crash at any time, in any
number, the reporter too; `std::terminate` and `abort()` come back through SIGABRT.  `Unanswered` lists the crashes
after which the process hangs; `ProcessEnds` holds for all others.

## 3. Runs

| Run | Instance and bounds | Shows |
|---|---|---|
| `block_analysis` | every graph of an entry block and three blocks in which all are reachable, at most two successors each; with all edges seen, with an entry block that is passed over, with a switch in `b1`, with an unreachable exit; two function inputs; data is a set of two facts that are generated, derived and killed, one conditional edge | `Justified`, `SinglePredFresh`, `NoLossWithoutJoin`, `Complete`, `Terminates` hold |
| `inter_analysis` | main with up to three calls, `f` with a base case and a case that may call or that calls in a loop, `g` with up to two calls; nested, repeated, shared, self- and mutually recursive; each program with inputs that depend on the data at the call and again with one input for each function | `SummariesJustified`, `EveryCallResumed`, `InterTerminates` hold |
| `inter_loop` | those programs in which `f` calls `g` in a loop and nothing recurses; a call passes all the data it has | `InterFixpoint` fails (finding) |
| `sparse_blocks` | every graph of four blocks, at most two successors each, every distribution of the kinds of blocks, with and without a switch | `Exact`, `Mirrored`, `SearchReachesAnalysed`, `Terminates` hold |
| `sparse_program` | a main function, a callee and its callee, with eight blocks and two globals; every mix of what they do with pointers, of calls and invokes, of branches and of initial values; two entry functions | `Settled`, `OperandsKept`, `MarkedBlocksReached`, `RoundsTakeMarks` hold |
| `call_info` | three functions with up to three calls each, direct, through a pointer or of a library function, before and behind one another; with and without an init function | `GlobalsOfCallees`, `ReachableExact`, `Terminates` hold |
| `range_path` | two variables and a cell, values -2..1, machine integers -4..3, constants -1, 0 and 1, paths of three steps | `Sound`, `OrderSound`, `NoOverflowMissed` hold |
| `checkers` | every sequence of up to three of eleven options; an instruction or assertion of each kind, with intervals, sizes, regions and aliases in the environment of the run and in another | `OverflowsReported`, `RegionTrue`, `ValidVerdictsTrue` hold |
| `check_integers` | `--dfa-range` and `--bug-all`; sums and quotients | `IntegerBugsReported` fails (two findings) |
| `normalizer` | eight command lines (default, everything verified and printed, without `ElimUnusedFunction`, passes by hand, unreadable input, print only, verify only, `ElimIdenticalInstrs` alone); six initialisers with four tables of constructors, 48 modules of forwarding functions, eleven functions with an argument slot, 18 with branches, joins and loops, two more; walks of up to four blocks (`MaxWalk`), ten new names | `InitialisationKept`, `NothingDangling`, `CallsKept`, `BehaviourKept`, `StaysValid`, `CrashExplained`, `Terminates` hold |
| `normalizer_default` | the same, no option | `InitialisationReachesOutput` fails (finding) |
| `backward` | stacks of two to seven frames with the fault at every depth, `Depth` 3 of 32 frames shown, a reserve `Extra` of 2 of 8, three signals of which two are one, two units of eleven debug entries, object files in place, replaced, deleted, stripped or relocated, files of up to nine lines, `Wrap` 64 for 2^32; two threads and the reporter | `ReportedWhenLoaded`, `TraceStartsAtFault`, `SourceResolved`, `SnippetShowsLine`, `CrashReportedFirst`, `EndsBySignal`, `ProcessEnds` hold |

Why the bounds are enough: four blocks admit every case the block worklist tells apart
(self-loops, nested loops, joins of two and three edges, loops entered twice, an exit
inside a loop), two facts admit data that grows twice and an instruction that
depends on another's result.  Three functions admit a callee shared by two callers,
a callee that waits for its own callee, and mutual recursion.  `MaxFuncTimes` caps the
counter of analyses in the order of functions; no run reaches it.  In the sparse program a
mark travels from a callee to its caller's call, to the caller, and on to the callers of
that: three functions are a chain in which this happens twice, and `Entries = 2` prepares a
program that already has marks.  Three functions admit every shape of call cycle that
the closure of globals tells apart: none, self-recursion, cycles of two and of three.
Three steps admit a branch, an instruction in it and the join; the machine integers are few
enough to wrap within a path.  Three options are the least that lets one option take back another
that still matters to a third, and instructions are checked independently of each other, so one of
them is enough.  Initialisers nested twice, shared within a global and between two, admit every way
in which `InitGlobal` meets a constant again; a wrapper of a wrapper is inlined in both
orders; four blocks on a walk pass a join or go round a loop.  Stacks are longer than
`Depth + Extra`, so the fault is at, before and behind every limit; a second
thread is enough for every race of two crashes and of a crash with the exit, since the reporter reports once.

The violated properties state what comments and documents of the code say: "analyze all functions, using the
MFP approach" (`dataflow.ml:2223`), that data-flow analysis finds "integer overflows, integer underflow,
... division-by-zero" (`README.md:18`), and that the normaliser makes "a function to initialize global
variables" (`InitGlobal.cpp:217`), which the analyser looks up (`dataflow.ml:2290`): it is erased
by the next pass, `ElimUnusedFunction`, since nothing calls it.  In the first the engine stops below the
fixpoint: the first round of a loop makes the environment complete, the second meets a call with a larger input, which waits
for its summary, and the waiting function is then passed over because its input has been analysed (`dataflow.ml:1463`).
`Justified`, `NoLossWithoutJoin` and `EveryCallResumed` say what holds instead.
In the second there are two reasons, and the property fails for each of them alone: divisions by
zero are never reported, because the check matches `DivisionByZero None` and only
`DivisionByZero (Some _)` is recorded (`dfbug.ml:134`); underflows are reported only when the
whole range is below the least value (`dfbug.ml:102`).

Met on the way, with no run of their own: a function called through a pointer is looked up under
another type than it was filed under, so `--dfa-used-globals-in-func-ptrs` has no effect
(`llutils.ml:2088`); `mk_range` closes open ends of the form `Int64` only, although the
comment at `int_interval.ml:58` speaks of all; a range assertion counts as valid if one of the
environments of its function satisfies it (`dfassertion.ml:106`), where a pointer assertion needs
all; and `--dfa-auto-schedule` performs no analysis, because `is_analysis_enabled` does not
know it (`dfanalyzer.ml:33`).  `analyze_blocks` is not "the MFP approach" of its comment (`dataflow.ml:1969`)
either: at a join of three branches a block may be analysed for the last time with inputs that are out of date;
and in a function with a switch `get_preceding_blocks` misses blocks, where `llast.ml:111` says "A [prec_block] is a
preceding block of a block".

In the C++ sources: `CombineGEP` combines nothing, because it looks for chains from the addresses it
has already visited (`CombineGEP.cpp:135`, against its comment at 15-27); `isDiscoverTestingFunc` looks
for `__retute` (`Common.cpp:59`); `ElimIdenticalInstrs` never merges phi nodes, which LLVM never takes to be dominated
by an instruction of their block; the calls of constructors are put
where `llvm.global_ctors` stands among the globals, so before the stores of the globals behind it, and an entry
without function crashes; a file that cannot be read is a null pointer that is dereferenced (`Normalizer.cpp:199`);
`__refute_may_alias` prints "OK!" when the pointers are equal (`discover.h:96`).  In `backward.hpp`:
a snippet near the top of a file is empty, since its first line wraps (3824); `contxt` at 1091 does not compile
in builds that use `backtrace()`; the alternate stack is freed at exit while the handlers
stay.  On Windows `load_here` replaces the stored context by the reporter's own (1117-1181), where the comment at 4390 says that "The exception info
supplies a trace from exactly where the issue was"; and the process hangs after two crashes, after
a crash of the reporter, after `std::terminate`, and after a crash in a destructor behind `~SignalHandling`.

**Fairness.**  Each part is one sequential loop, so weak fairness of the next-state
relation (`FairSpec`, `InterFairSpec`) says no more than that the program keeps running.
So is the normaliser (`WF_vars(Next)`).  In `Backward` the handler's steps are
weakly fair, as nothing blocks a signal handler, and so is every thread of Windows, as the system schedules
each; that a signal arrives, a thread crashes, a waiter wakes up by itself or the program ends is not assumed.
`SparseProgram` needs none: `RoundsTakeMarks` is the reason for its end.
Programs whose recursion has no base case are not in the instance of `inter_analysis`:
each of their functions waits for the other, and the list of working functions runs
empty only by chance; with one input for each function it never does, by `EveryCallResumedCorrect`.

## 4. Proofs

Every theorem holds for all values of the constants that meet the named assumptions of its module, so for
programs, graphs, stacks and paths of any size and for every order that the models leave open.

**Recursion.**  `NatRecursion` proves induction over the natural numbers from the well-foundedness of `<`, with the
property given as the set of the numbers that have it, and that a recursive function over an initial segment
exists, with its step given as a function.  The proofs about closures and folds
(`SparseProof`, `DataflowProof`, `RangePathProof`, `NormalizerProof`, `BackwardProof`) rest on it.

`DataflowProof`, block worklist, for every client analysis with the assumptions of `BlockAnalysis`:

* `TypeCorrect`, with `Positions` (a block waits once and from its first instruction;
  the next input is the output just recorded);
* `JustifiedCorrect`: everything recorded, waiting or in progress is below every
  solution (`Covered`); uses `JoinAssumption` and `MonotoneAssumption`;
* `SinglePredFreshCorrect`: inductive with `TimesOrdered`, which says that a
  predecessor that alone enqueues a block is always ahead in the counter while
  the block waits, hence is not chosen before it;
* `NoLossCorrect`: from the former and the outputs of the last instruction;
* `CompleteCorrect`: a block analysed up to some instruction is running or has all outputs, a block
  with an output has its successors reached or waiting.

`DataflowProof`, function worklist, with `ProgramAssumption` and `CallAssumption` besides:

* `InterTypeCorrect`: well-typed tables.  A callsite holds the environment that waits, with the callsites of
  that, and so on: the type of callsites is a set closed under nesting (`ClosedSites`), and the type of an
  environment in progress is that of `BlockAnalysis` together with where the session is (`PointsOK`);
* `SummariesJustifiedCorrect`: the summaries alone are not inductive.  `Below(t)` says the same of everything that
  will become one: environments stored, in progress or kept in a callsite, each below the
  solution of the table for an input at least as large as its own;
* `EveryCallResumedCorrect`, for every graph of calls, recursion included: `ResumeInv` says that an instruction that was reached and
  has no output is a call that is marked, in an environment that somebody remembers (`Pending`): a function that waits, a
  function being finished, or the session.  `OneContext` makes the tests of the engine, which leave out inputs, tests of
  environments (`ContextInv`); an input that counts as analysed has a complete environment and a summary (`AnalyzedCompleted`).

`SparseProof`, the search, for every shape of function (`ShapeAssumption`): `TypeCorrect`; `ExactCorrect`, by `SearchInv`: found blocks
are targets of visited ones, and what a visited block passes over is visited or queued;
`MirroredCorrect`, since without a switch the edges of the two directions are converse and so are paths of branch
blocks; `SearchReachesAnalysedCorrect`, by induction on the length of a path from the entry block.

`SparseProof`, the preparation, with `SparseAssumption`:

* `RoundsTakeMarksCorrect`, an action property: pass by pass; the visit of a function is a fold over its
  instructions, by induction along which a mark is only taken, and the flag is set only if one is;
* `SettledCorrect`: `SettledInv` says for each pass, as long as its flag is not set, that what it has visited
  needs no further visit;
* `OperandsKeptCorrect`: by `OperandsHold`, for all passes and at all times;
* `MarkedAreReachedCorrect` and `MarkedBlocksReachedFirst`: of the two halves of `MarkedBlocksReached`, that marked blocks
  are reached holds for every entry function (`ReachedInv`: while no loop asks for another round), the
  converse while the first one is prepared (`FirstInv`: no reached block has lost its mark), because marks of blocks are kept
  for the next entry function while those of values come back.

`CallInfoProof`, with `CallInfoAssumption`: `TypeCorrect`; `RecordedCorrect`, which says at each position of the visit
what the table of callees holds; `LeastTableCorrect`, about the loop of `UsedGlobals` as `CallInfo` runs it: in a round
without changes so far the functions already visited are settled, and the table is below every table that
accounts for all calls; from both `GlobalsOfCalleesCorrect` and, with an invariant of the search,
`ReachableExactCorrect`.

`RangePathProof`, for every width of the machine integers (`MaxIntAssumption`), every width of the program's not above it and
every set of literals of that width (`RangeAssumption`):

* `AddCovers`, `SubCovers`, `MultCovers`, `SdivCovers`, `UdivCovers`, `UnionCovers`, `WidenCovers`, `IntersectCovers` and
  `LequalCovers` say of each operation that the result covers what its operands cover.  The argument splits
  `Covers` into its two ends (`Above`, `Below`), proves for each operation on bounds that it moves an end
  no further than the value, and that closing an end (`MkRange`) changes no integer.  A product is largest and
  least at one of four pairs of ends; a quotient at an end of the dividend and at an end of the divisor
  or 1 or -1, whichever side of zero the divisor is on.  The hypotheses are
  where the code is not sound (see `IntInterval and RangePath`);
* `SoundCorrect`: `RangeInv` adds to `Sound` that all data are intervals, also on the side
  that the run did not take, and that the analysis leaves the side of the run only at a branch whose other side it keeps.
  One lemma per action; those that record an interval share `RecordStep`, both branches `BranchStep`;
* `OrderSoundCorrect` and `NoOverflowMissedCorrect` follow from `RangeInv`.

`CheckersProof`, with `CheckersAssumption` (every instruction comes with facts that are right about the run):
`OverflowsReportedCorrect`, `RegionTrueCorrect`, `ValidVerdictsTrueCorrect`.  The invariant relates the
options given to the settings they leave behind, whatever their order; the settings to the environments computed
and the potential bugs recorded when a pass is over; and these to the verdicts.

`NormalizerProof`, for every set of modules and functions that LLVM can read (`InputAssumption`) and every command line:

* `NothingDanglingCorrect`, in two parts.  `OrderInv`: whatever the options, `InitGlobal` is queued before every other module pass
  and `ElimAllocaStoreArg` before every other function pass, so each starts from what was read.  `ModuleInv`: whatever the
  initialisers, bodies, assembly and constants on the stack of `InitGlobal` refer to is listed in the module, or is the initialisation function
  that is being made.  Each pass has a lemma: visiting a field adds only uses of what the initialiser used, splicing a body
  only uses of what caller and callee used, and what is erased has no use left;
* `CallsKeptCorrect`: for every table that says right, for each function of the input, what it does with its calls
  expanded (`Accounts`), the table stays right about the functions that are left.  The table need not be computed, so no
  recursion is unfolded, and programs whose functions call each other in a circle are included where such a table exists; for the
  others there is one table, the one that expanding every call finds.  The lemmas are about lists: flattening commutes
  with concatenation (`FlattenConcat`), so a body whose pieces do what the instructions of another body do, does
  what that body does (`PiecesDo`), and a call replaced by the forwarding function's instructions without its return is such a
  piece (`SplicedDoes`).  `CallsInv` adds what inlining relies on: a defined function keeps an instruction that is no call, so
  it does not turn into a declaration, and no other function calls `__init_globals`;
* `CrashExplainedCorrect`: a slot of an argument whose last use is a load is the only crash of a function pass.
  `CombineGEP` could read past the end of a chain, but the list of chains is always empty (`NothingCombined`).  `CrashInv` adds what
  the passes rely on: no block is empty and every instruction in place has a record (`FnShape`), which each of the three
  passes that `main` queues keeps; `ElimIdenticalInstrs` may break it but runs alone, as nothing else is queued with it
  (`QueuedAlone`).

`BackwardProof`, for every set of threads, list of signals, depth and process:

* `CrashReportedCorrect`: `CrashReportedFirst` is not inductive; `ReporterInv` adds where each thread can be
  for each status, that a status other than "running" is preceded by a crash or the exit, that what is stored comes from
  crashed threads, and that a crashed thread goes on only after the reporter has finished or the exit begun;
* `ReportedCorrect`: `ReportInv` adds that while everything succeeded the signals
  of the steps done are installed (`Installed`), and that the frames printed and those left are the frames
  selected (`Printed`);
* `TraceCorrect`: while frames are unwound the trace is the part of the stack behind the unwinder's own frame;
* `SnippetCorrect`, about one snippet of any file: what `ShowsLine` says of it, with the unsigned arithmetic.

The assumptions are those of the two modules: the main thread is a thread, the reporter is not, signals and frames are
named, depths are natural numbers, the stack has the unwinder's own frame, and a file and a snippet together have fewer lines
than an unsigned integer counts.

Only model-checked:

* everything that needs fairness (`Terminates`, `InterTerminates`, `EndsBySignal`, `ProcessEnds`);
* `SourceResolved` and, beyond a single snippet, `SnippetShowsLine`: the resolvers recurse over trees of debug
  entries;
* `MarkedBlocksReached` after the first entry function, the half named above apart;
* of the normaliser: `InitialisationKept`, which compares what initialisers expand to, by recursion over nested constants;
  `BehaviourKept`, which compares symbolic runs; `StaysValid`, which needs dominance in every graph,
  computed by a fold.

## 5. Not modelled, and the plan

Next, in this order:

1. the caches of sparse instructions and neighbours, which are filled for one entry function
   and read for the next;
2. the domains of `undef`, `memsize` and `memtype`, and the order and join of all client
   analyses against the assumptions of `BlockAnalysis`; whether the range analysis settles in
   loops;
3. `Z3Session`: requests, answers and the loss of the process;
4. exceptions and function pointers in `InterAnalysis`;
5. the proof search and the block traversal of `seplog`; operations on pointer
   graphs; loops and block reachability of `src/llvm`;
6. the comparison of reported with annotated bugs in `benchmark.ml`;
7. proofs: `StaysValid` of the normaliser, pass by pass; `EveryCallResumed` for the client analyses whose inputs for a
   function cannot displace each other; `MarkedBlocksReached` for the entry functions after the first.

Hazards that no property covers, because the code around them is not modelled yet (`PROJECT.json` lists
only the hazards with a property):

* `src/src/dataflow/dataflow.ml:418`: the sparse instructions and neighbours of a block stay cached for the life of
  the environment, while preparation may change what is sparse (item 1);
* `src/src/dataflow/undef.ml:129`: `merge_data` adds the undefined pointers, not the undefined values, of its second
  argument to the values, so it is not a join (item 2);
* `src/src/dataflow/range.ml:298`: whether widening makes the intervals of a loop settle (item 2);
* `src/src/smt/z3.ml:101`: once the Z3 process has ended, reading its answer meets the end of file for ever (item 3);
* `src/src/smt/z3.ml:321`: an unsatisfiable answer gives the same verdict, `Some true`, as a satisfiable one (item 3);
* `src/src/llvm/llutils.ml:2088`: functions behind pointers are looked up under the type of the pointer (item 4).

Out of reach or out of scope: parsing and printing, the options for debugging and printing, calls of external
compilers, the benchmarks, generated lexers and parsers; of the crash reports macOS, the resolvers for
`backtrace_symbols` and libdwarf, the stack walk of Windows, demangling and colours; of the
normaliser the types, alignments and debug information of LLVM, and `replacePhiSource` and
`normalizeModule`, which nothing calls.
