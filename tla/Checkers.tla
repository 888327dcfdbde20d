------------------------------- MODULE Checkers -------------------------------
(***************************************************************************)
(* From the command line to the verdicts: the options of                   *)
(* src/discover/argument.ml, the passes of src/dataflow/dfanalyzer.ml, the *)
(* potential bugs of src/common/bug.ml, the checks of                      *)
(* src/dataflow/dfassertion.ml and src/dataflow/dfbug.ml, the summary.     *)
(*                                                                         *)
(* The program is a set of instructions, each with what the analyses find  *)
(* out about it in every environment of its function, and what happens     *)
(* there in one run, about which the analyses are right.                   *)
(***************************************************************************)
EXTENDS IntInterval, FiniteSets

CONSTANTS
  Instr,
  Program,     \* the programs: see Facts
  MaxVal,      \* largest integer of the program's type
  Length,      \* length of an array, and bound in an assertion
  Option,      \* options that may be given
  MaxOptions,  \* bound: options on the command line
  None

ElemSize == 2

Arithmetic == {"Add", "Div"}
Accesses == {"ArrayAccess", "MemoryAccess"}
RangeAsserts == {"RangeLB", "RangeUB", "RangeLUB"}
AliasAsserts == {"AssertNoAlias", "AssertMayAlias", "AssertMustAlias",
                 "RefuteNoAlias", "RefuteMayAlias", "RefuteMustAlias"}

Analyses == {"Undef", "Pointer", "MemSize", "MemType", "Range"}
IntegerBugs == {"IntegerOverflow", "IntegerUnderflow", "DivisionByZero"}
MemoryBugs == {"MemoryLeak", "NullPointerDeref", "BufferOverflow"}
Kinds == IntegerBugs \union MemoryBugs

\* What is known of an instruction:
\*   op, invoked             the operation; whether an assertion is called by invoke
\*   range, divisor, size,   what the analyses found out in each environment of the function:
\*   memtype, alias          intervals of the result or index, of the divisor, of the bytes of
\*                           the buffer, its region, and {"May"}, {"Must"}, ... of the pointers
\*   run                     the environment that the run is in, None if it does not come here
\*   val, by, bytes,         the result or index, the divisor, the size of the buffer, its
\*   region, same            region, and whether the pointers are equal, in the run
Facts(f, a) ==
  CASE a = "Range" -> f.range [] a = "MemSize" -> f.size [] a = "MemType" -> f.memtype
    [] a = "Pointer" -> f.alias

\* An environment in which the function was analysed, and which has an output here.
Known(f, a) == DOMAIN Facts(f, a) # {}
RightAbout(f, a) == f.run \in DOMAIN Facts(f, a) /\ Facts(f, a)[f.run] # None

\* The analyses are right about the run.
Right(f) == f.run = None \/
  /\ Known(f, "Range") =>
       /\ RightAbout(f, "Range") /\ Covers(f.range[f.run], f.val)
       /\ f.op = "Div" => Covers(f.divisor[f.run], f.by)
  /\ Known(f, "MemSize") => RightAbout(f, "MemSize") /\ Covers(f.size[f.run], f.bytes)
  /\ Known(f, "MemType") => RightAbout(f, "MemType") /\ f.memtype[f.run] \in {f.region, "Unknown"}
  /\ Known(f, "Pointer") => /\ RightAbout(f, "Pointer")
                            /\ "Must" \in f.alias[f.run] => f.same
                            /\ f.same => f.alias[f.run] # {}

\* The sizes that memsize.ml makes come from machine integers.
Sized(a) == a.lb.kind = "Int64" /\ a.ub.kind = "Int64" /\ 0 <= a.lb.val

IsFacts(f) ==
  /\ IsFiniteSet(DOMAIN f.range)
  /\ \A e \in DOMAIN f.range : f.range[e] \in Ranges \union {Bottom, None}
  /\ \A e \in DOMAIN f.size : f.size[e] \in {a \in Ranges : Sized(a)} \union {None}
  /\ f.val \in Int /\ f.bytes \in Nat /\ f.same \in BOOLEAN

AllOptions ==
  {"--dis-analysis", "--symexec", "--dataflow", "--dfa-range", "--dfa-undef", "--dfa-memsize",
   "--dfa-memtype", "--dfa-pointer", "--dfa-pointer-conservative", "--dfa-pointer-full",
   "--dfa-all-analysis", "--dfa-auto-schedule", "--assert-all", "--assert-range",
   "--assert-pointer", "--bug-integer-overflow", "--bug-integer-underflow", "--bug-memory-leak",
   "--bug-null-pointer-deref", "--bug-buffer-overflow", "--bug-integer-all", "--bug-memory-all",
   "--bug-all"}

ASSUME CheckersAssumption ==
  /\ MaxVal \in Nat /\ MaxOptions \in Nat /\ Length \in Nat /\ MaxInt >= ElemSize
  /\ Option \subseteq AllOptions
  /\ None \notin {"Stack", "Heap"}
  /\ \A p \in Program : \A i \in Instr : IsFacts(p[i])

VARIABLES
  code,       \* the instructions and the facts about them
  given,      \* the options so far
  opt,        \* the settings of global.ml
  pc,         \* the next step of the tool
  env,        \* the analyses that were performed
  pbugs,      \* dfa_potential_bugs
  verdicts,   \* the assertions that were checked, and whether they are valid
  num,        \* num_valid_asserts, num_invalid_asserts and the number of skipped assertions
  bugs,       \* the bugs that find_bugs returned
  summary     \* what is printed in the end

vars == <<code, given, opt, pc, env, pbugs, verdicts, num, bugs, summary>>

------------------------------------------------------------------------------
(* Options *)

Defaults ==
  [work_mode |-> "NoAnalysis", skip_analysis |-> FALSE, dfa_analyses |-> {},
   sparse |-> TRUE, conservative |-> FALSE,
   find_bug |-> FALSE, bug_all |-> FALSE, bug_types |-> {},
   check_assert |-> FALSE, assert_all |-> FALSE, assert_types |-> {}]

\* find_bug_type, check_assert_type
find_bug_type(o, type) ==
  [o EXCEPT !.find_bug = TRUE, !.bug_all = FALSE, !.bug_types = @ \union {type}]

check_assert_type(o, type) ==
  [o EXCEPT !.check_assert = TRUE, !.assert_all = FALSE, !.assert_types = @ \union {type}]

AddAnalyses(o, as) == [o EXCEPT !.work_mode = "DFA", !.dfa_analyses = @ \union as]
SetAnalyses(o, as) == [o EXCEPT !.work_mode = "DFA", !.dfa_analyses = as]

\* The settings after an option.
Apply(o, option) ==
  CASE option = "--dis-analysis"             -> [o EXCEPT !.skip_analysis = TRUE]
    [] option = "--symexec"                  -> [o EXCEPT !.work_mode = "SymExec"]
    [] option = "--dataflow"                 -> [o EXCEPT !.work_mode = "DFA"]
    [] option = "--dfa-range"                -> [AddAnalyses(o, {"Range"}) EXCEPT !.sparse = FALSE]
    [] option = "--dfa-undef"                -> AddAnalyses(o, {"Undef"})
    [] option = "--dfa-memsize"              -> AddAnalyses(o, {"MemSize"})
    [] option = "--dfa-memtype"              -> AddAnalyses(o, {"MemType"})
    [] option = "--dfa-pointer"              -> [AddAnalyses(o, {"Pointer"}) EXCEPT !.conservative = FALSE]
    [] option = "--dfa-pointer-conservative" -> [AddAnalyses(o, {"Pointer"}) EXCEPT !.conservative = TRUE]
    [] option = "--dfa-pointer-full"         -> AddAnalyses(o, {"Undef", "Pointer"})
    [] option = "--dfa-all-analysis"         -> SetAnalyses(o, {"AllAnalyses"})
    [] option = "--dfa-auto-schedule"        -> SetAnalyses(o, {"AutoSchedule"})
    [] option = "--assert-all"               -> [o EXCEPT !.check_assert = TRUE, !.assert_all = TRUE]
    [] option = "--assert-range"             -> check_assert_type(o, "Range")
    [] option = "--assert-pointer"           -> check_assert_type(o, "Pointer")
    [] option = "--bug-integer-overflow"     -> find_bug_type(o, "IntegerOverflow")
    [] option = "--bug-integer-underflow"    -> find_bug_type(o, "IntegerUnderflow")
    [] option = "--bug-memory-leak"          -> find_bug_type(o, "MemoryLeak")
    [] option = "--bug-null-pointer-deref"   -> find_bug_type(o, "NullPointerDeref")
    [] option = "--bug-buffer-overflow"      -> find_bug_type(o, "BufferOverflow")
    [] option = "--bug-integer-all"          -> find_bug_type(o, "IntegerAll")
    [] option = "--bug-memory-all"           -> find_bug_type(o, "MemoryAll")
    [] option = "--bug-all"                  -> [o EXCEPT !.find_bug = TRUE, !.bug_all = TRUE]

parse_arguments ==
  /\ pc = "Options" /\ Len(given) < MaxOptions
  /\ \E option \in Option :
       /\ given' = Append(given, option)
       /\ opt' = Apply(opt, option)
  /\ UNCHANGED <<code, pc, env, pbugs, verdicts, num, bugs, summary>>

\* init_environment, and analyze_program of discover.ml, which chooses the work.  Symbolic
\* execution is not modelled.
init_environment ==
  LET mode == IF opt.skip_analysis THEN "NoAnalysis" ELSE opt.work_mode
  IN  /\ pc = "Options"
      /\ opt' = [opt EXCEPT !.work_mode = mode]
      /\ pc' = IF mode = "DFA" THEN "Record" ELSE "Summary"
      /\ UNCHANGED <<code, given, env, pbugs, verdicts, num, bugs, summary>>

------------------------------------------------------------------------------
(* Passes *)

is_analysis_enabled(a) == opt.dfa_analyses \intersect {a, "AllAnalyses"} # {}

\* The option that asks for all bugs of the kind's group.
Group(kind) == IF kind \in IntegerBugs THEN "IntegerAll" ELSE "MemoryAll"

\* The guard of mk_potential_... and of find_bug_...
Asked(kind) == opt.bug_all \/ opt.bug_types \intersect {kind, Group(kind)} # {}

\* process_instr of record_potential_bugs
PotentialKinds(op) ==
  CASE op = "Add" -> {"IntegerOverflow", "IntegerUnderflow"}
    [] op = "Div" -> IntegerBugs
    [] op \in Accesses -> {"BufferOverflow"}
    [] op = "Ret" -> {"MemoryLeak"}
    [] OTHER -> {}

\* Each potential bug comes with the details of its kind (Some, not None).
record_potential_bugs ==
  /\ pc = "Record" /\ pc' = "Undef"
  /\ pbugs' = {b \in [instr : Instr, kind : Kinds, details : {"Some"}] :
                 b.kind \in PotentialKinds(code[b.instr].op) /\ Asked(b.kind)}
  /\ UNCHANGED <<code, given, opt, env, verdicts, num, bugs, summary>>

\* perform_main_analysis_passes: the passes in their order.
NextPass(pass) ==
  CASE pass = "Undef" -> "Pointer" [] pass = "Pointer" -> "MemSize"
    [] pass = "MemSize" -> "MemType" [] pass = "MemType" -> "Range"
    [] pass = "Range" -> "CheckRange"

perform_analysis ==
  /\ pc \in Analyses /\ pc' = NextPass(pc)
  /\ env' = IF is_analysis_enabled(pc) THEN env \union {pc} ELSE env
  /\ UNCHANGED <<code, given, opt, pbugs, verdicts, num, bugs, summary>>

------------------------------------------------------------------------------
(* Assertions *)

\* The environments of the function that an analysis left.
Envs(i, a) == IF a \in env THEN DOMAIN Facts(code[i], a) ELSE {}

\* The ends of a range as closed ones.
LastOf(a) == IF a.ui THEN a.ub.val ELSE a.ub.val - 1
FirstOf(a) == IF a.li THEN a.lb.val ELSE a.lb.val + 1

check_lower_bound(a, n) ==
  a \notin {None, Bottom} /\ (a.lb = PInf \/ (IsFinite(a.lb) /\ FirstOf(a) >= n))

check_upper_bound(a, n) ==
  a # None /\ (a = Bottom \/ a.ub = NInf \/ (IsFinite(a.ub) /\ LastOf(a) <= n))

HoldsInRange(op, a) ==
  CASE op = "RangeLB" -> check_lower_bound(a, Length)
    [] op = "RangeUB" -> check_upper_bound(a, Length)
    [] op = "RangeLUB" -> check_lower_bound(a, 0) /\ check_upper_bound(a, Length)

\* A range assertion is valid if it holds in one of the environments.
check_one_range_assertion(i) ==
  \E e \in Envs(i, "Range") : HoldsInRange(code[i].op, code[i].range[e])

\* What an environment says of the two pointers; nothing if it has no output there.
may_alias(i, e) == code[i].alias[e] # None /\ "May" \in code[i].alias[e]
must_alias(i, e) == code[i].alias[e] # None /\ "Must" \in code[i].alias[e]
no_alias(i, e) == code[i].alias[e] = {}

\* Faulty variant: one environment is enough for NoAlias.
CheckPointerInOne(i) ==
  LET envs == Envs(i, "Pointer")
      op   == code[i].op
  IN  CASE op = "AssertNoAlias"   -> \E e \in envs : no_alias(i, e)
        [] op = "AssertMayAlias"  -> \E e \in envs : opt.conservative => may_alias(i, e)
        [] op = "AssertMustAlias" -> \A e \in envs : must_alias(i, e)
        [] op = "RefuteNoAlias"   -> \E e \in envs : opt.conservative => may_alias(i, e)
        [] op = "RefuteMayAlias"  -> \A e \in envs : opt.conservative => no_alias(i, e)
        [] op = "RefuteMustAlias" -> \A e \in envs : no_alias(i, e) \/ may_alias(i, e)

check_one_pointer_assertion(i) ==
  LET envs == Envs(i, "Pointer")
      op   == code[i].op
  IN  CASE op = "AssertNoAlias"   -> \A e \in envs : no_alias(i, e)
        [] op = "AssertMayAlias"  -> \E e \in envs : opt.conservative => may_alias(i, e)
        [] op = "AssertMustAlias" -> \A e \in envs : must_alias(i, e)
        [] op = "RefuteNoAlias"   -> \E e \in envs : opt.conservative => may_alias(i, e)
        [] op = "RefuteMayAlias"  -> \A e \in envs : opt.conservative => no_alias(i, e)
        [] op = "RefuteMustAlias" -> \A e \in envs : no_alias(i, e) \/ may_alias(i, e)

\* find_range_assertions sees calls, find_alias_assertions invokes too.
find_range_assertions == {i \in Instr : code[i].op \in RangeAsserts /\ ~code[i].invoked}
find_alias_assertions == {i \in Instr : code[i].op \in AliasAsserts}

AssertAsked(type) == opt.assert_all \/ type \in opt.assert_types

\* The assertions that a check decides: those of functions that were analysed.
Decided(found, a) == {i \in found : AssertAsked(a) /\ Envs(i, a) # {}}

\* check_all_..._assertions
Verdicts(found, a, valid(_)) == {<<i, valid(i)>> : i \in Decided(found, a)}

CountValid(vs) == Cardinality({v \in vs : v[2]})

Count(vs) ==
  num' = [num EXCEPT !.valid = @ + CountValid(vs),
                     !.invalid = @ + Cardinality(vs) - CountValid(vs)]

check_range_assertions ==
  LET vs == IF opt.check_assert
            THEN Verdicts(find_range_assertions, "Range", check_one_range_assertion) ELSE {}
  IN  /\ pc = "CheckRange" /\ pc' = "CheckPointer"
      /\ verdicts' = verdicts \union vs
      /\ Count(vs)
      /\ UNCHANGED <<code, given, opt, env, pbugs, bugs, summary>>

check_pointer_assertions ==
  LET vs == IF opt.check_assert
            THEN Verdicts(find_alias_assertions, "Pointer", check_one_pointer_assertion) ELSE {}
  IN  /\ pc = "CheckPointer" /\ pc' = "CountAssertions"
      /\ verdicts' = verdicts \union vs
      /\ Count(vs)
      /\ UNCHANGED <<code, given, opt, env, pbugs, bugs, summary>>

\* count_assertions: range assertions count only if they were asked for.
count_assertions ==
  (IF AssertAsked("Range") THEN Cardinality(find_range_assertions) ELSE 0)
    + Cardinality(find_alias_assertions)

\* The end of check_assertions, where the skipped assertions are counted.
report_assertions ==
  /\ pc = "CountAssertions" /\ pc' = "FindBugs"
  /\ num' = IF opt.check_assert
            THEN [num EXCEPT !.skipped = count_assertions - Cardinality(verdicts)] ELSE num
  /\ UNCHANGED <<code, given, opt, env, pbugs, verdicts, bugs, summary>>
------------------------------------------------------------------------------
(* Bugs *)

\* Some environment of the range analysis gives instruction i an interval of which P holds.
InSomeRange(i, P(_)) ==
  \E e \in Envs(i, "Range") : code[i].range[e] \notin {None, Bottom} /\ P(code[i].range[e])

check_bug_integer_overflow(i) ==
  InSomeRange(i, LAMBDA a : less_bound(EInt(MaxVal), a.ub))

\* The upper end is compared with the least integer.
check_bug_integer_underflow(i) ==
  InSomeRange(i, LAMBDA a : less_bound(a.ub, EInt(-MaxVal - 1)))

\* The upper end is compared with zero twice, for bugs without details.
check_bug_division_by_zero(b) ==
  /\ b.details = "None"
  /\ \E e \in Envs(b.instr, "Range") :
       LET a == code[b.instr].divisor[e]
       IN  a \notin {None, Bottom} /\ lequal_bound(a.ub, Int64(0)) /\ lequal_bound(Int64(0), a.ub)

\* Faulty variant: only the largest size counts.
OverrunsLargest(i, a) ==
  \E e \in Envs(i, "MemSize") :
    LET sz == code[i].size[e]
    IN  sz \notin {None, Bottom} /\ lequal_bound(udiv_bound(sz.ub, Int64(ElemSize)), a.ub)

\* The index may reach the number of elements, the largest or the least.
Overruns(i, a) ==
  \E e \in Envs(i, "MemSize") :
    LET sz == code[i].size[e]
    IN  /\ sz \notin {None, Bottom}
        /\ \/ lequal_bound(udiv_bound(sz.ub, Int64(ElemSize)), a.ub)
           \/ lequal_bound(udiv_bound(sz.lb, Int64(ElemSize)), a.ub)

check_bug_buffer_overflow(i) ==
  InSomeRange(i, LAMBDA a : IF code[i].op = "ArrayAccess" THEN UpperAtLeast(a, Length)
                            ELSE Overruns(i, a))

\* Faulty variant: one environment is enough.
BasedInOne(i, type) == \E e \in Envs(i, "MemType") : code[i].memtype[e] = type

\* is_stack_based_pointer, is_heap_based_pointer
IsBased(i, type) ==
  Envs(i, "MemType") # {} /\ \A e \in Envs(i, "MemType") : code[i].memtype[e] = type

\* update_buffer_overflow_memory_type
update_buffer_overflow_memory_type(i) ==
  CASE IsBased(i, "Stack") -> "Stack" [] ~IsBased(i, "Stack") /\ IsBased(i, "Heap") -> "Heap"
    [] OTHER -> "Unknown"

check_bug(b) ==
  CASE b.kind = "IntegerOverflow"  -> check_bug_integer_overflow(b.instr)
    [] b.kind = "IntegerUnderflow" -> check_bug_integer_underflow(b.instr)
    [] b.kind = "DivisionByZero"   -> check_bug_division_by_zero(b)
    [] b.kind = "BufferOverflow"   -> check_bug_buffer_overflow(b.instr)
    [] OTHER                       -> FALSE   \* check_bug_memory_leak is not implemented

RealBug(b) ==
  [instr |-> b.instr, kind |-> b.kind,
   region |-> IF b.kind = "BufferOverflow" THEN update_buffer_overflow_memory_type(b.instr) ELSE None]

find_bugs ==
  /\ pc = "FindBugs" /\ pc' = "Summary"
  /\ bugs' = IF opt.find_bug THEN {RealBug(b) : b \in {b \in pbugs : Asked(b.kind) /\ check_bug(b)}}
             ELSE {}
  /\ UNCHANGED <<code, given, opt, env, pbugs, verdicts, num, summary>>

\* The assertions are counted by the counters of global.ml; those that compute_analysis_result
\* makes for itself are never read.
print_analysis_summary ==
  /\ pc = "Summary" /\ pc' = "Done"
  /\ summary' = IF opt.work_mode = "NoAnalysis" THEN None
                ELSE [valid |-> IF opt.check_assert THEN num.valid ELSE None,
                      invalid |-> IF opt.check_assert THEN num.invalid ELSE None,
                      bugs |-> IF opt.find_bug /\ opt.work_mode = "DFA" THEN Cardinality(bugs) ELSE None]
  /\ UNCHANGED <<code, given, opt, env, pbugs, verdicts, num, bugs>>

Finished == pc = "Done" /\ UNCHANGED vars

------------------------------------------------------------------------------
Init ==
  /\ code \in {p \in Program : \A i \in Instr : Right(p[i])}
  /\ given = <<>>
  /\ opt = Defaults
  /\ pc = "Options"
  /\ env = {}
  /\ pbugs = {}
  /\ verdicts = {}
  /\ num = [valid |-> 0, invalid |-> 0, skipped |-> 0]
  /\ bugs = {}
  /\ summary = None

Next ==
  \/ parse_arguments
  \/ init_environment
  \/ record_potential_bugs
  \/ perform_analysis
  \/ check_range_assertions
  \/ check_pointer_assertions
  \/ report_assertions
  \/ find_bugs
  \/ print_analysis_summary
  \/ Finished

Spec == Init /\ [][Next]_vars

------------------------------------------------------------------------------
(* Properties *)

\* Positions on the command line of options in os, and whether one of them comes without
\* one of others behind it.
At(os) == {n \in DOMAIN given : given[n] \in os}
StandsAgainst(os, others) == \E n \in At(os) : \A m \in At(others) : m <= n

\* What the user asked for, in the words of the help text of the options; an option for one
\* kind of bugs or assertions takes back an earlier one for all.
DfaOptions == {"--dataflow", "--dfa-range", "--dfa-undef", "--dfa-memsize", "--dfa-memtype",
               "--dfa-pointer", "--dfa-pointer-conservative", "--dfa-pointer-full",
               "--dfa-all-analysis", "--dfa-auto-schedule"}

AnalysisOptions(a) ==
  CASE a = "Range" -> {"--dfa-range"} [] a = "MemSize" -> {"--dfa-memsize"}
    [] a = "MemType" -> {"--dfa-memtype"} [] a = "Undef" -> {"--dfa-undef", "--dfa-pointer-full"}
    [] a = "Pointer" -> {"--dfa-pointer", "--dfa-pointer-conservative", "--dfa-pointer-full"}

AnalysisWanted(a) ==
  /\ At({"--dis-analysis"}) = {} /\ StandsAgainst(DfaOptions, {"--symexec"})
  /\ \/ StandsAgainst(AnalysisOptions(a), {"--dfa-all-analysis", "--dfa-auto-schedule"})
     \/ StandsAgainst({"--dfa-all-analysis"}, {"--dfa-auto-schedule"})

BugOptions(kind) ==
  CASE kind = "IntegerOverflow"  -> {"--bug-integer-overflow", "--bug-integer-all"}
    [] kind = "IntegerUnderflow" -> {"--bug-integer-underflow", "--bug-integer-all"}
    [] kind = "DivisionByZero"   -> {"--bug-integer-all"}
    [] kind = "BufferOverflow"   -> {"--bug-buffer-overflow", "--bug-memory-all"}
    [] kind = "MemoryLeak"       -> {"--bug-memory-leak", "--bug-memory-all"}
    [] kind = "NullPointerDeref" -> {"--bug-null-pointer-deref", "--bug-memory-all"}

BugWanted(kind) ==
  At(BugOptions(kind)) # {} \/ StandsAgainst({"--bug-all"}, UNION {BugOptions(k) : k \in Kinds})

Reported(i, kind) == \E b \in bugs : b.instr = i /\ b.kind = kind

\* The run comes to instruction i, in a function that the range analysis has analysed.
Analysed(i) == code[i].run # None /\ Known(code[i], "Range") /\ AnalysisWanted("Range")

\* A result of instruction i that is too large, or its access behind the end of a buffer, is
\* reported.
OverflowsFound(i) ==
  LET f == code[i]
  IN  Analysed(i) =>
      /\ f.op \in Arithmetic /\ f.val > MaxVal /\ BugWanted("IntegerOverflow") =>
           Reported(i, "IntegerOverflow")
      /\ f.op = "ArrayAccess" /\ f.val >= Length /\ BugWanted("BufferOverflow") =>
           Reported(i, "BufferOverflow")
      /\ f.op = "MemoryAccess" /\ f.val >= f.bytes \div ElemSize /\ BugWanted("BufferOverflow")
           /\ AnalysisWanted("MemSize") /\ Known(f, "MemSize") => Reported(i, "BufferOverflow")

\* Whatever the options and their order: a result that is too large, and an access behind
\* the end of a buffer, are reported if bugs of that kind were asked for together with the
\* analyses that find them.
OverflowsReported == pc = "Done" => \A i \in Instr : OverflowsFound(i)

\* The region of a buffer in a report (CWE-121 or CWE-122) is the one in the run.
RegionTrue ==
  \A b \in bugs : b.region \in {"Stack", "Heap"} /\ code[b.instr].run # None =>
    b.region = code[b.instr].region

\* discover.h, linked to a program that is run: the assertion prints "OK!", given whether
\* the two pointers are equal.
AliasPrintsOK(op, same) ==
  CASE op \in {"AssertNoAlias", "RefuteMustAlias"} -> ~same
    [] op \in {"AssertMustAlias", "RefuteNoAlias", "RefuteMayAlias"} -> same
    [] op = "AssertMayAlias" -> TRUE

\* The same for the value of an integer.
RangePrintsOK(op, val) ==
  /\ op = "RangeLB" => val >= Length
  /\ op = "RangeUB" => val <= Length
  /\ op = "RangeLUB" => 0 <= val /\ val <= Length

\* The run agrees with the assertion.  __refute_may_alias prints the opposite of what it
\* says; without the conservative option, and for the assertions left, a verdict is a guess.
TrueInRun(f) ==
  CASE f.op \in {"AssertNoAlias", "AssertMustAlias"} -> AliasPrintsOK(f.op, f.same)
    [] f.op = "RefuteMayAlias" -> opt.conservative => ~AliasPrintsOK(f.op, f.same)
    [] f.op \in RangeAsserts -> RangePrintsOK(f.op, f.val)
    [] OTHER -> TRUE

\* An assertion that is reported as valid holds when its function of discover.h is run.  A range assertion in a
\* function with several environments is reported as valid when one of them makes it so.
ValidVerdictsTrue ==
  \A v \in verdicts :
    LET f == code[v[1]]
    IN  v[2] /\ f.run # None /\ (f.op \in AliasAsserts \/ Cardinality(DOMAIN f.range) = 1) =>
          TrueInRun(f)

\* README.md names "integer overflows, integer underflow, ... division-by-zero" as what the
\* tool finds: a result that is too small and a divisor that is zero are reported if bugs of that
\* kind were asked for.
IntegerBugsReported ==
  pc = "Done" => \A i \in Instr :
    LET f == code[i]
    IN  Analysed(i) =>
        /\ f.op \in Arithmetic /\ f.val < -MaxVal - 1 /\ BugWanted("IntegerUnderflow") =>
             Reported(i, "IntegerUnderflow")
        /\ f.op = "Div" /\ f.by = 0 /\ BugWanted("DivisionByZero") => Reported(i, "DivisionByZero")
===============================================================================
