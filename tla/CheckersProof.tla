---------------------------- MODULE CheckersProof ----------------------------
(***************************************************************************)
(* Proofs about the path from the command line to the verdicts, for every  *)
(* program about which the analyses are right, every list of options and   *)
(* every width of integers.                                                *)
(***************************************************************************)
EXTENDS Checkers, FiniteSetTheorems, TLAPS

\* The kinds of bounds: values are integers, infinities have one form each.
LEMMA BoundKinds ==
  ASSUME NEW b \in Bounds
  PROVE  /\ b.val \in Int
         /\ b.kind \in {"PInf", "NInf", "Int64", "EInt"}
         /\ b.kind = "PInf" <=> b = PInf
         /\ b.kind = "NInf" <=> b = NInf
         /\ b.kind = "Int64" => Fits(b.val)
BY DEF Bounds, PInf, NInf

\* The fields of a range that mk_range made.
LEMMA RangeFields ==
  ASSUME NEW r \in Ranges
  PROVE  /\ r.lb \in Bounds /\ r.ub \in Bounds /\ r.li \in BOOLEAN /\ r.ui \in BOOLEAN
         /\ r # Bottom
         /\ r.lb.kind = "Int64" => r.li
         /\ r.ub.kind = "Int64" => r.ui
BY DEF Ranges, Bottom

\* The settings are a record with the fields of Defaults.
IsSettings(o) ==
  o = [work_mode |-> o.work_mode, skip_analysis |-> o.skip_analysis, dfa_analyses |-> o.dfa_analyses,
       sparse |-> o.sparse, conservative |-> o.conservative,
       find_bug |-> o.find_bug, bug_all |-> o.bug_all, bug_types |-> o.bug_types,
       check_assert |-> o.check_assert, assert_all |-> o.assert_all, assert_types |-> o.assert_types]

\* The kind of bugs that an option asks for, the analyses that it adds.
BugTypes(option) ==
  CASE option = "--bug-integer-overflow"   -> {"IntegerOverflow"}
    [] option = "--bug-integer-underflow"  -> {"IntegerUnderflow"}
    [] option = "--bug-memory-leak"        -> {"MemoryLeak"}
    [] option = "--bug-null-pointer-deref" -> {"NullPointerDeref"}
    [] option = "--bug-buffer-overflow"    -> {"BufferOverflow"}
    [] option = "--bug-integer-all"        -> {"IntegerAll"}
    [] option = "--bug-memory-all"         -> {"MemoryAll"}
    [] OTHER -> {}

Added(option) ==
  CASE option = "--dfa-range" -> {"Range"} [] option = "--dfa-undef" -> {"Undef"}
    [] option = "--dfa-memsize" -> {"MemSize"} [] option = "--dfa-memtype" -> {"MemType"}
    [] option = "--dfa-pointer" -> {"Pointer"} [] option = "--dfa-pointer-conservative" -> {"Pointer"}
    [] option = "--dfa-pointer-full" -> {"Undef", "Pointer"}
    [] OTHER -> {}

\* What an option may do to the settings that decide about bugs and analyses.
Became(n, o, mode, analyses, types, all, find) ==
  /\ IsSettings(n) /\ n.skip_analysis = o.skip_analysis
  /\ n.work_mode = mode /\ n.dfa_analyses = analyses
  /\ n.bug_types = types /\ n.bug_all = all /\ n.find_bug = find

LEMMA AnalysesBecome ==
  ASSUME NEW o, IsSettings(o), NEW T, NEW n, n = [o EXCEPT !.work_mode = "DFA", !.dfa_analyses = T]
  PROVE  Became(n, o, "DFA", T, o.bug_types, o.bug_all, o.find_bug)
BY DEF IsSettings, Became

LEMMA BugsBecome ==
  ASSUME NEW o, IsSettings(o), NEW T, NEW n,
         n = [o EXCEPT !.find_bug = TRUE, !.bug_all = FALSE, !.bug_types = T]
  PROVE  Became(n, o, o.work_mode, o.dfa_analyses, T, FALSE, TRUE)
BY DEF IsSettings, Became

LEMMA AssertsBecome ==
  ASSUME NEW o, IsSettings(o), NEW T, NEW n,
         \/ n = [o EXCEPT !.check_assert = TRUE, !.assert_all = FALSE, !.assert_types = T]
         \/ n = [o EXCEPT !.check_assert = TRUE, !.assert_all = TRUE]
  PROVE  Became(n, o, o.work_mode, o.dfa_analyses, o.bug_types, o.bug_all, o.find_bug)
BY DEF IsSettings, Became

\* The setting beside the analyses that three options change.
LEMMA FlagBecomes ==
  ASSUME NEW o, NEW m, NEW mode, NEW T, NEW types, NEW all, NEW find, NEW v, NEW n,
         Became(m, o, mode, T, types, all, find),
         n = [m EXCEPT !.sparse = v] \/ n = [m EXCEPT !.conservative = v]
  PROVE  Became(n, o, mode, T, types, all, find)
BY DEF IsSettings, Became

BugTypeOptions ==
  {"--bug-integer-overflow", "--bug-integer-underflow", "--bug-memory-leak",
   "--bug-null-pointer-deref", "--bug-buffer-overflow", "--bug-integer-all", "--bug-memory-all"}

AddingOptions ==
  {"--dfa-range", "--dfa-undef", "--dfa-memsize", "--dfa-memtype", "--dfa-pointer",
   "--dfa-pointer-conservative", "--dfa-pointer-full"}

\* An option that asks for one kind of bugs.
LEMMA ApplyBugType ==
  ASSUME NEW o, IsSettings(o), NEW option \in BugTypeOptions
  PROVE  /\ Became(Apply(o, option), o, o.work_mode, o.dfa_analyses,
                   o.bug_types \union BugTypes(option), FALSE, TRUE)
         /\ BugTypes(option) # {}
<1>1. PICK t : Apply(o, option) = find_bug_type(o, t) /\ BugTypes(option) = {t}
  BY DEF BugTypeOptions, Apply, BugTypes
<1> DEFINE T == o.bug_types \union {t}
<1>2. Apply(o, option) = [o EXCEPT !.find_bug = TRUE, !.bug_all = FALSE, !.bug_types = T]
  BY <1>1 DEF find_bug_type, IsSettings
<1> HIDE DEF T
<1>3. Became(Apply(o, option), o, o.work_mode, o.dfa_analyses, T, FALSE, TRUE)
  BY <1>2, BugsBecome
<1> QED
  BY <1>1, <1>3 DEF T

\* An option that adds analyses.
LEMMA ApplyAdding ==
  ASSUME NEW o, IsSettings(o), NEW option \in AddingOptions
  PROVE  Became(Apply(o, option), o, "DFA", o.dfa_analyses \union Added(option),
                o.bug_types, o.bug_all, o.find_bug)
<1> DEFINE T == o.dfa_analyses \union Added(option)
           m == AddAnalyses(o, Added(option))
<1>1. m = [o EXCEPT !.work_mode = "DFA", !.dfa_analyses = T]
  BY DEF AddAnalyses, IsSettings
<1>2. \/ Apply(o, option) = m
      \/ \E v \in BOOLEAN : Apply(o, option) = [m EXCEPT !.sparse = v]
                            \/ Apply(o, option) = [m EXCEPT !.conservative = v]
  BY DEF AddingOptions, Apply, Added
<1> HIDE DEF T, m
<1>3. Became(m, o, "DFA", T, o.bug_types, o.bug_all, o.find_bug)
  BY <1>1, AnalysesBecome
<1>4. Became(Apply(o, option), o, "DFA", T, o.bug_types, o.bug_all, o.find_bug)
  BY <1>2, <1>3, FlagBecomes
<1> QED
  BY <1>4 DEF T

\* What an option does to these settings.
AfterOption(n, o, option) ==
  /\ IsSettings(n)
  /\ option # "--dis-analysis" => n.skip_analysis = o.skip_analysis
  /\ n.work_mode = IF option = "--symexec" THEN "SymExec"
                   ELSE IF option \in DfaOptions THEN "DFA" ELSE o.work_mode
  /\ n.dfa_analyses = IF option = "--dfa-all-analysis" THEN {"AllAnalyses"}
                      ELSE IF option = "--dfa-auto-schedule" THEN {"AutoSchedule"}
                      ELSE o.dfa_analyses \union Added(option)
  /\ n.bug_types = o.bug_types \union BugTypes(option)
  /\ n.bug_all = IF option = "--bug-all" THEN TRUE
                 ELSE IF BugTypes(option) # {} THEN FALSE ELSE o.bug_all
  /\ n.find_bug = IF option = "--bug-all" \/ BugTypes(option) # {} THEN TRUE ELSE o.find_bug

LEMMA ApplyFields ==
  ASSUME NEW o, IsSettings(o), NEW option \in AllOptions
  PROVE  AfterOption(Apply(o, option), o, option)
<1> DEFINE n == Apply(o, option)
<1> SUFFICES AfterOption(n, o, option)
  OBVIOUS
<1>1. CASE option \in BugTypeOptions
  <2>1. /\ Became(n, o, o.work_mode, o.dfa_analyses, o.bug_types \union BugTypes(option), FALSE, TRUE)
        /\ BugTypes(option) # {}
    BY <1>1, ApplyBugType
  <2>2. Added(option) = {} /\ option \notin DfaOptions
        /\ option \notin {"--symexec", "--bug-all", "--dfa-all-analysis", "--dfa-auto-schedule"}
    BY <1>1 DEF BugTypeOptions, Added, DfaOptions
  <2> QED
    BY <2>1, <2>2 DEF Became, AfterOption
<1>2. CASE option \in AddingOptions
  <2>1. Became(n, o, "DFA", o.dfa_analyses \union Added(option), o.bug_types, o.bug_all, o.find_bug)
    BY <1>2, ApplyAdding
  <2>2. BugTypes(option) = {} /\ option \in DfaOptions
        /\ option \notin {"--symexec", "--bug-all", "--dfa-all-analysis", "--dfa-auto-schedule"}
    BY <1>2 DEF AddingOptions, BugTypes, DfaOptions
  <2> QED
    BY <2>1, <2>2 DEF Became, AfterOption
<1>3. CASE option \in {"--assert-all", "--assert-range", "--assert-pointer"}
  <2>1. PICK T : \/ n = [o EXCEPT !.check_assert = TRUE, !.assert_all = FALSE, !.assert_types = T]
                 \/ n = [o EXCEPT !.check_assert = TRUE, !.assert_all = TRUE]
    BY <1>3 DEF Apply, check_assert_type, IsSettings
  <2>2. Became(n, o, o.work_mode, o.dfa_analyses, o.bug_types, o.bug_all, o.find_bug)
    BY <2>1, AssertsBecome
  <2>3. BugTypes(option) = {} /\ Added(option) = {} /\ option \notin DfaOptions
        /\ option \notin {"--symexec", "--bug-all", "--dfa-all-analysis", "--dfa-auto-schedule"}
    BY <1>3 DEF BugTypes, Added, DfaOptions
  <2> QED
    BY <2>2, <2>3 DEF Became, AfterOption
<1>4. CASE option \in {"--dfa-all-analysis", "--dfa-auto-schedule"}
  <2>1. PICK T : /\ T = IF option = "--dfa-all-analysis" THEN {"AllAnalyses"} ELSE {"AutoSchedule"}
                 /\ n = [o EXCEPT !.work_mode = "DFA", !.dfa_analyses = T]
    BY <1>4 DEF Apply, SetAnalyses
  <2>2. Became(n, o, "DFA", T, o.bug_types, o.bug_all, o.find_bug)
    BY <2>1, AnalysesBecome
  <2>3. BugTypes(option) = {} /\ Added(option) = {} /\ option \in DfaOptions
        /\ option \notin {"--symexec", "--bug-all"}
    BY <1>4 DEF BugTypes, Added, DfaOptions
  <2> QED
    BY <1>4, <2>1, <2>2, <2>3 DEF Became, AfterOption
<1>5. CASE option \in {"--dis-analysis", "--symexec", "--dataflow", "--bug-all"}
  <2>1. BugTypes(option) = {} /\ Added(option) = {} /\ (option \in DfaOptions <=> option = "--dataflow")
        /\ option \notin {"--dfa-all-analysis", "--dfa-auto-schedule"}
    BY <1>5 DEF BugTypes, Added, DfaOptions
  <2>2. CASE option = "--dis-analysis"
    BY <2>1, <2>2 DEF Apply, IsSettings, AfterOption
  <2>3. CASE option = "--symexec"
    BY <2>1, <2>3 DEF Apply, IsSettings, AfterOption
  <2>4. CASE option = "--dataflow"
    BY <2>1, <2>4 DEF Apply, IsSettings, AfterOption
  <2>5. CASE option = "--bug-all"
    BY <2>1, <2>5 DEF Apply, IsSettings, AfterOption
  <2> QED
    BY <1>5, <2>2, <2>3, <2>4, <2>5
<1> QED
  BY <1>1, <1>2, <1>3, <1>4, <1>5 DEF AllOptions, BugTypeOptions, AddingOptions

------------------------------------------------------------------------------
\* The last option given decides which one stands.
LEMMA StandsStep ==
  ASSUME given \in Seq(AllOptions), NEW option \in AllOptions, given' = Append(given, option),
         NEW os, NEW others
  PROVE  /\ StandsAgainst(os, others)' <=>
              option \in os \/ (option \notin others /\ StandsAgainst(os, others))
         /\ (At(os) # {})' <=> option \in os \/ At(os) # {}
<1> DEFINE n == Len(given)
<1>1. n \in Nat /\ DOMAIN given = 1 .. n /\ DOMAIN given' = 1 .. n + 1
      /\ \A i \in 1 .. n + 1 : given'[i] = IF i = n + 1 THEN option ELSE given[i]
  OBVIOUS
<1> HIDE DEF n
<1>2. \A S : At(S)' = At(S) \union (IF option \in S THEN {n + 1} ELSE {})
  BY <1>1 DEF At
<1>3. \A S : At(S) \subseteq 1 .. n
  BY <1>1 DEF At
<1>4. CASE option \in os
  <2>1. n + 1 \in At(os)' /\ \A m \in At(others)' : m <= n + 1
    BY <1>1, <1>2, <1>3, <1>4
  <2> QED
    BY <1>4, <2>1 DEF StandsAgainst
<1>5. CASE option \notin os /\ option \in others
  <2>1. \A m \in At(os)' : ~(n + 1 <= m)
    BY <1>1, <1>2, <1>3, <1>5
  <2>2. n + 1 \in At(others)' /\ At(os)' = At(os)
    BY <1>2, <1>5
  <2> QED
    BY <1>5, <2>1, <2>2 DEF StandsAgainst
<1>6. CASE option \notin os /\ option \notin others
  <2>1. At(os)' = At(os) /\ At(others)' = At(others)
    BY <1>2, <1>6
  <2> QED
    BY <1>6, <2>1 DEF StandsAgainst
<1> QED
  BY <1>4, <1>5, <1>6

------------------------------------------------------------------------------
(* What the options leave in the settings *)

AnyBugOption == UNION {BugOptions(k) : k \in Kinds}

\* The settings follow the options that stand.
AnalysesSet ==
  /\ \A a \in Analyses :
       StandsAgainst(AnalysisOptions(a), {"--dfa-all-analysis", "--dfa-auto-schedule"}) =>
         a \in opt.dfa_analyses
  /\ StandsAgainst({"--dfa-all-analysis"}, {"--dfa-auto-schedule"}) => "AllAnalyses" \in opt.dfa_analyses

BugsSet ==
  /\ \A kind \in Kinds : At(BugOptions(kind)) # {} =>
       opt.find_bug /\ opt.bug_types \intersect {kind, Group(kind)} # {}
  /\ StandsAgainst({"--bug-all"}, AnyBugOption) => opt.find_bug /\ opt.bug_all

ModeSet ==
  /\ At({"--dis-analysis"}) = {} => ~opt.skip_analysis
  /\ (pc = "Options" \/ At({"--dis-analysis"}) = {}) /\ StandsAgainst(DfaOptions, {"--symexec"}) =>
       opt.work_mode = "DFA"

OptionsInv ==
  /\ given \in Seq(AllOptions) /\ IsSettings(opt)
  /\ ModeSet /\ AnalysesSet /\ BugsSet

LEMMA AddedByOption ==
  ASSUME NEW a \in Analyses, NEW option \in AnalysisOptions(a)
  PROVE  a \in Added(option) /\ option \notin {"--dfa-all-analysis", "--dfa-auto-schedule"}
BY DEF Analyses, AnalysisOptions, Added

LEMMA TypeOfOption ==
  ASSUME NEW kind \in Kinds, NEW option \in BugOptions(kind)
  PROVE  BugTypes(option) \intersect {kind, Group(kind)} # {}
BY DEF Kinds, IntegerBugs, MemoryBugs, BugOptions, BugTypes, Group

LEMMA TypedOptions ==
  ASSUME NEW option \in AllOptions, BugTypes(option) # {}
  PROVE  option \in AnyBugOption /\ option # "--bug-all"
<1> DEFINE k == CASE option \in BugOptions("IntegerOverflow") -> "IntegerOverflow"
                  [] option \in BugOptions("IntegerUnderflow") -> "IntegerUnderflow"
                  [] option \in BugOptions("BufferOverflow") -> "BufferOverflow"
                  [] option \in BugOptions("MemoryLeak") -> "MemoryLeak"
                  [] OTHER -> "NullPointerDeref"
<1>1. k \in Kinds /\ option \in BugOptions(k) /\ option # "--bug-all"
  BY DEF BugTypes, BugOptions, Kinds, IntegerBugs, MemoryBugs
<1> HIDE DEF k
<1> QED
  BY <1>1 DEF AnyBugOption

LEMMA OptionGiven ==
  ASSUME OptionsInv, parse_arguments, Option \subseteq AllOptions
  PROVE  OptionsInv'
<1>1. PICK option \in Option : given' = Append(given, option) /\ opt' = Apply(opt, option)
  BY DEF parse_arguments
<1>2. option \in AllOptions /\ pc = "Options" /\ pc' = "Options"
  BY <1>1 DEF parse_arguments
<1> DEFINE n == opt'
<1>3. given \in Seq(AllOptions) /\ IsSettings(opt)
  BY DEF OptionsInv
<1>4. given' \in Seq(AllOptions)
  BY <1>1, <1>2, <1>3
<1>5. \A os, others :
        /\ StandsAgainst(os, others)' <=> option \in os \/ (option \notin others /\ StandsAgainst(os, others))
        /\ (At(os) # {})' <=> option \in os \/ At(os) # {}
  BY <1>1, <1>2, <1>3, StandsStep
<1>6. AfterOption(n, opt, option)
  BY <1>1, <1>2, <1>3, ApplyFields
<1> HIDE DEF n
<1>7. ModeSet'
  <2>1. ModeSet
    BY DEF OptionsInv
  <2>2. (At({"--dis-analysis"}) = {})' <=> option # "--dis-analysis" /\ At({"--dis-analysis"}) = {}
    BY <1>5
  <2>3. StandsAgainst(DfaOptions, {"--symexec"})' <=>
          option \in DfaOptions \/ (option # "--symexec" /\ StandsAgainst(DfaOptions, {"--symexec"}))
    BY <1>5
  <2>4. "--symexec" \notin DfaOptions
    BY DEF DfaOptions
  <2> QED
    BY <1>2, <1>6, <2>1, <2>2, <2>3, <2>4 DEF ModeSet, AfterOption, n
<1>8. AnalysesSet'
  <2> DEFINE Replacing == {"--dfa-all-analysis", "--dfa-auto-schedule"}
  <2>1. AnalysesSet
    BY DEF OptionsInv
  <2>2. ASSUME NEW a \in Analyses, StandsAgainst(AnalysisOptions(a), Replacing)'
        PROVE  a \in n.dfa_analyses
    <3>1. option \in AnalysisOptions(a)
          \/ (option \notin Replacing /\ StandsAgainst(AnalysisOptions(a), Replacing))
      BY <1>5, <2>2
    <3>2. CASE option \in AnalysisOptions(a)
      BY <1>6, <3>2, AddedByOption DEF AfterOption
    <3>3. CASE option \notin Replacing /\ StandsAgainst(AnalysisOptions(a), Replacing)
      <4>1. a \in opt.dfa_analyses
        BY <2>1, <3>3 DEF AnalysesSet
      <4> QED
        BY <1>6, <3>3, <4>1 DEF AfterOption
    <3> QED
      BY <3>1, <3>2, <3>3
  <2>3. ASSUME StandsAgainst({"--dfa-all-analysis"}, {"--dfa-auto-schedule"})'
        PROVE  "AllAnalyses" \in n.dfa_analyses
    <3>1. option = "--dfa-all-analysis"
          \/ (option # "--dfa-auto-schedule"
              /\ StandsAgainst({"--dfa-all-analysis"}, {"--dfa-auto-schedule"}))
      BY <1>5, <2>3
    <3> QED
      BY <1>6, <2>1, <3>1 DEF AnalysesSet, AfterOption
  <2> QED
    BY <2>2, <2>3 DEF AnalysesSet, n
<1>9. BugsSet'
  <2>1. BugsSet
    BY DEF OptionsInv
  <2>2. ASSUME NEW kind \in Kinds, (At(BugOptions(kind)) # {})'
        PROVE  n.find_bug /\ n.bug_types \intersect {kind, Group(kind)} # {}
    <3>1. option \in BugOptions(kind) \/ At(BugOptions(kind)) # {}
      BY <1>5, <2>2
    <3>2. CASE option \in BugOptions(kind)
      BY <1>6, <3>2, TypeOfOption DEF AfterOption
    <3>3. CASE At(BugOptions(kind)) # {}
      BY <1>6, <2>1, <3>3 DEF BugsSet, AfterOption
    <3> QED
      BY <3>1, <3>2, <3>3
  <2>3. ASSUME StandsAgainst({"--bug-all"}, AnyBugOption)'
        PROVE  n.find_bug /\ n.bug_all
    <3>1. option = "--bug-all"
          \/ (option \notin AnyBugOption /\ StandsAgainst({"--bug-all"}, AnyBugOption))
      BY <1>5, <2>3
    <3> QED
      BY <1>2, <1>6, <2>1, <3>1, TypedOptions DEF BugsSet, AfterOption
  <2> QED
    BY <2>2, <2>3 DEF BugsSet, n
<1> QED
  BY <1>4, <1>6, <1>7, <1>8, <1>9 DEF OptionsInv, AfterOption, n

\* The options are read no more: what they ask for is what the settings say.
LEMMA WantedIsEnabled ==
  ASSUME OptionsInv
  PROVE  /\ \A a \in Analyses : AnalysisWanted(a) => opt.work_mode = "DFA" /\ is_analysis_enabled(a)
         /\ \A kind \in Kinds : BugWanted(kind) => opt.find_bug /\ Asked(kind)
<1>1. ModeSet /\ AnalysesSet /\ BugsSet
  BY DEF OptionsInv
<1>2. ASSUME NEW a \in Analyses, AnalysisWanted(a)
      PROVE  opt.work_mode = "DFA" /\ is_analysis_enabled(a)
  BY <1>1, <1>2 DEF AnalysisWanted, ModeSet, AnalysesSet, is_analysis_enabled
<1>3. ASSUME NEW kind \in Kinds, BugWanted(kind)
      PROVE  opt.find_bug /\ Asked(kind)
  BY <1>1, <1>3 DEF BugWanted, BugsSet, Asked, AnyBugOption
<1> QED
  BY <1>2, <1>3

LEMMA OptionsStep ==
  ASSUME OptionsInv, [Next]_vars, Option \subseteq AllOptions
  PROVE  OptionsInv'
<1>1. CASE parse_arguments
  BY <1>1, OptionGiven
<1>2. CASE init_environment
  <2> DEFINE mode == IF opt.skip_analysis THEN "NoAnalysis" ELSE opt.work_mode
  <2>1. opt' = [opt EXCEPT !.work_mode = mode] /\ given' = given /\ pc = "Options"
    BY <1>2 DEF init_environment
  <2>2. IsSettings(opt)
    BY DEF OptionsInv
  <2> HIDE DEF mode
  <2>3. Became(opt', opt, mode, opt.dfa_analyses, opt.bug_types, opt.bug_all, opt.find_bug)
    BY <2>1, <2>2 DEF IsSettings, Became
  <2>4. IsSettings(opt') /\ AnalysesSet' /\ BugsSet'
    BY <2>1, <2>3 DEF OptionsInv, Became, AnalysesSet, BugsSet, At, StandsAgainst
  <2>5. ModeSet'
    <3>1. opt'.skip_analysis = opt.skip_analysis /\ opt'.work_mode = mode
      BY <2>3 DEF Became
    <3>2. \A os, others : At(os)' = At(os) /\ StandsAgainst(os, others)' = StandsAgainst(os, others)
      BY <2>1 DEF At, StandsAgainst
    <3>3. ASSUME At({"--dis-analysis"}) = {}
          PROVE  ~opt.skip_analysis /\ mode = opt.work_mode
      BY <3>3 DEF OptionsInv, ModeSet, mode
    <3>4. pc' # "Options"
      BY <1>2 DEF init_environment
    <3> QED
      BY <2>1, <3>1, <3>2, <3>3, <3>4 DEF OptionsInv, ModeSet
  <2> QED
    BY <2>1, <2>4, <2>5 DEF OptionsInv
<1>3. CASE opt' = opt /\ given' = given /\ (pc = "Options" \/ pc' # "Options")
  BY <1>3 DEF OptionsInv, ModeSet, AnalysesSet, BugsSet, At, StandsAgainst
<1>4. ASSUME [Next]_vars, ~parse_arguments, ~init_environment
      PROVE  opt' = opt /\ given' = given /\ (pc = "Options" \/ pc' # "Options")
  <2>1. \A p \in Analyses : NextPass(p) # "Options"
    BY DEF Analyses, NextPass
  <2> QED
    BY <1>4, <2>1 DEF Next, vars, record_potential_bugs, perform_analysis, check_range_assertions,
       check_pointer_assertions, report_assertions, find_bugs, print_analysis_summary, Finished
<1> QED
  BY <1>1, <1>2, <1>3, <1>4

------------------------------------------------------------------------------
(* What a right interval says of the integer in the run *)

LEMMA CoveredAbove ==
  ASSUME NEW a \in Ranges, NEW x \in Int, NEW n \in Int, Covers(a, x), x > n
  PROVE  less_bound(EInt(n), a.ub)
BY RangeFields, BoundKinds DEF Covers, less_bound, lequal_bound, IsFinite, EInt, PInf, NInf

LEMMA CoveredReaches ==
  ASSUME NEW a \in Ranges, NEW x \in Int, NEW n \in Int, Covers(a, x), x >= n
  PROVE  UpperAtLeast(a, n)
BY RangeFields, BoundKinds DEF Covers, UpperAtLeast, IsFinite, PInf

\* The number of elements that fit into a buffer of the least size.
LEMMA LeastElements ==
  ASSUME NEW sz \in Ranges, Sized(sz), MaxInt >= ElemSize
  PROVE  udiv_bound(sz.lb, Int64(ElemSize)) = [kind |-> "Int64", val |-> sz.lb.val \div ElemSize]
<1> USE MaxIntAssumption
<1>1. sz.lb.val \in Nat /\ Fits(sz.lb.val) /\ sz.lb.kind = "Int64"
  BY RangeFields, BoundKinds DEF Sized
<1>2. Int64(ElemSize) = [kind |-> "Int64", val |-> 2]
  BY DEF Int64, Wrap, Fits, MinInt, ElemSize
<1>3. Quotient(sz.lb.val, 2) = sz.lb.val \div 2
  BY <1>1 DEF Quotient, Abs
<1>4. Fits(sz.lb.val \div 2)
  BY <1>1 DEF Fits, MinInt
<1>5. udiv_bound(sz.lb, Int64(ElemSize)) = Result(sz.lb, Int64(ElemSize), sz.lb.val \div 2)
  BY <1>1, <1>2, <1>3 DEF udiv_bound, PInf, NInf
<1> QED
  BY <1>1, <1>2, <1>4, <1>5 DEF Result, Int64, Wrap, ElemSize

LEMMA CoveredOverruns ==
  ASSUME NEW sz \in Ranges, Sized(sz), MaxInt >= ElemSize, NEW bytes \in Nat, Covers(sz, bytes),
         NEW a \in Ranges, NEW x \in Int, Covers(a, x), x >= bytes \div ElemSize
  PROVE  lequal_bound(udiv_bound(sz.lb, Int64(ElemSize)), a.ub)
<1>1. sz.lb.val \in Nat /\ sz.lb.val <= bytes
  BY RangeFields, BoundKinds DEF Sized, Covers, NInf
<1>2. sz.lb.val \div ElemSize <= x /\ sz.lb.val \div ElemSize \in Int
  BY <1>1 DEF ElemSize
<1>3. a.ub = PInf \/ (IsFinite(a.ub) /\ x <= a.ub.val /\ a.ub.val \in Int)
  BY RangeFields, BoundKinds DEF Covers
<1> DEFINE q == sz.lb.val \div ElemSize
<1> HIDE DEF q
<1>4. lequal_bound([kind |-> "Int64", val |-> q], a.ub)
  BY <1>2, <1>3 DEF q, lequal_bound, IsFinite
<1> QED
  BY <1>4, LeastElements DEF q

LEMMA CoveredBounds ==
  ASSUME NEW a, a \in Ranges \union {Bottom, None}, NEW x \in Int, NEW n \in Int, a # None,
         Covers(a, x)
  PROVE  /\ check_lower_bound(a, n) => x >= n
         /\ check_upper_bound(a, n) => x <= n
<1>1. a \in Ranges
  BY DEF Covers
<1> QED
  BY <1>1, RangeFields, BoundKinds DEF Covers, check_lower_bound, check_upper_bound, FirstOf, LastOf,
     IsFinite, PInf, NInf

------------------------------------------------------------------------------
(* The passes *)

Checking == {"CheckRange", "CheckPointer", "CountAssertions", "FindBugs"}

CodeInv == \A i \in Instr : IsFacts(code[i]) /\ Right(code[i])

\* The passes that were asked for, and are over, left their facts.
EnvInv ==
  /\ pc \in {"MemType", "Range"} \union Checking /\ is_analysis_enabled("MemSize") => "MemSize" \in env
  /\ pc \in Checking /\ is_analysis_enabled("Range") => "Range" \in env

\* The potential bugs that were asked for are recorded.
RecordInv ==
  pc \in Analyses \union Checking =>
    \A i \in Instr : \A kind \in PotentialKinds(code[i].op) :
      Asked(kind) => [instr |-> i, kind |-> kind, details |-> "Some"] \in pbugs

FoundInv == pc \in {"Summary", "Done"} => \A i \in Instr : OverflowsFound(i)

LEMMA PotentialAreKinds ==
  ASSUME NEW op, NEW kind \in PotentialKinds(op)
  PROVE  kind \in Kinds
BY DEF PotentialKinds, Kinds, IntegerBugs, MemoryBugs

LEMMA CodeStep ==
  ASSUME CodeInv, [Next]_vars
  PROVE  CodeInv'
<1>1. code' = code
  BY DEF Next, vars, parse_arguments, init_environment, record_potential_bugs, perform_analysis,
     check_range_assertions, check_pointer_assertions, report_assertions, find_bugs,
     print_analysis_summary, Finished
<1> QED
  BY <1>1 DEF CodeInv

\* No step but the first two changes the settings, and none before the passes leaves facts.
LEMMA EnvStep ==
  ASSUME EnvInv, [Next]_vars
  PROVE  EnvInv'
<1>1. CASE perform_analysis
  <2>1. \A a : is_analysis_enabled(a)' = is_analysis_enabled(a)
    BY <1>1 DEF perform_analysis, is_analysis_enabled
  <2>2. pc \in Analyses /\ pc' = NextPass(pc) /\ (is_analysis_enabled(pc) => pc \in env')
        /\ env \subseteq env'
    BY <1>1 DEF perform_analysis
  <2>3. CASE pc \in {"Undef", "Pointer"}
    BY <2>2, <2>3 DEF EnvInv, NextPass, Checking
  <2>4. CASE pc \in {"MemSize", "MemType", "Range"}
    BY <2>1, <2>2, <2>4 DEF EnvInv, NextPass, Checking
  <2> QED
    BY <2>2, <2>3, <2>4 DEF Analyses
<1>2. CASE parse_arguments \/ init_environment \/ record_potential_bugs \/ find_bugs
           \/ print_analysis_summary
  <2>1. pc' \notin {"MemType", "Range"} \union Checking
    BY <1>2 DEF parse_arguments, init_environment, record_potential_bugs, find_bugs,
       print_analysis_summary, Checking
  <2> QED
    BY <2>1 DEF EnvInv
<1>3. CASE check_range_assertions \/ check_pointer_assertions \/ report_assertions \/ Finished
           \/ UNCHANGED vars
  <2>1. opt' = opt /\ env' = env
    BY <1>3 DEF check_range_assertions, check_pointer_assertions, report_assertions, Finished, vars
  <2>2. pc' = pc \/ (pc \in Checking /\ pc' \in Checking)
    BY <1>3 DEF check_range_assertions, check_pointer_assertions, report_assertions, Finished, vars,
       Checking
  <2> QED
    BY <2>1, <2>2 DEF EnvInv, is_analysis_enabled
<1> QED
  BY <1>1, <1>2, <1>3 DEF Next

LEMMA RecordStep ==
  ASSUME RecordInv, [Next]_vars
  PROVE  RecordInv'
<1>1. CASE record_potential_bugs
  <2>1. ASSUME NEW i \in Instr, NEW kind \in PotentialKinds(code[i].op), Asked(kind)
        PROVE  [instr |-> i, kind |-> kind, details |-> "Some"] \in pbugs'
    BY <1>1, <2>1, PotentialAreKinds DEF record_potential_bugs
  <2>2. code' = code /\ \A kind : Asked(kind)' = Asked(kind)
    BY <1>1 DEF record_potential_bugs, Asked
  <2> QED
    BY <2>1, <2>2 DEF RecordInv
<1>2. CASE parse_arguments \/ init_environment \/ find_bugs \/ print_analysis_summary
  <2>1. pc' \notin Analyses \union Checking
    BY <1>2 DEF parse_arguments, init_environment, find_bugs, print_analysis_summary, Analyses, Checking
  <2> QED
    BY <2>1 DEF RecordInv
<1>3. CASE perform_analysis \/ check_range_assertions \/ check_pointer_assertions
           \/ report_assertions \/ Finished \/ UNCHANGED vars
  <2>1. opt' = opt /\ code' = code /\ pbugs' = pbugs
    BY <1>3 DEF perform_analysis, check_range_assertions, check_pointer_assertions, report_assertions,
       Finished, vars
  <2>2. pc' = pc \/ pc \in Analyses \union Checking
    BY <1>3 DEF perform_analysis, check_range_assertions, check_pointer_assertions, report_assertions,
       Finished, vars, Checking
  <2> QED
    BY <2>1, <2>2 DEF RecordInv, Asked
<1> QED
  BY <1>1, <1>2, <1>3 DEF Next

PotentialInv == pbugs \subseteq [instr : Instr, kind : Kinds, details : {"Some"}]

LEMMA PotentialStep ==
  ASSUME PotentialInv, [Next]_vars
  PROVE  PotentialInv'
<1>1. CASE record_potential_bugs
  BY <1>1 DEF record_potential_bugs, PotentialInv
<1>2. CASE ~record_potential_bugs
  <2>1. pbugs' = pbugs
    BY <1>2 DEF Next, vars, parse_arguments, init_environment, perform_analysis,
       check_range_assertions, check_pointer_assertions, report_assertions, find_bugs,
       print_analysis_summary, Finished
  <2> QED
    BY <2>1 DEF PotentialInv
<1> QED
  BY <1>1, <1>2

------------------------------------------------------------------------------
(* Overflows *)

\* A potential bug that was asked for, and that the check confirms, is reported.
LEMMA ConfirmedReported ==
  ASSUME find_bugs, RecordInv, NEW i \in Instr, NEW kind \in PotentialKinds(code[i].op),
         opt.find_bug, Asked(kind),
         check_bug([instr |-> i, kind |-> kind, details |-> "Some"])
  PROVE  Reported(i, kind)'
<1> DEFINE b == [instr |-> i, kind |-> kind, details |-> "Some"]
<1>1. b \in pbugs
  BY DEF find_bugs, RecordInv, Checking
<1>2. b.kind = kind /\ b.instr = i
  OBVIOUS
<1> HIDE DEF b
<1>3. RealBug(b) \in bugs'
  BY <1>1, <1>2 DEF find_bugs, b
<1>4. RealBug(b).instr = i /\ RealBug(b).kind = kind
  BY <1>2 DEF RealBug
<1> QED
  BY <1>3, <1>4 DEF Reported

\* The facts of an analysis that was performed are right about the run.
LEMMA FactsInRun ==
  ASSUME CodeInv, NEW i \in Instr, code[i].run # None, Known(code[i], "Range"), "Range" \in env
  PROVE  /\ code[i].run \in Envs(i, "Range")
         /\ code[i].range[code[i].run] \in Ranges \ {None}
         /\ Covers(code[i].range[code[i].run], code[i].val) /\ code[i].val \in Int
<1>1. IsFacts(code[i]) /\ Right(code[i])
  BY DEF CodeInv
<1>2. Facts(code[i], "Range") = code[i].range
  BY DEF Facts
<1>3. /\ code[i].run \in DOMAIN code[i].range /\ code[i].range[code[i].run] # None
      /\ Covers(code[i].range[code[i].run], code[i].val)
  BY <1>1, <1>2 DEF Right, RightAbout
<1>4. code[i].range[code[i].run] # Bottom
  BY <1>3 DEF Covers
<1> QED
  BY <1>1, <1>2, <1>3, <1>4 DEF IsFacts, Envs

LEMMA SizeInRun ==
  ASSUME CodeInv, NEW i \in Instr, code[i].run # None, Known(code[i], "MemSize"), "MemSize" \in env
  PROVE  /\ code[i].run \in Envs(i, "MemSize")
         /\ code[i].size[code[i].run] \in Ranges \ {None} /\ Sized(code[i].size[code[i].run])
         /\ Covers(code[i].size[code[i].run], code[i].bytes) /\ code[i].bytes \in Nat
<1>1. IsFacts(code[i]) /\ Right(code[i])
  BY DEF CodeInv
<1>2. Facts(code[i], "MemSize") = code[i].size
  BY DEF Facts
<1>3. /\ code[i].run \in DOMAIN code[i].size /\ code[i].size[code[i].run] # None
      /\ Covers(code[i].size[code[i].run], code[i].bytes)
  BY <1>1, <1>2 DEF Right, RightAbout
<1> QED
  BY <1>1, <1>2, <1>3 DEF IsFacts, Envs

LEMMA FoundByBugs ==
  ASSUME CodeInv, EnvInv, RecordInv, OptionsInv, find_bugs, MaxVal \in Nat, Length \in Nat,
         MaxInt >= ElemSize, NEW i \in Instr
  PROVE  OverflowsFound(i)'
<1>1. code' = code /\ given' = given /\ pc = "FindBugs"
  BY DEF find_bugs
<1> DEFINE f == code[i]
           a == f.range[f.run]
<1>2. \A x : AnalysisWanted(x)' = AnalysisWanted(x) /\ BugWanted(x)' = BugWanted(x)
  BY <1>1 DEF AnalysisWanted, BugWanted, StandsAgainst, At
<1>3. Analysed(i)' = Analysed(i)
  BY <1>1, <1>2 DEF Analysed
<1>4. SUFFICES ASSUME Analysed(i)
               PROVE  /\ f.op \in Arithmetic /\ f.val > MaxVal /\ BugWanted("IntegerOverflow") =>
                           Reported(i, "IntegerOverflow")'
                      /\ f.op = "ArrayAccess" /\ f.val >= Length /\ BugWanted("BufferOverflow") =>
                           Reported(i, "BufferOverflow")'
                      /\ f.op = "MemoryAccess" /\ f.val >= f.bytes \div ElemSize
                           /\ BugWanted("BufferOverflow") /\ AnalysisWanted("MemSize")
                           /\ Known(f, "MemSize") => Reported(i, "BufferOverflow")'
  BY <1>1, <1>2, <1>3 DEF OverflowsFound
<1>5. "Range" \in env /\ (AnalysisWanted("MemSize") => "MemSize" \in env)
  BY <1>1, <1>4, WantedIsEnabled DEF EnvInv, Checking, Analysed, Analyses
<1>6. /\ f.run \in Envs(i, "Range") /\ a \in Ranges /\ a # None /\ Covers(a, f.val) /\ f.val \in Int
      /\ a # Bottom
  BY <1>4, <1>5, FactsInRun, RangeFields DEF Analysed
<1>7. ASSUME f.op \in Arithmetic, f.val > MaxVal, BugWanted("IntegerOverflow")
      PROVE  Reported(i, "IntegerOverflow")'
  <2>1. less_bound(EInt(MaxVal), a.ub)
    BY <1>6, <1>7, CoveredAbove
  <2>2. check_bug_integer_overflow(i)
    BY <1>6, <2>1 DEF check_bug_integer_overflow, InSomeRange
  <2>3. "IntegerOverflow" \in PotentialKinds(f.op) /\ "IntegerOverflow" \in Kinds
    <3>1. CASE f.op = "Add"
      BY <3>1 DEF PotentialKinds, IntegerBugs, Kinds, Accesses
    <3>2. CASE f.op = "Div"
      BY <3>2 DEF PotentialKinds, IntegerBugs, Kinds, Accesses
    <3> QED
      BY <1>7, <3>1, <3>2 DEF Arithmetic
  <2>4. opt.find_bug /\ Asked("IntegerOverflow")
    BY <1>7, <2>3, WantedIsEnabled
  <2>5. check_bug([instr |-> i, kind |-> "IntegerOverflow", details |-> "Some"])
    BY <2>2 DEF check_bug
  <2> QED
    BY <2>3, <2>4, <2>5, ConfirmedReported
<1>8. ASSUME f.op \in Accesses, BugWanted("BufferOverflow"), check_bug_buffer_overflow(i)
      PROVE  Reported(i, "BufferOverflow")'
  <2>1. "BufferOverflow" \in PotentialKinds(f.op) /\ "BufferOverflow" \in Kinds
    BY <1>8 DEF PotentialKinds, Accesses, MemoryBugs, Kinds
  <2>2. opt.find_bug /\ Asked("BufferOverflow")
    BY <1>8, <2>1, WantedIsEnabled
  <2>3. check_bug([instr |-> i, kind |-> "BufferOverflow", details |-> "Some"])
    BY <1>8 DEF check_bug
  <2> QED
    BY <2>1, <2>2, <2>3, ConfirmedReported
<1>9. ASSUME f.op = "ArrayAccess", f.val >= Length
      PROVE  check_bug_buffer_overflow(i)
  <2>1. UpperAtLeast(a, Length)
    BY <1>6, <1>9, CoveredReaches
  <2> QED
    BY <1>6, <1>9, <2>1 DEF check_bug_buffer_overflow, InSomeRange
<1>10. ASSUME f.op = "MemoryAccess", f.val >= f.bytes \div ElemSize, AnalysisWanted("MemSize"),
              Known(f, "MemSize")
       PROVE  check_bug_buffer_overflow(i)
  <2> DEFINE sz == f.size[f.run]
  <2>1. /\ f.run \in Envs(i, "MemSize") /\ sz \in Ranges /\ sz # None /\ Sized(sz)
        /\ Covers(sz, f.bytes) /\ f.bytes \in Nat /\ sz # Bottom
    BY <1>4, <1>5, <1>10, SizeInRun, RangeFields DEF Analysed
  <2>2. lequal_bound(udiv_bound(sz.lb, Int64(ElemSize)), a.ub)
    BY <1>6, <1>10, <2>1, CoveredOverruns
  <2>3. Overruns(i, a)
    BY <2>1, <2>2 DEF Overruns
  <2> QED
    BY <1>6, <1>10, <2>3 DEF check_bug_buffer_overflow, InSomeRange
<1> QED
  BY <1>7, <1>8, <1>9, <1>10 DEF Accesses

LEMMA FoundStep ==
  ASSUME CodeInv, EnvInv, RecordInv, OptionsInv, FoundInv, [Next]_vars, MaxVal \in Nat,
         Length \in Nat, MaxInt >= ElemSize
  PROVE  FoundInv'
<1>1. CASE find_bugs
  BY <1>1, FoundByBugs DEF FoundInv
<1>2. CASE init_environment
  <2>1. CASE pc' = "Summary"
    <3>1. given' = given /\ (opt.skip_analysis \/ opt.work_mode # "DFA")
      BY <1>2, <2>1 DEF init_environment
    <3>2. AnalysisWanted("Range") => At({"--dis-analysis"}) = {} /\ opt.work_mode = "DFA"
      BY WantedIsEnabled DEF Analyses, AnalysisWanted
    <3>3. ~AnalysisWanted("Range")
      BY <3>1, <3>2 DEF OptionsInv, ModeSet
    <3>4. ~AnalysisWanted("Range")'
      BY <3>1, <3>3 DEF AnalysisWanted, StandsAgainst, At
    <3> QED
      BY <3>4 DEF FoundInv, OverflowsFound, Analysed
  <2>2. CASE pc' # "Summary"
    BY <1>2, <2>2 DEF init_environment, FoundInv
  <2> QED
    BY <2>1, <2>2
<1>3. CASE print_analysis_summary \/ Finished \/ UNCHANGED vars
  <2>1. code' = code /\ given' = given /\ bugs' = bugs
        /\ (pc' \in {"Summary", "Done"} => pc \in {"Summary", "Done"})
    BY <1>3 DEF print_analysis_summary, Finished, vars
  <2> QED
    BY <2>1 DEF FoundInv, OverflowsFound, Analysed, Reported, AnalysisWanted, BugWanted,
       StandsAgainst, At
<1>4. CASE parse_arguments \/ record_potential_bugs \/ perform_analysis \/ check_range_assertions
           \/ check_pointer_assertions \/ report_assertions
  <2>1. \A p \in Analyses : NextPass(p) \notin {"Summary", "Done"}
    BY DEF Analyses, NextPass
  <2>2. pc' \notin {"Summary", "Done"}
    BY <1>4, <2>1 DEF parse_arguments, record_potential_bugs, perform_analysis,
       check_range_assertions, check_pointer_assertions, report_assertions
  <2> QED
    BY <2>2 DEF FoundInv
<1> QED
  BY <1>1, <1>2, <1>3, <1>4 DEF Next

------------------------------------------------------------------------------
(* Regions *)

LEMMA BasedIsRegion ==
  ASSUME CodeInv, NEW i \in Instr, code[i].run # None, NEW type, type # "Unknown", IsBased(i, type)
  PROVE  code[i].region = type
<1>1. Right(code[i])
  BY DEF CodeInv
<1>2. Facts(code[i], "MemType") = code[i].memtype
  BY DEF Facts
<1>3. Envs(i, "MemType") = DOMAIN code[i].memtype /\ Known(code[i], "MemType")
  BY <1>2 DEF IsBased, Envs, Known
<1>4. code[i].run \in DOMAIN code[i].memtype
      /\ code[i].memtype[code[i].run] \in {code[i].region, "Unknown"}
  BY <1>1, <1>2, <1>3 DEF Right, RightAbout
<1> QED
  BY <1>3, <1>4 DEF IsBased

LEMMA RegionStep ==
  ASSUME CodeInv, PotentialInv, RegionTrue, [Next]_vars, None \notin {"Stack", "Heap"}
  PROVE  RegionTrue'
<1>1. CASE find_bugs
  <2>1. SUFFICES ASSUME NEW b \in bugs', b.region \in {"Stack", "Heap"}, code[b.instr].run # None
                 PROVE  b.region = code[b.instr].region
    BY <1>1 DEF RegionTrue, find_bugs
  <2>2. PICK c \in pbugs : b = RealBug(c)
    BY <1>1 DEF find_bugs
  <2>3. c.instr \in Instr /\ b.instr = c.instr
    BY <2>2 DEF PotentialInv, RealBug
  <2>4. b.region = update_buffer_overflow_memory_type(c.instr)
    BY <2>1, <2>2 DEF RealBug
  <2>5. IsBased(c.instr, b.region)
    BY <2>1, <2>4 DEF update_buffer_overflow_memory_type
  <2> QED
    BY <2>1, <2>3, <2>5, BasedIsRegion
<1>2. CASE ~find_bugs
  <2>1. code' = code /\ bugs' = bugs
    BY <1>2 DEF Next, vars, parse_arguments, init_environment, record_potential_bugs,
       perform_analysis, check_range_assertions, check_pointer_assertions, report_assertions,
       print_analysis_summary, Finished
  <2> QED
    BY <2>1 DEF RegionTrue
<1> QED
  BY <1>1, <1>2

------------------------------------------------------------------------------
(* Verdicts *)

\* No assertion is checked before all options are read.
EarlyInv == pc = "Options" => verdicts = {}

LEMMA EarlyStep ==
  ASSUME EarlyInv, [Next]_vars
  PROVE  EarlyInv'
<1>1. \A p \in Analyses : NextPass(p) # "Options"
  BY DEF Analyses, NextPass
<1>2. pc' = "Options" => pc = "Options" /\ verdicts' = verdicts
  BY <1>1 DEF Next, vars, parse_arguments, init_environment, record_potential_bugs,
     perform_analysis, check_range_assertions, check_pointer_assertions, report_assertions,
     find_bugs, print_analysis_summary, Finished
<1> QED
  BY <1>2 DEF EarlyInv

\* An assertion that is valid in the environment of the run holds there.
LEMMA RangeVerdictTrue ==
  ASSUME CodeInv, NEW i \in find_range_assertions, Envs(i, "Range") # {},
         check_one_range_assertion(i), code[i].run # None, Cardinality(DOMAIN code[i].range) = 1
  PROVE  RangePrintsOK(code[i].op, code[i].val) /\ code[i].op \in RangeAsserts
<1> DEFINE f == code[i]
<1>1. i \in Instr /\ f.op \in RangeAsserts
  BY DEF find_range_assertions
<1>2. "Range" \in env /\ Envs(i, "Range") = DOMAIN f.range /\ Known(f, "Range")
  BY DEF Envs, Facts, Known
<1>3. /\ f.run \in DOMAIN f.range /\ f.range[f.run] \in Ranges \ {None}
      /\ Covers(f.range[f.run], f.val) /\ f.val \in Int
  BY <1>1, <1>2, FactsInRun
<1>4. IsFiniteSet(DOMAIN f.range)
  BY <1>1 DEF CodeInv, IsFacts
<1>5. PICK e : DOMAIN f.range = {e}
  BY <1>4, FS_Singleton
<1>6. HoldsInRange(f.op, f.range[f.run])
  BY <1>2, <1>3, <1>5 DEF check_one_range_assertion
<1>7. \A n \in Int : /\ check_lower_bound(f.range[f.run], n) => f.val >= n
                     /\ check_upper_bound(f.range[f.run], n) => f.val <= n
  BY <1>3, CoveredBounds
<1>8. Length \in Int
  BY CheckersAssumption
<1>9. CASE f.op = "RangeLB"
  BY <1>1, <1>6, <1>7, <1>8, <1>9 DEF HoldsInRange, RangePrintsOK
<1>10. CASE f.op = "RangeUB"
  BY <1>1, <1>6, <1>7, <1>8, <1>10 DEF HoldsInRange, RangePrintsOK
<1>11. CASE f.op = "RangeLUB"
  BY <1>1, <1>6, <1>7, <1>8, <1>11 DEF HoldsInRange, RangePrintsOK
<1> QED
  BY <1>1, <1>9, <1>10, <1>11 DEF RangeAsserts

LEMMA PointerVerdictTrue ==
  ASSUME CodeInv, NEW i \in find_alias_assertions, Envs(i, "Pointer") # {},
         check_one_pointer_assertion(i), code[i].run # None
  PROVE  TrueInRun(code[i])
<1> DEFINE f == code[i]
<1>1. i \in Instr /\ f.op \in AliasAsserts
  BY DEF find_alias_assertions
<1>2. Envs(i, "Pointer") = DOMAIN f.alias /\ Known(f, "Pointer") /\ Facts(f, "Pointer") = f.alias
  BY DEF Envs, Facts, Known
<1>3. /\ f.run \in DOMAIN f.alias /\ f.same \in BOOLEAN
      /\ "Must" \in f.alias[f.run] => f.same
      /\ f.same => f.alias[f.run] # {}
  BY <1>1, <1>2 DEF CodeInv, IsFacts, Right, RightAbout
<1>4. CASE f.op = "AssertNoAlias"
  <2>1. no_alias(i, f.run)
    BY <1>2, <1>3, <1>4 DEF check_one_pointer_assertion
  <2> QED
    BY <1>3, <1>4, <2>1 DEF no_alias, TrueInRun, AliasPrintsOK, RangeAsserts
<1>5. CASE f.op = "AssertMustAlias"
  <2>1. must_alias(i, f.run)
    BY <1>2, <1>3, <1>5 DEF check_one_pointer_assertion
  <2> QED
    BY <1>3, <1>5, <2>1 DEF must_alias, TrueInRun, AliasPrintsOK, RangeAsserts
<1>6. CASE f.op = "RefuteMayAlias"
  <2>1. opt.conservative => no_alias(i, f.run)
    BY <1>2, <1>3, <1>6 DEF check_one_pointer_assertion
  <2> QED
    BY <1>3, <1>6, <2>1 DEF no_alias, TrueInRun, AliasPrintsOK, RangeAsserts
<1>7. CASE f.op \in {"AssertMayAlias", "RefuteNoAlias", "RefuteMustAlias"}
  BY <1>7 DEF TrueInRun, RangeAsserts
<1> QED
  BY <1>1, <1>4, <1>5, <1>6, <1>7 DEF AliasAsserts

LEMMA VerdictStep ==
  ASSUME CodeInv, EarlyInv, ValidVerdictsTrue, [Next]_vars
  PROVE  ValidVerdictsTrue'
<1>1. CASE check_range_assertions
  <2>1. opt' = opt /\ code' = code
    BY <1>1 DEF check_range_assertions
  <2>2. SUFFICES ASSUME NEW v \in verdicts' \ verdicts, v[2], code[v[1]].run # None,
                        code[v[1]].op \in AliasAsserts \/ Cardinality(DOMAIN code[v[1]].range) = 1
                 PROVE  TrueInRun(code[v[1]])
    BY <2>1 DEF ValidVerdictsTrue, TrueInRun
  <2>3. PICK i \in Decided(find_range_assertions, "Range") : v = <<i, check_one_range_assertion(i)>>
    BY <1>1 DEF check_range_assertions, Verdicts
  <2>4. v[1] = i /\ check_one_range_assertion(i) /\ i \in find_range_assertions
        /\ Envs(i, "Range") # {}
    BY <2>2, <2>3 DEF Decided
  <2>5. code[i].op \in RangeAsserts /\ code[i].op \notin AliasAsserts
    BY <2>4 DEF find_range_assertions, RangeAsserts, AliasAsserts
  <2>6. RangePrintsOK(code[i].op, code[i].val)
    BY <2>2, <2>4, <2>5, RangeVerdictTrue
  <2> QED
    BY <2>4, <2>5, <2>6 DEF TrueInRun, RangeAsserts
<1>2. CASE check_pointer_assertions
  <2>1. opt' = opt /\ code' = code
    BY <1>2 DEF check_pointer_assertions
  <2>2. SUFFICES ASSUME NEW v \in verdicts' \ verdicts, v[2], code[v[1]].run # None
                 PROVE  TrueInRun(code[v[1]])
    BY <2>1 DEF ValidVerdictsTrue, TrueInRun
  <2>3. PICK i \in Decided(find_alias_assertions, "Pointer") : v = <<i, check_one_pointer_assertion(i)>>
    BY <1>2 DEF check_pointer_assertions, Verdicts
  <2>4. v[1] = i /\ check_one_pointer_assertion(i) /\ i \in find_alias_assertions
        /\ Envs(i, "Pointer") # {}
    BY <2>2, <2>3 DEF Decided
  <2> QED
    BY <2>2, <2>4, PointerVerdictTrue
<1>3. CASE parse_arguments \/ init_environment
  <2>1. verdicts' = {}
    BY <1>3 DEF parse_arguments, init_environment, EarlyInv
  <2> QED
    BY <2>1 DEF ValidVerdictsTrue
<1>4. CASE record_potential_bugs \/ perform_analysis \/ report_assertions \/ find_bugs
           \/ print_analysis_summary \/ Finished \/ UNCHANGED vars
  <2>1. opt' = opt /\ code' = code /\ verdicts' = verdicts
    BY <1>4 DEF record_potential_bugs, perform_analysis, report_assertions, find_bugs,
       print_analysis_summary, Finished, vars
  <2> QED
    BY <2>1 DEF ValidVerdictsTrue, TrueInRun
<1> QED
  BY <1>1, <1>2, <1>3, <1>4 DEF Next

------------------------------------------------------------------------------
(* Theorems *)

Inv ==
  /\ CodeInv /\ OptionsInv /\ EnvInv /\ PotentialInv /\ RecordInv /\ EarlyInv
  /\ FoundInv /\ RegionTrue /\ ValidVerdictsTrue

LEMMA InitInv ==
  ASSUME Init
  PROVE  Inv
<1>1. CodeInv
  BY CheckersAssumption DEF Init, CodeInv
<1>2. OptionsInv
  <2>1. given \in Seq(AllOptions) /\ IsSettings(opt) /\ ~opt.skip_analysis
    BY DEF Init, Defaults, IsSettings
  <2>2. \A os, others : At(os) = {} /\ ~StandsAgainst(os, others)
    BY DEF Init, At, StandsAgainst
  <2> QED
    BY <2>1, <2>2 DEF OptionsInv, ModeSet, AnalysesSet, BugsSet
<1>3. EnvInv /\ PotentialInv /\ RecordInv /\ EarlyInv /\ FoundInv
  BY DEF Init, EnvInv, PotentialInv, RecordInv, EarlyInv, FoundInv, Checking, Analyses
<1>4. RegionTrue /\ ValidVerdictsTrue
  BY DEF Init, RegionTrue, ValidVerdictsTrue
<1> QED
  BY <1>1, <1>2, <1>3, <1>4 DEF Inv

LEMMA NextInv ==
  ASSUME Inv, [Next]_vars
  PROVE  Inv'
<1>1. /\ CodeInv /\ OptionsInv /\ EnvInv /\ PotentialInv /\ RecordInv /\ EarlyInv
      /\ FoundInv /\ RegionTrue /\ ValidVerdictsTrue
  BY DEF Inv
<1>2. /\ MaxVal \in Nat /\ Length \in Nat /\ MaxInt >= ElemSize /\ Option \subseteq AllOptions
      /\ None \notin {"Stack", "Heap"}
  BY CheckersAssumption
<1>3. CodeInv' /\ EnvInv' /\ PotentialInv' /\ RecordInv' /\ EarlyInv'
  BY <1>1, CodeStep, EnvStep, PotentialStep, RecordStep, EarlyStep
<1>4. OptionsInv'
  BY <1>1, <1>2, OptionsStep
<1>5. FoundInv'
  BY <1>1, <1>2, FoundStep
<1>6. RegionTrue' /\ ValidVerdictsTrue'
  BY <1>1, <1>2, RegionStep, VerdictStep
<1> QED
  BY <1>3, <1>4, <1>5, <1>6 DEF Inv

LEMMA Invariance == Spec => []Inv
BY InitInv, NextInv, PTL DEF Spec

\* Whatever options are given, and in whatever order (argument.ml), a result that is too
\* large and an access behind the end of a buffer are reported by dfbug.ml, when the bugs
\* and the analyses that find them were asked for: for every program, every width and every
\* number of options.
THEOREM OverflowsReportedCorrect == Spec => []OverflowsReported
<1>1. Inv => OverflowsReported
  BY DEF Inv, FoundInv, OverflowsReported
<1> QED
  BY <1>1, Invariance, PTL

\* A report of update_buffer_overflow_memory_type that names the stack or the heap names the
\* region that the buffer has in the run.
THEOREM RegionTrueCorrect == Spec => []RegionTrue
<1>1. Inv => RegionTrue
  BY DEF Inv
<1> QED
  BY <1>1, Invariance, PTL

\* An assertion that dfassertion.ml reports as valid is true when the program runs with
\* discover.h, unless it is a range assertion in a function with several environments.
THEOREM ValidVerdictsTrueCorrect == Spec => []ValidVerdictsTrue
<1>1. Inv => ValidVerdictsTrue
  BY DEF Inv
<1> QED
  BY <1>1, Invariance, PTL
===============================================================================
