---------------------------- MODULE InterAnalysis ----------------------------
(***************************************************************************)
(* The interprocedural mode of src/dataflow/dataflow.ml: analyze_functions *)
(* takes working functions from a list; analyze_function runs a session of *)
(* BlockAnalysis on the environment kept for the function and its input; a *)
(* call whose callee was not analysed with that input enqueues the callee, *)
(* marks the call as the place to go on from, and ends the block when      *)
(* there is no summary yet; a finished function publishes a summary and    *)
(* enqueues its callers.                                                   *)
(*                                                                         *)
(* The variables of BlockAnalysis hold the environment that the session in *)
(* progress works on.  Thrown exceptions, calls through function pointers  *)
(* and the splitting of contexts by phi nodes are left out; every function *)
(* is sparse.                                                              *)
(***************************************************************************)
EXTENDS BlockAnalysis, SequencesExt

CONSTANTS
  Func,             \* the functions of the program
  Main,             \* its entry function
  Programs,         \* the programs to analyse
  MainInput,        \* the input prepare_entry_func_input gives the entry function
  CalleeInput(_, _),    \* T.prepare_callee_input: call instruction, its input
  CallOutput(_, _, _),  \* T.compute_callee_output_exns: call, its input, summary
  CleanData(_, _),      \* T.clean_irrelevant_info_from_data: function, its output
  Tables(_),        \* candidate summary tables, per program, to compare results with
  MaxFuncTimes      \* a bound on the counter of a function's analyses

\* A program gives each function its graph and its blocks, which no other function has, and
\* each instruction the function it calls (None for an instruction that is no call).  No
\* edge leads out of a function.
IsProgram(p) ==
  /\ p.blocks \in [Func -> SUBSET Block]
  /\ \A f \in Func :
       /\ IsGraph(p.body[f]) /\ p.body[f].entry \in p.blocks[f]
       /\ \A b \in p.blocks[f] :
            p.body[f].succ[b] \subseteq p.blocks[f] /\ p.body[f].pred[b] \subseteq p.blocks[f]
  /\ \A f, g \in Func : f # g => p.blocks[f] \intersect p.blocks[g] = {}
  /\ p.call \in [Loc -> Func \union {None}]

ASSUME ProgramAssumption ==
  /\ Main \in Func
  /\ None \notin Func
  /\ MainInput \in Data
  /\ MaxFuncTimes \in Nat
  /\ \A p \in Programs : IsProgram(p)

\* What the client analysis does with data at calls and returns is monotone.
ASSUME CallAssumption ==
  /\ \A l \in Loc, d, e \in Data :
       /\ CalleeInput(l, d) \in Data
       /\ CallOutput(l, d, e) \in Data
       /\ Leq(d, e) => Leq(CalleeInput(l, d), CalleeInput(l, e))
  /\ \A l \in Loc, d1, d2, e1, e2 \in Data :
       Leq(d1, d2) /\ Leq(e1, e2) => Leq(CallOutput(l, d1, e1), CallOutput(l, d2, e2))
  /\ \A f \in Func, d, e \in Data :
       /\ CleanData(f, d) \in Data
       /\ Leq(d, e) => Leq(CleanData(f, d), CleanData(f, e))

VARIABLES
  prog,       \* penv_prog
  wfuncs,     \* penv_working_funcs
  fenvs,      \* penv_func_envs, by function and input
  summaries,  \* penv_func_summaries, by function and input
  analyzed,   \* penv_func_analyzed_inputs
  ftimes,     \* penv_func_analyzed_times
  top,        \* the top of penv_func_analysis_stack, or None
  waking,     \* the callsites whose caller is still to be enqueued
  session,    \* the working function being analysed and its fenv_callsites, or NoSession
  marks       \* fenv_working_blocks of the environment in use

blockVars == <<graph, finput, wblks, times, binput, output, foutput, cur>>
funcVars == <<prog, wfuncs, fenvs, summaries, analyzed, ftimes, top, waking, session>>
ivars == <<blockVars, funcVars, marks>>

\* No function is being analysed.
NoSession == [wf |-> [func |-> None], callsites |-> {}]

------------------------------------------------------------------------------
(* Working functions *)

\* equal_callsite: the inputs are not compared.
equal_callsite(c, d) == c.caller = d.caller /\ c.instr = d.instr /\ c.callee = d.callee

\* List.concat_dedup on callsites: the second list adds what the first does not have.
concat_callsites(cs, ds) == cs \union {d \in ds : \A c \in cs : ~equal_callsite(c, d)}

\* record_working_func.  A waiting entry for the same input takes over the callsites;
\* one for another input whose callsites include those of wf is replaced by wf.
record_working_func(Q, wf) ==
  LET same(v) == v.func = wf.func /\ v.input = wf.input
      superseded(v) ==
        /\ v.func = wf.func /\ v.input # wf.input
        /\ \A c \in wf.callsites : \E d \in v.callsites : c.instr = d.instr
      updated(v) ==
        IF same(v) THEN [v EXCEPT !.callsites = concat_callsites(wf.callsites, @)]
        ELSE IF superseded(v) THEN wf ELSE v
  IN  [i \in DOMAIN Q |-> updated(Q[i])]
        \o IF \E v \in Range(Q) : same(v) \/ superseded(v) THEN <<>> ELSE <<wf>>

\* Faulty variant: a function that was analysed with this input is enqueued again.
EnqueueAnalyzed(Q, done, wf) == record_working_func(Q, wf)

\* enqueue_to_analyze_func: an entry with callsites is dropped when its input was
\* analysed, or when a waiting entry has the same callsites with the same inputs.
enqueue_to_analyze_func(Q, done, wf) ==
  IF wf.callsites # {} /\
     (\/ <<wf.func, wf.input>> \in done
      \/ \E v \in Range(Q) :
           /\ v.func = wf.func
           /\ \A c \in wf.callsites : \E d \in v.callsites :
                c.instr = d.instr /\ c.callee_input = d.callee_input)
  THEN Q
  ELSE record_working_func(Q, wf)

Calls(f, g) == \E l \in Loc : l[1] \in prog.blocks[f] /\ prog.call[l] = g

\* The comparison of choose_working_func: the first criterion that tells the two
\* functions apart decides.  Negative: v comes first.
compare_func_main(v, w) ==
  IF v.func = Main /\ w.func # Main /\ ftimes[Main] > 0 THEN 1
  ELSE IF v.func # Main /\ w.func = Main /\ ftimes[Main] > 0 THEN -1
  ELSE 0

compare_func_call_order(v, w) ==
  IF ~Calls(v.func, w.func) /\ Calls(w.func, v.func) THEN -1
  ELSE IF Calls(v.func, w.func) /\ ~Calls(w.func, v.func) THEN 1
  ELSE 0

compare_func_call_stack(v, w) ==
  IF top = None THEN 0
  ELSE IF Calls(top, v.func) /\ ~Calls(top, w.func) THEN -1
  ELSE IF ~Calls(top, v.func) /\ Calls(top, w.func) THEN 1
  ELSE 0

compare_func_analyzed_times(v, w) == ftimes[v.func] - ftimes[w.func]

compare_funcs(v, w) ==
  IF compare_func_main(v, w) # 0 THEN compare_func_main(v, w)
  ELSE IF compare_func_call_order(v, w) # 0 THEN compare_func_call_order(v, w)
  ELSE IF compare_func_call_stack(v, w) # 0 THEN compare_func_call_stack(v, w)
  ELSE compare_func_analyzed_times(v, w)

\* choose_working_func takes the head of the sorted list: an entry that none comes
\* before.  The comparison is no order, so there may be none; then any may come first.
\* Entries for one function compare equal: the sort, taken to be stable, leaves
\* them in the order in which they came.
choose_working_func(i) ==
  LET heads == {j \in DOMAIN wfuncs :
                  \A k \in DOMAIN wfuncs : compare_funcs(wfuncs[k], wfuncs[j]) >= 0}
  IN  /\ heads = {} \/ i \in heads
      /\ \A j \in 1 .. i - 1 : wfuncs[j].func # wfuncs[i].func

------------------------------------------------------------------------------
(* Environments *)

mk_func_env(wf) ==
  [binput |-> [b \in Block |-> None], output |-> [l \in Loc |-> None],
   foutput |-> None, marks |-> {}, callsites |-> wf.callsites]

\* penv_block_local_analyzed_times is never reset, but only counters of blocks of one
\* function are ever compared: they are kept relative to the least of them.
RelativeTimes(f) ==
  LET least == Min({times[b] : b \in prog.blocks[f]})
  IN  [b \in Block |-> IF b \in prog.blocks[f] THEN Min({times[b] - least, MaxFuncTimes})
                      ELSE times[b]]

\* analyze_function, up to analyze_blocks: the session goes on from the marked calls, or
\* from the entry block when there are none.
StartFunc ==
  /\ session = NoSession
  /\ waking = {}
  /\ \E i \in DOMAIN wfuncs :
       LET wf == wfuncs[i]
           key == <<wf.func, wf.input>>
           fe == IF key \in DOMAIN fenvs THEN fenvs[key] ELSE mk_func_env(wf)
       IN  /\ choose_working_func(i)
           /\ wfuncs' = RemoveAt(wfuncs, i)
           /\ session' = [wf |-> wf, callsites |-> fe.callsites]
           /\ graph' = prog.body[wf.func]
           /\ finput' = wf.input
           /\ binput' = fe.binput
           /\ output' = fe.output
           /\ foutput' = fe.foutput
           /\ wblks' = IF fe.marks # {} THEN fe.marks
                       ELSE {[block |-> prog.body[wf.func].entry, instr |-> 1,
                              input |-> wf.input]}
           /\ marks' = {}
           /\ top' = wf.func
           /\ ftimes' = [ftimes EXCEPT ![wf.func] = Min({@ + 1, MaxFuncTimes})]
           /\ times' = RelativeTimes(wf.func)
  /\ UNCHANGED <<cur, prog, fenvs, summaries, analyzed, waking>>

AtCall == InBlock /\ prog.call[CurLoc] # None

\* A step of the session that is no call.
BlockStep ==
  /\ session # NoSession
  /\ \/ StartBlock
     \/ ~AtCall /\ analyze_instr
     \/ analyze_instr_unreachable
     \/ EnqueueSuccessors
  /\ UNCHANGED <<funcVars, marks>>

\* Faulty variant: a call that waits for its callee is not marked.
NoMark == marks

\* List.insert_dedup of the current call into fenv_working_blocks.
MarkCall == IF \E m \in marks : equal_working_block(m, cur) THEN marks
            ELSE marks \union {cur}

\* Faulty variant: a summary for another input is taken as well.
SummaryOfAnyInput(callee, input) ==
  {summaries[k] : k \in {j \in DOMAIN summaries : j[1] = callee}}

\* get_suitable_func_summary: the summary for exactly this input, if there is one.
get_suitable_func_summary(callee, input) ==
  {summaries[k] : k \in DOMAIN summaries \intersect {<<callee, input>>}}

\* analyze_instr_call_user_func.  Without a summary the rest of the block waits.
analyze_instr_call_user_func ==
  /\ session # NoSession
  /\ AtCall
  /\ LET callee == prog.call[CurLoc]
         input == CalleeInput(CurLoc, cur.input)
         callsite == [instr |-> CurLoc, caller |-> session.wf.func,
                      caller_input |-> finput, caller_callsites |-> session.callsites,
                      callee |-> callee, callee_input |-> input]
         wf == [func |-> callee, input |-> input, callsites |-> {callsite}]
     IN  /\ IF ftimes[callee] = 0 \/ <<callee, input>> \notin analyzed
            THEN /\ wfuncs' = enqueue_to_analyze_func(wfuncs, analyzed, wf)
                 /\ marks' = MarkCall
            ELSE UNCHANGED <<wfuncs, marks>>
         /\ \/ \E sum \in get_suitable_func_summary(callee, input) :
                 RecordOutput(CallOutput(CurLoc, cur.input, sum))
            \/ /\ get_suitable_func_summary(callee, input) = {}
               /\ cur' = None
               /\ UNCHANGED output
  /\ UNCHANGED <<graph, finput, wblks, times, binput, foutput>>
  /\ UNCHANGED <<prog, fenvs, summaries, analyzed, ftimes, top, waking, session>>

\* An instruction that record_new_func_env expects an output for.
MustHaveOutput(f, l) ==
  /\ l[1] \in prog.blocks[f]
  /\ ~(l[1] \in prog.body[f].unreachable /\ l = LastLoc(l[1]))

EnvCompleted(f, out) == \A l \in Loc : MustHaveOutput(f, l) => out[l] # None

HasCallToUserFuncs(f) == \E l \in Loc : l[1] \in prog.blocks[f] /\ prog.call[l] # None

(***************************************************************************)
(* The rest of analyze_function, up to the waking of the callers by        *)
(* analyze_functions.                                                      *)
(* record_new_func_env stores a copy of the environment.  From the second  *)
(* analysis on, the environment in the table is the very one that was      *)
(* worked on, so comparing the two finds no difference.  A completed       *)
(* environment without an output gets least_data as its output, after the  *)
(* copy was made.                                                          *)
(***************************************************************************)
FinishFunc ==
  /\ session # NoSession
  /\ Finished
  /\ LET wf == session.wf
         key == <<wf.func, wf.input>>
         first == key \notin DOMAIN fenvs
         completed == EnvCompleted(wf.func, output)
         out == IF completed /\ foutput = None THEN LeastData ELSE foutput
         fe == [binput |-> binput, output |-> output,
                foutput |-> foutput, marks |-> marks, callsites |-> session.callsites]
         done == IF completed THEN analyzed \union {key} ELSE analyzed
         need_reanalyze == first /\ HasCallToUserFuncs(wf.func)
         again == IF need_reanalyze THEN enqueue_to_analyze_func(wfuncs, done, wf)
                  ELSE wfuncs
     IN  /\ fenvs' = [k \in DOMAIN fenvs \union {key} |-> IF k = key THEN fe ELSE fenvs[k]]
         /\ analyzed' = done
         /\ summaries' = IF wf.func # Main /\ out # None
                         THEN [k \in DOMAIN summaries \union {key} |->
                                 IF k = key THEN CleanData(wf.func, out) ELSE summaries[k]]
                         ELSE summaries
         /\ wfuncs' = again
         /\ waking' = wf.callsites
  /\ session' = NoSession
  /\ marks' = {}
  /\ UNCHANGED <<blockVars, prog, ftimes, top>>

\* The working functions once the caller of callsite c is enqueued, with the input and the
\* callsites it had.
EnqueueCaller(c) ==
  enqueue_to_analyze_func(wfuncs, analyzed,
    [func |-> c.caller, input |-> c.caller_input, callsites |-> c.caller_callsites])

\* The loop of analyze_functions over the callsites of the working function, in the
\* order of that list, which is left open.
WakeCaller ==
  /\ \E c \in waking :
       /\ wfuncs' = EnqueueCaller(c)
       /\ waking' = waking \ {c}
  /\ UNCHANGED <<blockVars, prog, fenvs, summaries, analyzed, ftimes, top, session, marks>>

InterInit ==
  /\ prog \in Programs
  /\ wfuncs = <<[func |-> Main, input |-> MainInput, callsites |-> {}]>>
  /\ fenvs = <<>>
  /\ summaries = <<>>
  /\ analyzed = {}
  /\ ftimes = [f \in Func |-> 0]
  /\ top = None
  /\ waking = {}
  /\ session = NoSession
  /\ marks = {}
  /\ graph = prog.body[Main]
  /\ finput = MainInput
  /\ wblks = {}
  /\ times = [b \in Block |-> 0]
  /\ binput = [b \in Block |-> None]
  /\ output = [l \in Loc |-> None]
  /\ foutput = None
  /\ cur = None

\* analyze_functions returned: no function waits.
AllDone == session = NoSession /\ waking = {} /\ wfuncs = <<>>

InterDone == AllDone /\ UNCHANGED ivars

InterNext ==
  \/ StartFunc
  \/ BlockStep
  \/ analyze_instr_call_user_func
  \/ FinishFunc
  \/ WakeCaller
  \/ InterDone

InterSpec == InterInit /\ [][InterNext]_ivars

\* One sequential loop again: it takes the next step it can take.
InterFairSpec == InterSpec /\ WF_ivars(InterNext)

------------------------------------------------------------------------------

(***************************************************************************)
(* A solution of the interprocedural equations: for each function and      *)
(* input a solution of the function's equations, in which a call has the   *)
(* output that the table gives its callee for the callee's input, and a    *)
(* summary that covers what the function returns.  A larger input has no   *)
(* smaller summary.                                                        *)
(***************************************************************************)
CallAwareTransfer(p, t, l, d) ==
  IF p.call[l] = None THEN Transfer(l[1], l[2], d)
  ELSE CallOutput(l, d, t.summary[<<p.call[l], CalleeInput(l, d)>>])

\* What solution s says before instruction i of block b.
Before(s, b, i) == IF i = 1 THEN s.in[b] ELSE s.out[<<b, i - 1>>]

\* The equations of function f with input d.
SolvesFunc(p, t, f, d, s) ==
  LET gr == p.body[f]
  IN  /\ s.in \in [Block -> Data] /\ s.out \in [Loc -> Data] /\ s.ret \in Data
      /\ Leq(d, s.in[gr.entry])
      /\ \A l \in Loc : l[1] \in p.blocks[f] =>
           Leq(CallAwareTransfer(p, t, l, Before(s, l[1], l[2])), s.out[l])
      /\ \A b, c \in p.blocks[f] :
           /\ c \in gr.pred[b] => Leq(Refine(c, b, s.out[LastLoc(c)]), s.in[b])
           /\ b \in gr.succ[c] /\ c \notin gr.pred[b] => Leq(d, s.in[b])
      /\ \A b \in p.blocks[f] \intersect gr.ret : Leq(s.out[LastLoc(b)], s.ret)
      /\ Leq(LeastData, s.ret)

IsTable(p, t) ==
  /\ t.summary \in [Func \X Data -> Data]
  /\ \A f \in Func, d \in Data :
       /\ SolvesFunc(p, t, f, d, t.solution[<<f, d>>])
       /\ Leq(CleanData(f, t.solution[<<f, d>>].ret), t.summary[<<f, d>>])
       /\ \A e \in Data : Leq(d, e) => Leq(t.summary[<<f, d>>], t.summary[<<f, e>>])

\* A published summary never claims more than the least solution of the
\* interprocedural equations, although partial summaries are published and used while
\* their function is still being analysed.
SummariesJustified ==
  \A t \in Tables(prog) : IsTable(prog, t) =>
    \A k \in DOMAIN summaries : Leq(summaries[k], t.summary[k])

\* Each function is called with one input only, whatever the data at the call, and nothing
\* calls the entry function, which has no summary.
OneContext ==
  \A l, m \in Loc, d, e \in Data :
    prog.call[l] # None =>
      /\ prog.call[l] # Main
      /\ prog.call[m] = prog.call[l] => CalleeInput(l, d) = CalleeInput(m, e)

InputOf(k, l) ==
  IF l[2] = 1 THEN fenvs[k].binput[l[1]] ELSE fenvs[k].output[<<l[1], l[2] - 1>>]

\* A function that stopped in the middle of a call goes on in the end, also with
\* recursion: when the analysis is over, every environment has an output for each
\* instruction that was reached and an input for each block that follows one with an
\* output.  Only for one input per function: callsites and waiting functions are compared
\* without the caller's input, so that of two inputs one may displace the other.
EveryCallResumed ==
  OneContext /\ AllDone =>
    \A k \in DOMAIN fenvs :
      /\ fenvs[k].binput[prog.body[k[1]].entry] # None
      /\ \A l \in Loc : MustHaveOutput(k[1], l) /\ InputOf(k, l) # None =>
           fenvs[k].output[l] # None
      /\ \A b \in prog.blocks[k[1]] : fenvs[k].output[LastLoc(b)] # None =>
           \A c \in prog.body[k[1]].succ[b] : fenvs[k].binput[c] # None

CallUpToDate(k, l) ==
  LET key == <<prog.call[l], CalleeInput(l, InputOf(k, l))>>
  IN  /\ key \in DOMAIN summaries
      /\ fenvs[k].output[l] # None
      /\ Leq(CallOutput(l, InputOf(k, l), summaries[key]), fenvs[k].output[l])

\* The comment on analyze_functions, "analyze all functions, using the MFP approach": in
\* the end the output of every call that was reached covers what the final summary
\* of the callee gives for the call's input.
InterFixpoint ==
  AllDone =>
    \A k \in DOMAIN fenvs, l \in Loc :
      /\ l[1] \in prog.blocks[k[1]]
      /\ prog.call[l] # None
      /\ InputOf(k, l) # None
      => CallUpToDate(k, l)

\* analyze_functions comes to an end.
InterTerminates == <>AllDone
=============================================================================
