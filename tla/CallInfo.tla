------------------------------- MODULE CallInfo -------------------------------
(***************************************************************************)
(* update_program_info of src/llvm/llutils.ml: who calls whom, which       *)
(* functions may be behind a pointer, the call graph, the globals that a   *)
(* function and its callees use (UsedGlobals), and the functions reachable *)
(* from a function, which are computed when they are first asked for.      *)
(***************************************************************************)
EXTENDS Naturals, Sequences

CONSTANTS
  Func,        \* prog_init_funcs and prog_user_funcs
  Lib,         \* functions that are called but not analysed
  Global,
  Sig,         \* signatures of functions
  Programs,
  InFuncPtrs,  \* dfa_used_globals_in_func_ptrs
  None

AnyFunc == Func \union Lib

\* A call of a function or through a pointer, a store or bitcast of a function's address,
\* or another instruction, with the globals among its operands.
Instr ==
  [op : {"call"}, func : Func, callee : AnyFunc, globals : SUBSET Global]
    \union [op : {"callptr"}, func : Func, sig : Sig, globals : SUBSET Global]
    \union [op : {"take"}, func : Func, callee : AnyFunc, globals : SUBSET Global]
    \union [op : {"other"}, func : Func, globals : SUBSET Global]

\* The instructions in the order in which visit_program meets them.
IsProgram(p) ==
  /\ p.instrs \in Seq(Instr) /\ p.instrs # <<>>
  /\ p.sig \in [AnyFunc -> Sig]
  /\ p.init \subseteq Func   \* prog_init_funcs

ASSUME CallInfoAssumption ==
  /\ Func \intersect Lib = {}
  /\ InFuncPtrs \in BOOLEAN
  /\ None \notin Func
  /\ \A p \in Programs : IsProgram(p)

\* The type of a function and the type of a pointer to it.
Type == [function : Sig] \union [pointer : Sig]

VARIABLES
  prog,     \* prog_bitcode_module
  phase,    \* the part of update_program_info at work
  pos,      \* the instruction that visit_program has reached
  callers,  \* pfd_callers
  callees,  \* pfd_callees
  typed,    \* pfd_funcs_of_type
  used,     \* pfd_used_globals
  todo,     \* the functions that the round of update_globals has still to visit
  updated,  \* whether the round changed anything
  graph,    \* pfd_func_call_graph
  asked,    \* the function whose reachable functions are computed
  queue,    \* queue and visited of compute_reachables
  visited,
  reach     \* pfd_reachable_funcs

tables == <<callers, callees, typed>>
loop == <<used, todo, updated>>
search == <<asked, queue, visited, reach>>
vars == <<prog, phase, pos, callers, callees, typed, used, todo, updated, graph,
          asked, queue, visited, reach>>

------------------------------------------------------------------------------
get_func_callees(f) == {g \in AnyFunc : [func |-> g] \in callees[f]}

get_func_ptr_callees(f) == {s \in Sig : [ptr |-> s] \in callees[f]}

\* The type under which compute_funcs_in_pointers files a function: func_type takes the
\* element type of the function's address.
func_type(f) == [function |-> prog.sig[f]]

\* The callees whose globals are added to those of f.  A pointer is looked up by the type
\* of its value.
Calls ==
  [f \in Func |->
     (get_func_callees(f) \intersect Func)
       \union {g \in Func : InFuncPtrs /\ \E s \in get_func_ptr_callees(f) :
                              g \in typed[[pointer |-> s]]}]

\* The globals that init_globals_of_all_funcs starts from.
Direct ==
  [f \in Func |->
     IF f \in prog.init THEN Global
     ELSE UNION {prog.instrs[i].globals :
                   i \in {j \in DOMAIN prog.instrs : prog.instrs[j].func = f}}]

Globals == INSTANCE UsedGlobals WITH calls <- Calls, direct <- Direct

------------------------------------------------------------------------------

NextPos == IF pos = Len(prog.instrs) THEN 1 ELSE pos + 1

\* visit_program, one instruction; next is the part that follows.
Visit(part, next) ==
  /\ phase = part
  /\ pos' = NextPos
  /\ phase' = IF pos = Len(prog.instrs) THEN next ELSE part
  /\ UNCHANGED <<prog, graph, loop, search>>

compute_funcs_in_pointers ==
  /\ Visit("pointers", "calls")
  /\ LET i == prog.instrs[pos]
     IN  IF i.op = "take"
         THEN typed' = [typed EXCEPT ![func_type(i.callee)] = @ \union {i.callee}]
         ELSE UNCHANGED typed
  /\ UNCHANGED <<callers, callees>>

\* The new entry of the caller: the functions recorded so far and this one.  Pointers are
\* not among them.
RecordCallee(i) == {[func |-> g] : g \in get_func_callees(i.func) \union {i.callee}}

\* Likewise with pointers, without the functions.
RecordPtrCallee(i) == {[ptr |-> s] : s \in get_func_ptr_callees(i.func) \union {i.sig}}

AddCaller(i) == [callers EXCEPT ![i.callee] = @ \union {i.func}]

compute_func_call_info ==
  /\ Visit("calls", "globals")
  /\ LET i == prog.instrs[pos]
     IN  \/ /\ i.op = "call"
            /\ callers' = AddCaller(i)
            /\ callees' = [callees EXCEPT ![i.func] = RecordCallee(i)]
         \/ /\ i.op = "callptr"
            /\ callees' = [callees EXCEPT ![i.func] = RecordPtrCallee(i)]
            /\ UNCHANGED callers
         \/ i.op \notin {"call", "callptr"} /\ UNCHANGED <<callers, callees>>
  /\ UNCHANGED typed

init_globals_of_all_funcs ==
  /\ phase = "globals"
  /\ Globals!Start
  /\ phase' = "update_globals"
  /\ UNCHANGED <<prog, pos, graph, tables, search>>

update_globals_of_all_funcs ==
  /\ phase = "update_globals"
  /\ UNCHANGED <<prog, phase, pos, graph, tables, search>>
  /\ Globals!update_globals \/ Globals!NextRound

construct_func_call_graph ==
  /\ phase = "update_globals"
  /\ Globals!Finished
  /\ graph' = {e \in Func \X AnyFunc : e[2] \in get_func_callees(e[1])}
  /\ phase' = "ready"
  /\ UNCHANGED <<prog, pos, tables, loop, search>>

------------------------------------------------------------------------------
\* get_reachable_funcs, called when the answer is not known.
get_reachable_funcs ==
  /\ phase = "ready"
  /\ asked = None
  /\ \E f \in Func :
       /\ reach[f] = None
       /\ asked' = f
       /\ queue' = get_func_callees(f)
       /\ visited' = {}
  /\ UNCHANGED <<prog, phase, pos, graph, tables, loop, reach>>

CalleesOf(f) == IF f \in Func THEN get_func_callees(f) ELSE {}

\* Faulty variant: the function that is asked about counts as visited.
NewFuncsExceptAsked(f) == CalleesOf(f) \ ((queue \ {f}) \union visited \union {asked})

\* Faulty variant: a callee waits even when it was visited.
NewFuncsAgain(f) == CalleesOf(f) \ queue

\* The function at hand is not yet among the visited ones.
NewFuncs(f) == CalleesOf(f) \ ((queue \ {f}) \union visited)

compute_reachables ==
  /\ asked # None
  /\ \/ \E f \in queue :
          /\ queue' = (queue \ {f}) \union NewFuncs(f)
          /\ visited' = visited \union {f}
          /\ UNCHANGED <<asked, reach>>
     \/ /\ queue = {}
        /\ reach' = [reach EXCEPT ![asked] = visited]
        /\ asked' = None
        /\ UNCHANGED <<queue, visited>>
  /\ UNCHANGED <<prog, phase, pos, graph, tables, loop>>

Done == phase = "ready" /\ asked = None /\ (\A f \in Func : reach[f] # None) /\ UNCHANGED vars

Init ==
  /\ prog \in Programs
  /\ phase = "pointers"
  /\ pos = 1
  /\ callers = [g \in AnyFunc |-> {}]
  /\ callees = [f \in Func |-> {}]
  /\ typed = [t \in Type |-> {}]
  /\ used = [f \in Func |-> {}]
  /\ todo = {}
  /\ updated = FALSE
  /\ graph = {}
  /\ asked = None
  /\ queue = {}
  /\ visited = {}
  /\ reach = [f \in Func |-> None]

Next ==
  \/ compute_funcs_in_pointers
  \/ compute_func_call_info
  \/ init_globals_of_all_funcs
  \/ update_globals_of_all_funcs
  \/ construct_func_call_graph
  \/ get_reachable_funcs
  \/ compute_reachables
  \/ Done

Spec == Init /\ [][Next]_vars

\* Sequential code: the next step is taken, and reachable functions are asked for in the
\* end.
FairSpec == Spec /\ WF_vars(Next)

------------------------------------------------------------------------------

Ready == phase = "ready"

IndicesOf(f, op) ==
  {i \in DOMAIN prog.instrs : prog.instrs[i].func = f /\ prog.instrs[i].op = op}

\* Who really calls whom, by the instructions.
DirectCallees(f) == {prog.instrs[i].callee : i \in IndicesOf(f, "call")}

\* f calls c after its last call through a pointer, which erases what was recorded before.
CalledLast(f, c) ==
  \E i \in IndicesOf(f, "call") :
    prog.instrs[i].callee = c /\ \A j \in IndicesOf(f, "callptr") : j < i

\* R holds what f calls and what these call, as the instructions say.
ClosedUnderCalls(f, R) ==
  DirectCallees(f) \subseteq R /\ \A g \in R \intersect Func : DirectCallees(g) \subseteq R

\* The functions that f reaches.
Reachable(f) == {g \in AnyFunc : \A R \in SUBSET AnyFunc : ClosedUnderCalls(f, R) => g \in R}

\* No call through a pointer erases a callee of f or of a function that f reaches.
NothingErased(f) ==
  \A g \in ({f} \union Reachable(f)) \intersect Func :
    \A c \in DirectCallees(g) : CalledLast(g, c)

\* What is_irrelevant_var relies on when it drops globals from a summary: the globals of
\* a function include those of every function it reaches, through cycles too.
GlobalsOfCallees ==
  Ready => \A f \in Func : NothingErased(f) =>
    \A g \in ({f} \union Reachable(f)) \intersect Func : Direct[g] \subseteq used[f]

\* get_reachable_funcs returns the functions that chains of calls lead to, itself only if
\* it is on a cycle.
ReachableExact ==
  \A f \in Func : reach[f] # None /\ NothingErased(f) => reach[f] = Reachable(f)

\* update_program_info ends, and so does every search for reachable functions.
Terminates == <>(Ready /\ \A f \in Func : reach[f] # None)
===============================================================================
