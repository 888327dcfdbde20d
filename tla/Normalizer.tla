----------------------------- MODULE Normalizer -----------------------------
(***************************************************************************)
(* The llvm-normalizer program (llvm-normalizer/src/Normalizer.cpp): it    *)
(* reads a module, queues the passes that its options ask for, runs the    *)
(* module passes and then the function passes, and writes the result.      *)
(* Composes ModulePasses and FunctionPasses; `opt' may run a single pass   *)
(* of the same library (tool = "opt").                                     *)
(***************************************************************************)
EXTENDS ModulePasses, FunctionPasses

CONSTANTS
  Inputs,     \* the modules, each with one function looked into
  Options     \* the command lines

\* What LLVM reads is a module and a function; Null and None are names of
\* nothing, and the initialisation function, an external one, does not exist
\* yet.  A function of one block has a body, and every body has a terminator.
ASSUME InputAssumption ==
  \A p \in Inputs :
    /\ IsModule(p.input.m) /\ IsFunction(p.origin.fn)
    /\ \A e \in DOMAIN p.origin.expr :
         InstrOf(p.origin.fn, p.origin.expr[e]) /\ p.origin.expr[e].op # "phi"
    /\ p.input.m.body[InitGlobals] = <<>>
    /\ ToSet(p.input.m.funcs \o p.input.m.globals) \cap {Null, None} = {}
    /\ p.input.linkage[InitGlobals] = "external"
    /\ \A h \in ToSet(p.input.m.funcs) :
         /\ h \in p.input.single => p.input.m.body[h] # <<>>
         /\ p.input.m.body[h] # <<>> => \E i \in ToSet(p.input.m.body[h]) : i.op # "call"
         /\ \A i \in ToSet(p.input.m.body[h]) : i.op = "call" => i.f # InitGlobals

VARIABLES
  opts,       \* the command line
  queue,      \* the passes still to run
  status,     \* "start", "run", "done", "abort" (verifier) or "crash"
  written     \* the result has been written

vars == <<mvars, fvars, opts, queue, status, written>>

ModulePassNames == <<"InitGlobal", "ElimUnusedFunction", "InlineSimpleFunction",
                     "ElimUnusedGlobal", "ElimInlineAsm">>
FunctionPassNames == <<"ElimAllocaStoreArg", "UninlineInstruction", "CombineGEP">>
AllPasses == ToSet(ModulePassNames) \cup ToSet(FunctionPassNames) \cup {"ElimIdenticalInstrs"}

\* The test at the head of every pass.
Disabled(p) == p \in opts.disable \/ (opts.manual /\ p \notin opts.enable)

\* NormalizerPassManager::add: passes but the printers are wrapped.
Added(p) ==
  IF opts.debugifyEach /\ p # "print" THEN <<"debugify", p, "check-debugify">> ELSE <<p>>

\* addModulePass, and addFunctionPass, whose manager wraps nothing.
addModulePass(p) ==
  Added(p) \o (IF opts.verifyEach THEN Added("verify") ELSE <<>>)
           \o (IF opts.printEach THEN Added("print") ELSE <<>>)

addFunctionPass(p) ==
  <<p>> \o (IF opts.verifyEach THEN <<"verify">> ELSE <<>>)
        \o (IF opts.printEach THEN <<"print">> ELSE <<>>)

\* The passes main() queues; ElimIdenticalInstrs is not one of them.
Queued ==
  CASE opts.tool = "opt" -> <<opts.only>>
    [] opts.only = "PrintIR" -> addModulePass("PrintIR")
    [] opts.only = "verify" -> Added("verify")
    [] OTHER ->
         FlattenSeq([k \in DOMAIN ModulePassNames |-> addModulePass(ModulePassNames[k])])
         \o FlattenSeq([k \in DOMAIN FunctionPassNames |-> addFunctionPass(FunctionPassNames[k])])

Init ==
  \E p \in Inputs :
    /\ input = p.input /\ mod = p.input.m /\ origin = p.origin /\ fn = p.origin.fn
    /\ mpass = "idle" /\ fpass = "idle" /\ todo = [kinds |-> AllKinds, groups |-> <<>>]
    /\ at = 0 /\ stack = <<>> /\ attempted = {}
    /\ opts \in Options /\ queue = <<>> /\ status = "start" /\ written = FALSE

\* parseIRFile's result is not looked at: a file that cannot be read is a
\* null module, dereferenced by the first use.
ReadInput ==
  /\ status = "start"
  /\ \/ opts.readable /\ status' = "run" /\ queue' = Queued
     \/ ~ opts.readable /\ status' = "crash" /\ UNCHANGED queue
  /\ UNCHANGED <<mvars, fvars, opts, written>>

Ready == status = "run" /\ mpass = "idle" /\ fpass = "idle" /\ queue # <<>>

\* The next pass of the queue starts, unless its options disable it.
StartPass ==
  /\ Ready /\ Head(queue) \in AllPasses
  /\ queue' = Tail(queue)
  /\ \/ /\ ~ Disabled(Head(queue)) /\ Head(queue) \in ToSet(ModulePassNames)
        /\ mpass' = Head(queue) /\ UNCHANGED fpass
     \/ /\ ~ Disabled(Head(queue)) /\ Head(queue) \notin ToSet(ModulePassNames)
        /\ fpass' = Head(queue) /\ UNCHANGED mpass
     \/ Disabled(Head(queue)) /\ UNCHANGED <<mpass, fpass>>
  /\ UNCHANGED <<input, mod, at, stack, attempted, origin, fn, todo, opts, status, written>>

\* The verifier ends the program when it finds the function broken; printing
\* (PrintIR included) and debug information leave the program alone.
CheckOrPrint ==
  /\ Ready /\ Head(queue) \notin AllPasses
  /\ queue' = Tail(queue)
  /\ status' = IF Head(queue) = "verify" /\ ~ WellFormed(fn) THEN "abort" ELSE status
  /\ UNCHANGED <<mvars, fvars, opts, written>>

RunModulePass == status = "run" /\ ModuleStep /\ UNCHANGED <<fvars, opts, queue, status, written>>
RunFunctionPass == status = "run" /\ FunctionStep /\ UNCHANGED <<mvars, opts, queue, status, written>>

\* A crash in a pass ends the program with nothing written.
Crash ==
  /\ status = "run" /\ "crash" \in {mpass, fpass} /\ status' = "crash"
  /\ UNCHANGED <<mvars, fvars, opts, queue, written>>

WriteOutput ==
  /\ status = "run" /\ mpass = "idle" /\ fpass = "idle" /\ queue = <<>>
  /\ status' = "done" /\ written' = opts.output
  /\ UNCHANGED <<mvars, fvars, opts, queue>>

Ended == status \in {"done", "abort", "crash"}
Stop == Ended /\ UNCHANGED vars

Next ==
  \/ ReadInput \/ StartPass \/ CheckOrPrint
  \/ RunModulePass \/ RunFunctionPass
  \/ Crash \/ WriteOutput \/ Stop

\* The program is one thread that nothing blocks: it keeps taking steps.
Spec == Init /\ [][Next]_vars /\ WF_vars(Next)
-----------------------------------------------------------------------------
(* Properties *)

(***************************************************************************)
(* The program always ends: the rounds of ElimUnusedFunction, the search   *)
(* for functions to inline (a function that stays is not tried again), the *)
(* walk through the initialisers and the uninlining of expressions end.    *)
(***************************************************************************)
Terminates == <>Ended
=============================================================================
