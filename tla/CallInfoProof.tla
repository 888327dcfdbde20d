---------------------------- MODULE CallInfoProof ----------------------------
(***************************************************************************)
(* Proofs about update_program_info and get_reachable_funcs, for every     *)
(* program: what is left in the table of callees, the least table of used  *)
(* globals, and the search for reachable functions.                        *)
(***************************************************************************)
EXTENDS CallInfo, TLAPS

Phases == {"pointers", "calls", "globals", "update_globals", "ready"}

Callable == [func : AnyFunc] \union [ptr : Sig]

TypeOK ==
  /\ IsProgram(prog)
  /\ phase \in Phases
  /\ pos \in 1 .. Len(prog.instrs)
  /\ callers \in [AnyFunc -> SUBSET Func]
  /\ callees \in [Func -> SUBSET Callable]
  /\ typed \in [Type -> SUBSET AnyFunc]
  /\ used \in [Func -> SUBSET Global]
  /\ todo \subseteq Func
  /\ updated \in BOOLEAN
  /\ graph \subseteq Func \X AnyFunc
  /\ asked \in Func \union {None}
  /\ asked # None => phase = "ready"
  /\ queue \subseteq AnyFunc
  /\ visited \subseteq AnyFunc
  /\ reach \in [Func -> (SUBSET AnyFunc) \union {None}]

\* How many instructions compute_func_call_info has processed.
Processed ==
  IF phase = "pointers" THEN 0 ELSE IF phase = "calls" THEN pos - 1 ELSE Len(prog.instrs)

\* The direct calls in f among the first n instructions that no call through a pointer
\* among them follows.
Kept(f, n) ==
  {i \in IndicesOf(f, "call") :
     i <= n /\ \A j \in IndicesOf(f, "callptr") : j <= n => j < i}

KeptCallees(f, n) == {prog.instrs[i].callee : i \in Kept(f, n)}

\* The table of callees holds what no call through a pointer has erased, and only that.
Recorded == \A f \in Func : get_func_callees(f) = KeptCallees(f, Processed)

------------------------------------------------------------------------------
\* What the instructions of a program are made of.
LEMMA InstrFields ==
  ASSUME TypeOK, NEW i \in 1 .. Len(prog.instrs)
  PROVE  /\ prog.instrs[i] \in Instr
         /\ prog.instrs[i].func \in Func
         /\ prog.instrs[i].globals \subseteq Global
         /\ prog.instrs[i].op \in {"call", "take"} => prog.instrs[i].callee \in AnyFunc
         /\ prog.instrs[i].op = "callptr" => prog.instrs[i].sig \in Sig
<1>1. prog.instrs \in Seq(Instr)
  BY DEF TypeOK, IsProgram
<1>2. prog.instrs[i] \in Instr
  BY <1>1
<1> QED
  BY <1>2 DEF Instr

\* The instructions counted by IndicesOf are numbered from one.
LEMMA Indices ==
  ASSUME TypeOK, NEW f, NEW op
  PROVE  IndicesOf(f, op) =
           {i \in 1 .. Len(prog.instrs) : prog.instrs[i].func = f /\ prog.instrs[i].op = op}
<1>1. DOMAIN prog.instrs = 1 .. Len(prog.instrs)
  BY DEF TypeOK, IsProgram
<1> QED
  BY <1>1 DEF IndicesOf

\* A table of functions only is read back as it was recorded.
LEMMA FuncsRead ==
  ASSUME NEW F \in SUBSET AnyFunc, NEW f
  PROVE  {g \in AnyFunc : [func |-> g] \in {[func |-> h] : h \in F}} = F
<1>1. ASSUME NEW g, NEW h, [func |-> g] = [func |-> h] PROVE g = h
  <2>1. [func |-> g].func = g /\ [func |-> h].func = h
    OBVIOUS
  <2> QED
    BY <1>1, <2>1
<1> QED
  BY <1>1

\* A table of pointers names no function.
LEMMA NoFuncsRead ==
  ASSUME NEW S
  PROVE  {g \in AnyFunc : [func |-> g] \in {[ptr |-> s] : s \in S}} = {}
<1>1. ASSUME NEW g, NEW s, [func |-> g] = [ptr |-> s] PROVE FALSE
  <2>1. DOMAIN [func |-> g] = {"func"} /\ DOMAIN [ptr |-> s] = {"ptr"}
    OBVIOUS
  <2>2. "func" # "ptr"
    OBVIOUS
  <2> QED
    BY <1>1, <2>1, <2>2
<1> QED
  BY <1>1

\* The callees and globals handed to the loop of update_globals_of_all_funcs.
LEMMA LoopInputs ==
  ASSUME TypeOK
  PROVE  Calls \in [Func -> SUBSET Func] /\ Direct \in [Func -> SUBSET Global]
<1>1. DOMAIN prog.instrs = 1 .. Len(prog.instrs)
  BY DEF TypeOK, IsProgram
<1>2. \A i \in DOMAIN prog.instrs : prog.instrs[i].globals \subseteq Global
  BY <1>1, InstrFields
<1> QED
  BY <1>2 DEF Calls, Direct

------------------------------------------------------------------------------
LEMMA InitType == Init => TypeOK
<1> SUFFICES ASSUME Init PROVE TypeOK
  OBVIOUS
<1>1. IsProgram(prog)
  BY CallInfoAssumption DEF Init
<1>2. Len(prog.instrs) \in Nat /\ Len(prog.instrs) # 0
  BY <1>1 DEF IsProgram
<1>3. pos \in 1 .. Len(prog.instrs)
  BY <1>2 DEF Init
<1>4. callers \in [AnyFunc -> SUBSET Func] /\ callees \in [Func -> SUBSET Callable]
      /\ typed \in [Type -> SUBSET AnyFunc] /\ used \in [Func -> SUBSET Global]
  BY DEF Init
<1>5. reach \in [Func -> (SUBSET AnyFunc) \union {None}]
  BY DEF Init
<1> QED
  BY <1>1, <1>3, <1>4, <1>5 DEF Init, TypeOK, Phases

\* One instruction further, or back to the first one.
LEMMA NextPosType ==
  ASSUME TypeOK PROVE NextPos \in 1 .. Len(prog.instrs)
<1>1. Len(prog.instrs) \in Nat
  BY DEF TypeOK, IsProgram
<1> QED
  BY <1>1 DEF TypeOK, NextPos

LEMMA StepType == TypeOK /\ [Next]_vars => TypeOK'
<1> SUFFICES ASSUME TypeOK, [Next]_vars PROVE TypeOK'
  OBVIOUS
<1>p. pos \in 1 .. Len(prog.instrs)
  BY DEF TypeOK
<1>1. CASE compute_funcs_in_pointers
  <2> DEFINE i == prog.instrs[pos]
  <2>1. i.op = "take" => func_type(i.callee) \in Type /\ i.callee \in AnyFunc
    <3>1. prog.sig \in [AnyFunc -> Sig]
      BY DEF TypeOK, IsProgram
    <3> QED
      BY <1>p, <3>1, InstrFields DEF func_type, Type
  <2>2. typed' \in [Type -> SUBSET AnyFunc]
    BY <1>1, <2>1 DEF compute_funcs_in_pointers, TypeOK
  <2> QED
    BY <1>1, <2>2, NextPosType
       DEF compute_funcs_in_pointers, Visit, TypeOK, Phases, loop, search
<1>2. CASE compute_func_call_info
  <2> DEFINE i == prog.instrs[pos]
  <2>1. i.func \in Func /\ (i.op = "call" => i.callee \in AnyFunc) /\ (i.op = "callptr" => i.sig \in Sig)
    BY <1>p, InstrFields
  <2>2. i.op = "call" => RecordCallee(i) \subseteq Callable
    <3>1. \A g \in AnyFunc : [func |-> g] \in Callable
      BY DEF Callable
    <3> QED
      BY <2>1, <3>1 DEF RecordCallee, get_func_callees
  <2>3. i.op = "callptr" => RecordPtrCallee(i) \subseteq Callable
    <3>1. \A s \in Sig : [ptr |-> s] \in Callable
      BY DEF Callable
    <3> QED
      BY <2>1, <3>1 DEF RecordPtrCallee, get_func_ptr_callees
  <2>4. callers' \in [AnyFunc -> SUBSET Func]
    BY <1>2, <2>1 DEF compute_func_call_info, TypeOK, AddCaller
  <2>5. callees' \in [Func -> SUBSET Callable]
    BY <1>2, <2>1, <2>2, <2>3 DEF compute_func_call_info, TypeOK
  <2> QED
    BY <1>2, <2>4, <2>5, NextPosType
       DEF compute_func_call_info, Visit, TypeOK, Phases, loop, search
<1>3. CASE init_globals_of_all_funcs
  BY <1>3, LoopInputs
     DEF init_globals_of_all_funcs, TypeOK, Phases, tables, search, Globals!Start
<1>4. CASE update_globals_of_all_funcs
  <2>1. CASE Globals!update_globals
    <3>1. PICK f \in todo :
            /\ used' = [used EXCEPT ![f] = @ \union Globals!CalleeGlobals(f)]
            /\ updated' = Globals!Changed(f)
            /\ todo' = todo \ {f}
      BY <2>1 DEF Globals!update_globals
    <3>2. Globals!CalleeGlobals(f) \subseteq Global
      BY <3>1, LoopInputs DEF TypeOK, Globals!CalleeGlobals
    <3>3. updated' \in BOOLEAN /\ used' \in [Func -> SUBSET Global] /\ todo' \subseteq Func
      BY <3>1, <3>2 DEF Globals!Changed, TypeOK
    <3> QED
      BY <1>4, <3>3 DEF update_globals_of_all_funcs, TypeOK, tables, search
  <2>2. CASE Globals!NextRound
    BY <1>4, <2>2 DEF update_globals_of_all_funcs, TypeOK, tables, search, Globals!NextRound
  <2> QED
    BY <1>4, <2>1, <2>2 DEF update_globals_of_all_funcs
<1>5. CASE construct_func_call_graph
  BY <1>5 DEF construct_func_call_graph, TypeOK, Phases, tables, loop, search
<1>6. CASE get_reachable_funcs
  BY <1>6 DEF get_reachable_funcs, TypeOK, tables, loop, get_func_callees
<1>7. CASE compute_reachables
  <2>1. \A f : NewFuncs(f) \subseteq AnyFunc
    BY DEF NewFuncs, CalleesOf, get_func_callees
  <2>2. CASE \E f \in queue :
               /\ queue' = (queue \ {f}) \union NewFuncs(f)
               /\ visited' = visited \union {f}
               /\ UNCHANGED <<asked, reach>>
    BY <1>7, <2>1, <2>2 DEF compute_reachables, TypeOK, tables, loop
  <2>3. CASE /\ queue = {}
             /\ reach' = [reach EXCEPT ![asked] = visited]
             /\ asked' = None
             /\ UNCHANGED <<queue, visited>>
    BY <1>7, <2>3 DEF compute_reachables, TypeOK, tables, loop
  <2> QED
    BY <1>7, <2>2, <2>3 DEF compute_reachables
<1>8. CASE UNCHANGED vars
  BY <1>8 DEF vars, TypeOK
<1> QED
  BY <1>1, <1>2, <1>3, <1>4, <1>5, <1>6, <1>7, <1>8 DEF Next, Done

\* The tables of update_program_info and the search for reachable functions stay
\* well-typed, and a search runs only when the tables are complete.
THEOREM TypeCorrect == Spec => []TypeOK
  BY InitType, StepType, PTL DEF Spec

------------------------------------------------------------------------------
LEMMA InitRecorded == Init /\ TypeOK => Recorded
<1> SUFFICES ASSUME Init, TypeOK PROVE Recorded
  OBVIOUS
<1>1. ASSUME NEW f \in Func PROVE Kept(f, Processed) = {}
  BY Indices DEF Init, Kept, Processed
<1> QED
  BY <1>1 DEF Init, Recorded, KeptCallees, get_func_callees

LEMMA StepRecorded == TypeOK /\ Recorded /\ [Next]_vars => Recorded'
<1> SUFFICES ASSUME TypeOK, Recorded, [Next]_vars PROVE Recorded'
  OBVIOUS
<1>n. Len(prog.instrs) \in Nat /\ pos \in 1 .. Len(prog.instrs)
  BY DEF TypeOK, IsProgram
<1>1. CASE compute_funcs_in_pointers
  <2>1. prog' = prog /\ callees' = callees /\ Processed' = Processed
    BY <1>1, <1>n DEF compute_funcs_in_pointers, Visit, NextPos, Processed
  <2> QED
    BY <2>1 DEF Recorded, get_func_callees, KeptCallees, Kept, IndicesOf
<1>2. CASE compute_func_call_info
  <2> DEFINE i == prog.instrs[pos]
  <2>1. prog' = prog /\ Processed = pos - 1 /\ Processed' = pos
    BY <1>2, <1>n DEF compute_func_call_info, Visit, NextPos, Processed
  <2>2. i.func \in Func /\ (i.op = "call" => i.callee \in AnyFunc)
    BY <1>n, InstrFields
  <2> SUFFICES ASSUME NEW f \in Func PROVE get_func_callees(f)' = KeptCallees(f, pos)
    BY <2>1 DEF Recorded, KeptCallees, Kept, IndicesOf
  <2>3. get_func_callees(f) = KeptCallees(f, pos - 1)
    BY <2>1 DEF Recorded
  <2>4. CASE i.op = "call" /\ i.func = f
    <3>1. callees'[f] = RecordCallee(i)
      BY <1>2, <2>4 DEF compute_func_call_info, TypeOK
    <3>2. get_func_callees(f)' = get_func_callees(f) \union {i.callee}
      <4> DEFINE F == get_func_callees(f) \union {i.callee}
      <4>1. F \in SUBSET AnyFunc
        BY <2>2, <2>4 DEF get_func_callees
      <4>2. callees'[f] = {[func |-> h] : h \in F}
        BY <2>4, <3>1 DEF RecordCallee
      <4> HIDE DEF F
      <4>3. get_func_callees(f)' = F
        BY <4>1, <4>2, FuncsRead DEF get_func_callees
      <4> QED
        BY <4>3 DEF F
    <3>3. Kept(f, pos) = Kept(f, pos - 1) \union {pos}
      BY <2>4, <1>n, Indices DEF Kept
    <3> QED
      BY <2>3, <3>2, <3>3 DEF KeptCallees
  <2>5. CASE i.op = "callptr" /\ i.func = f
    <3>1. callees'[f] = {[ptr |-> s] : s \in get_func_ptr_callees(f) \union {i.sig}}
      BY <1>2, <2>5 DEF compute_func_call_info, TypeOK, RecordPtrCallee
    <3>2. get_func_callees(f)' = {}
      BY <3>1, NoFuncsRead DEF get_func_callees
    <3>3. Kept(f, pos) = {}
      <4>1. pos \in IndicesOf(f, "callptr")
        BY <2>5, <1>n, Indices
      <4>2. \A j \in IndicesOf(f, "call") : j \in Nat
        BY <1>n, Indices
      <4>3. ASSUME NEW k \in Kept(f, pos) PROVE FALSE
        <5>1. k \in Nat /\ k <= pos /\ (pos <= pos => pos < k)
          BY <4>1, <4>2 DEF Kept
        <5> QED
          BY <1>n, <5>1
      <4> QED
        BY <4>3
    <3> QED
      BY <3>2, <3>3 DEF KeptCallees
  <2>6. CASE i.func # f \/ i.op \notin {"call", "callptr"}
    <3>1. callees'[f] = callees[f]
      BY <1>2, <2>2, <2>6 DEF compute_func_call_info, TypeOK
    <3>2. Kept(f, pos) = Kept(f, pos - 1)
      BY <2>6, <1>n, Indices DEF Kept
    <3> QED
      BY <2>3, <3>1, <3>2 DEF KeptCallees, get_func_callees
  <2> QED
    BY <2>4, <2>5, <2>6
<1>3. CASE \/ init_globals_of_all_funcs
           \/ update_globals_of_all_funcs
           \/ construct_func_call_graph
           \/ get_reachable_funcs
           \/ compute_reachables
           \/ UNCHANGED vars
  <2>1. prog' = prog /\ callees' = callees
    BY <1>3 DEF init_globals_of_all_funcs, update_globals_of_all_funcs,
                construct_func_call_graph, get_reachable_funcs, compute_reachables, tables, vars
  <2>2. Processed' = Processed
    BY <1>3, <2>1 DEF init_globals_of_all_funcs, update_globals_of_all_funcs,
                construct_func_call_graph, get_reachable_funcs, compute_reachables, vars,
                Processed
  <2> QED
    BY <2>1, <2>2 DEF Recorded, get_func_callees, KeptCallees, Kept, IndicesOf
<1> QED
  BY <1>1, <1>2, <1>3 DEF Next, Done

\* Of the direct callees of a function compute_func_call_info keeps exactly the ones that are
\* called after the last call through a pointer, at every moment of its visit.
THEOREM RecordedCorrect == Spec => []Recorded
<1>1. TypeOK /\ Recorded /\ [Next]_vars => (TypeOK /\ Recorded)'
  BY StepType, StepRecorded
<1>2. Init => TypeOK /\ Recorded
  BY InitType, InitRecorded
<1> QED
  BY <1>1, <1>2, PTL DEF Spec

------------------------------------------------------------------------------
\* The functions that a round without changes has visited are settled.
RoundSettled ==
  ~updated => \A f \in Func \ todo : \A c \in Calls[f] : used[c] \subseteq used[f]

OwnKept == \A f \in Func : Direct[f] \subseteq used[f]

BelowAll ==
  \A u \in [Func -> SUBSET Global] :
    Globals!Accounts(u) => \A f \in Func : used[f] \subseteq u[f]

\* The loop of update_globals_of_all_funcs has begun.
InLoop == phase \in {"update_globals", "ready"}

GlobalsInv ==
  /\ InLoop => RoundSettled /\ OwnKept /\ BelowAll
  /\ Ready => Globals!Finished

\* One visit of update_globals_of_all_funcs, on whatever table of calls it is given.
LEMMA VisitGlobals ==
  ASSUME TypeOK, RoundSettled, OwnKept, BelowAll, Calls' = Calls, Direct' = Direct,
         Globals!update_globals
  PROVE  RoundSettled' /\ OwnKept' /\ BelowAll'
<1>1. PICK f \in todo :
        /\ used' = [used EXCEPT ![f] = @ \union Globals!CalleeGlobals(f)]
        /\ updated' = Globals!Changed(f)
        /\ todo' = todo \ {f}
  BY DEF Globals!update_globals
<1> DEFINE new == Globals!CalleeGlobals(f)
<1>2. f \in Func /\ Calls \in [Func -> SUBSET Func] /\ new = UNION {used[c] : c \in Calls[f]}
  BY <1>1, LoopInputs DEF TypeOK, Globals!CalleeGlobals
<1>3. updated' = (updated \/ ~(new \subseteq used[f]))
  BY <1>1 DEF Globals!Changed
<1> HIDE DEF new
<1>4. \A h \in Func : used'[h] = IF h = f THEN used[f] \union new ELSE used[h]
  BY <1>1, <1>2 DEF TypeOK, new
<1>5. RoundSettled'
  <2> SUFFICES ASSUME ~updated'
               PROVE  \A h \in Func \ todo' : \A c \in Calls[h] : used'[c] \subseteq used'[h]
    BY DEF RoundSettled
  <2>1. ~updated /\ new \subseteq used[f]
    BY <1>3 DEF TypeOK
  <2>2. \A h \in Func : used'[h] = used[h]
    BY <1>4, <2>1
  <2>3. \A c \in Calls[f] : used[c] \subseteq used[f]
    BY <1>2, <2>1
  <2>4. \A h \in Func \ todo : \A c \in Calls[h] : used[c] \subseteq used[h]
    BY <2>1 DEF RoundSettled
  <2> QED
    BY <1>1, <1>2, <2>2, <2>3, <2>4
<1>6. OwnKept'
  BY <1>4 DEF OwnKept
<1>7. BelowAll'
  <2> SUFFICES ASSUME NEW u \in [Func -> SUBSET Global], Globals!Accounts(u), NEW h \in Func
               PROVE  used'[h] \subseteq u[h]
    BY DEF BelowAll, Globals!Accounts
  <2>1. \A k \in Func : used[k] \subseteq u[k]
    BY DEF BelowAll
  <2>2. new \subseteq u[f]
    BY <1>2, <2>1 DEF Globals!Accounts
  <2> QED
    BY <1>4, <2>1, <2>2
<1> QED
  BY <1>5, <1>6, <1>7

LEMMA StepGlobals == TypeOK /\ GlobalsInv /\ [Next]_vars => GlobalsInv'
<1> SUFFICES ASSUME TypeOK, GlobalsInv, [Next]_vars PROVE GlobalsInv'
  OBVIOUS
<1>1. CASE compute_funcs_in_pointers \/ compute_func_call_info
  BY <1>1 DEF compute_funcs_in_pointers, compute_func_call_info, Visit, GlobalsInv, InLoop, Ready
<1>2. CASE prog' = prog /\ UNCHANGED tables
  <2>1. Calls' = Calls /\ Direct' = Direct
    BY <1>2 DEF Calls, Direct, tables, get_func_callees, get_func_ptr_callees
  <2>2. CASE init_globals_of_all_funcs
    <3>1. RoundSettled' /\ OwnKept'
      BY <2>1, <2>2 DEF init_globals_of_all_funcs, RoundSettled, OwnKept, Globals!Start
    <3>2. BelowAll'
      BY <2>1, <2>2 DEF init_globals_of_all_funcs, BelowAll, Globals!Start, Globals!Accounts
    <3> QED
      BY <2>2, <3>1, <3>2 DEF init_globals_of_all_funcs, GlobalsInv, InLoop, Ready
  <2>3. CASE update_globals_of_all_funcs
    <3>1. phase = "update_globals" /\ phase' = "update_globals"
      BY <2>3 DEF update_globals_of_all_funcs
    <3>2. RoundSettled /\ OwnKept /\ BelowAll
      BY <3>1 DEF GlobalsInv, InLoop
    <3>3. CASE Globals!update_globals
      BY <2>1, <3>1, <3>2, <3>3, VisitGlobals DEF GlobalsInv, InLoop, Ready
    <3>4. CASE Globals!NextRound
      <4>1. RoundSettled'
        BY <3>4 DEF Globals!NextRound, RoundSettled
      <4>2. OwnKept' /\ BelowAll'
        BY <2>1, <3>2, <3>4 DEF Globals!NextRound, OwnKept, BelowAll, Globals!Accounts
      <4> QED
        BY <3>1, <4>1, <4>2 DEF GlobalsInv, InLoop, Ready
    <3> QED
      BY <2>3, <3>3, <3>4 DEF update_globals_of_all_funcs
  <2>4. CASE UNCHANGED loop /\ (UNCHANGED phase \/ construct_func_call_graph)
    <3>1. (RoundSettled' <=> RoundSettled) /\ (OwnKept' <=> OwnKept) /\ (BelowAll' <=> BelowAll)
          /\ (Globals!Finished' <=> Globals!Finished)
      BY <2>1, <2>4 DEF loop, RoundSettled, OwnKept, BelowAll, Globals!Accounts, Globals!Finished
    <3> QED
      BY <2>4, <3>1 DEF GlobalsInv, InLoop, Ready, construct_func_call_graph
  <2> QED
    BY <1>2, <2>2, <2>3, <2>4, <1>1
       DEF Next, Done, vars, loop, construct_func_call_graph, get_reachable_funcs, compute_reachables
<1> QED
  BY <1>1, <1>2
     DEF Next, Done, vars, tables, init_globals_of_all_funcs, update_globals_of_all_funcs,
         construct_func_call_graph, get_reachable_funcs, compute_reachables

LEMMA InitGlobals == Init => GlobalsInv
  BY DEF Init, GlobalsInv, InLoop, Ready

\* update_globals_of_all_funcs never records a global that no callee mentions, and when
\* its loop ends it has missed none, for every program and every order of visits.
THEOREM LeastTableCorrect == Spec => [](InLoop => Globals!LeastTable)
<1>1. Init => TypeOK /\ GlobalsInv
  BY InitType, InitGlobals
<1>2. TypeOK /\ GlobalsInv /\ [Next]_vars => (TypeOK /\ GlobalsInv)'
  BY StepType, StepGlobals
<1>3. ASSUME TypeOK, GlobalsInv, InLoop PROVE Globals!LeastTable
  BY <1>3 DEF GlobalsInv, RoundSettled, OwnKept, BelowAll, Globals!LeastTable, Globals!Finished,
              Globals!Accounts
<1> QED
  BY <1>1, <1>2, <1>3, PTL DEF Spec

------------------------------------------------------------------------------
\* What a function calls directly are functions.
LEMMA DirectCalleesType ==
  ASSUME TypeOK, NEW f PROVE DirectCallees(f) \subseteq AnyFunc
  BY Indices, InstrFields DEF DirectCallees

\* The reachable functions are closed under calls.
LEMMA ReachableClosed ==
  ASSUME TypeOK, NEW f
  PROVE  ClosedUnderCalls(f, Reachable(f))
<1>1. DirectCallees(f) \subseteq Reachable(f)
  BY DirectCalleesType DEF Reachable, ClosedUnderCalls
<1>2. ASSUME NEW g \in Reachable(f) \intersect Func PROVE DirectCallees(g) \subseteq Reachable(f)
  <2>1. DirectCallees(g) \subseteq AnyFunc
    BY DirectCalleesType
  <2>2. ASSUME NEW R \in SUBSET AnyFunc, ClosedUnderCalls(f, R) PROVE DirectCallees(g) \subseteq R
    <3>1. g \in R
      BY <2>2 DEF Reachable
    <3> QED
      BY <2>2, <3>1 DEF ClosedUnderCalls
  <2> QED
    BY <2>1, <2>2 DEF Reachable
<1> QED
  BY <1>1, <1>2 DEF ClosedUnderCalls

\* They are the least set that is.
LEMMA ReachableLeast ==
  ASSUME NEW f, NEW R \in SUBSET AnyFunc, ClosedUnderCalls(f, R)
  PROVE  Reachable(f) \subseteq R
  BY DEF Reachable

\* Where no callee is erased, the table holds the direct callees once all calls are seen.
LEMMA CalleesComplete ==
  ASSUME TypeOK, Recorded, phase \notin {"pointers", "calls"},
         NEW f \in Func, \A c \in DirectCallees(f) : CalledLast(f, c)
  PROVE  get_func_callees(f) = DirectCallees(f)
<1> DEFINE n == Len(prog.instrs)
<1>1. get_func_callees(f) = {prog.instrs[i].callee : i \in Kept(f, n)}
  BY DEF Recorded, Processed, KeptCallees
<1>2. \A i \in Kept(f, n) : i \in IndicesOf(f, "call")
  BY DEF Kept
<1>3. ASSUME NEW c \in DirectCallees(f) PROVE c \in get_func_callees(f)
  <2>1. PICK i \in IndicesOf(f, "call") :
          prog.instrs[i].callee = c /\ \A j \in IndicesOf(f, "callptr") : j < i
    BY DEF CalledLast
  <2>2. i \in Kept(f, n)
    BY <2>1, Indices DEF Kept
  <2> QED
    BY <1>1, <2>1, <2>2
<1> QED
  BY <1>1, <1>2, <1>3 DEF DirectCallees

\* The search has found nothing that f does not reach, and what the visited functions call
\* is visited or waits.
SearchExact(f) ==
  /\ queue \union visited \subseteq Reachable(f)
  /\ DirectCallees(f) \subseteq queue \union visited
  /\ \A g \in visited \intersect Func : DirectCallees(g) \subseteq queue \union visited

SearchInv == asked # None /\ NothingErased(asked) => SearchExact(asked)

ReachInv == SearchInv /\ ReachableExact

\* Nothing about the program's calls changes in a step that keeps the program.
LEMMA SameProgram ==
  ASSUME prog' = prog
  PROVE  /\ \A f : Reachable(f)' = Reachable(f)
         /\ \A f : DirectCallees(f)' = DirectCallees(f)
         /\ \A f : NothingErased(f)' <=> NothingErased(f)
<1>1. \A f : DirectCallees(f)' = DirectCallees(f)
  BY DEF DirectCallees, IndicesOf
<1>2. \A f, R : ClosedUnderCalls(f, R)' <=> ClosedUnderCalls(f, R)
  BY <1>1 DEF ClosedUnderCalls
<1>3. \A f : Reachable(f)' = Reachable(f)
  BY <1>2 DEF Reachable
<1>4. \A f, c : CalledLast(f, c)' <=> CalledLast(f, c)
  BY DEF CalledLast, IndicesOf
<1>5. \A f : NothingErased(f)' <=> NothingErased(f)
  BY <1>1, <1>3, <1>4 DEF NothingErased
<1> QED
  BY <1>1, <1>3, <1>5

LEMMA StepReach == TypeOK /\ Recorded /\ ReachInv /\ [Next]_vars => ReachInv'
<1> SUFFICES ASSUME TypeOK, Recorded, ReachInv, [Next]_vars PROVE ReachInv'
  OBVIOUS
<1>p. prog' = prog
  BY DEF Next, Done, vars, compute_funcs_in_pointers, compute_func_call_info, Visit,
         init_globals_of_all_funcs, update_globals_of_all_funcs, construct_func_call_graph,
         get_reachable_funcs, compute_reachables
<1>s. /\ \A f : Reachable(f)' = Reachable(f)
      /\ \A f : DirectCallees(f)' = DirectCallees(f)
      /\ \A f : NothingErased(f)' <=> NothingErased(f)
  BY <1>p, SameProgram
<1>1. CASE UNCHANGED search
  BY <1>1, <1>s DEF search, ReachInv, SearchInv, SearchExact, ReachableExact
<1>2. CASE get_reachable_funcs
  <2>1. PICK f \in Func :
          /\ asked' = f
          /\ queue' = get_func_callees(f)
          /\ visited' = {}
    BY <1>2 DEF get_reachable_funcs
  <2>2. phase = "ready" /\ reach' = reach
    BY <1>2 DEF get_reachable_funcs
  <2>3. ASSUME NothingErased(f) PROVE SearchExact(f)'
    <3>1. get_func_callees(f) = DirectCallees(f)
      BY <2>2, <2>3, CalleesComplete DEF NothingErased
    <3>2. DirectCallees(f) \subseteq Reachable(f)
      BY ReachableClosed DEF ClosedUnderCalls
    <3> QED
      BY <1>s, <2>1, <3>1, <3>2 DEF SearchExact
  <2> QED
    BY <1>s, <2>1, <2>2, <2>3 DEF ReachInv, SearchInv, ReachableExact
<1>3. CASE compute_reachables
  <2> DEFINE a == asked
  <2>1. a \in Func /\ phase = "ready"
    BY <1>3 DEF compute_reachables, TypeOK
  <2>2. ASSUME NEW f \in queue,
               queue' = (queue \ {f}) \union NewFuncs(f),
               visited' = visited \union {f},
               UNCHANGED <<asked, reach>>
        PROVE  ReachInv'
    <3> SUFFICES ASSUME NothingErased(a) PROVE SearchExact(a)'
      BY <1>s, <2>2 DEF ReachInv, SearchInv, ReachableExact
    <3>1. SearchExact(a)
      BY <1>3 DEF ReachInv, SearchInv, compute_reachables
    <3>2. f \in Func => get_func_callees(f) = DirectCallees(f)
      BY <2>1, <2>2, <3>1, CalleesComplete DEF NothingErased, SearchExact
    <3>3. f \in Func => DirectCallees(f) \subseteq Reachable(a)
      BY <2>2, <3>1, ReachableClosed DEF ClosedUnderCalls, SearchExact
    <3>4. queue' \union visited' = queue \union visited \union CalleesOf(f)
      BY <2>2 DEF NewFuncs
    <3>5. CalleesOf(f) = IF f \in Func THEN DirectCallees(f) ELSE {}
      BY <3>2 DEF CalleesOf
    <3> HIDE DEF a
    <3>6. queue' \union visited' \subseteq Reachable(a)
      BY <3>1, <3>3, <3>4, <3>5 DEF SearchExact
    <3>7. DirectCallees(a) \subseteq queue' \union visited'
      BY <3>1, <3>4 DEF SearchExact
    <3>8. \A g \in visited' \intersect Func : DirectCallees(g) \subseteq queue' \union visited'
      BY <2>2, <3>1, <3>4, <3>5 DEF SearchExact
    <3>9. a' = a
      BY <2>2 DEF a
    <3> QED
      BY <1>s, <3>6, <3>7, <3>8, <3>9 DEF SearchExact
  <2>3. ASSUME queue = {}, reach' = [reach EXCEPT ![asked] = visited], asked' = None
        PROVE  ReachInv'
    <3>1. ASSUME NothingErased(a) PROVE visited = Reachable(a)
      <4>1. SearchExact(a)
        BY <1>3, <3>1 DEF ReachInv, SearchInv, compute_reachables
      <4>2. visited \in SUBSET AnyFunc /\ ClosedUnderCalls(a, visited)
        BY <2>3, <4>1 DEF SearchExact, ClosedUnderCalls, TypeOK
      <4> QED
        BY <2>3, <4>1, <4>2, ReachableLeast DEF SearchExact
    <3>2. \A f \in Func : reach'[f] = IF f = a THEN visited ELSE reach[f]
      BY <2>3 DEF TypeOK
    <3>3. ReachableExact'
      BY <1>s, <3>1, <3>2 DEF ReachInv, ReachableExact
    <3> QED
      BY <2>3, <3>3 DEF ReachInv, SearchInv
  <2> QED
    BY <1>3, <2>2, <2>3 DEF compute_reachables
<1> QED
  BY <1>1, <1>2, <1>3
     DEF Next, Done, vars, search, compute_funcs_in_pointers, compute_func_call_info, Visit,
         init_globals_of_all_funcs, update_globals_of_all_funcs, construct_func_call_graph

LEMMA InitReach == Init => ReachInv
  BY DEF Init, ReachInv, SearchInv, ReachableExact

\* get_reachable_funcs answers with the functions that chains of direct calls lead to, for
\* every program in which no call through a pointer erases a callee on the way.
THEOREM ReachableExactCorrect == Spec => []ReachableExact
<1>1. Init => TypeOK /\ Recorded /\ ReachInv
  BY InitType, InitRecorded, InitReach
<1>2. TypeOK /\ Recorded /\ ReachInv /\ [Next]_vars => (TypeOK /\ Recorded /\ ReachInv)'
  BY StepType, StepRecorded, StepReach
<1>3. ReachInv => ReachableExact
  BY DEF ReachInv
<1> QED
  BY <1>1, <1>2, <1>3, PTL DEF Spec

\* A table that accounts for every call has, for a function, the globals of all it reaches.
LEMMA GlobalsReached ==
  ASSUME TypeOK, Recorded, Ready, Globals!Accounts(used),
         NEW f \in Func, NothingErased(f)
  PROVE  \A g \in ({f} \union Reachable(f)) \intersect Func : used[g] \subseteq used[f]
<1> DEFINE R == {g \in Reachable(f) : g \in Func => used[g] \subseteq used[f]}
<1>1. R \in SUBSET AnyFunc
  BY DEF Reachable
<1>2. ASSUME NEW g \in ({f} \union Reachable(f)) \intersect Func, used[g] \subseteq used[f]
      PROVE  DirectCallees(g) \subseteq R
  <2>1. get_func_callees(g) = DirectCallees(g)
    BY CalleesComplete DEF NothingErased, Ready
  <2>2. DirectCallees(g) \subseteq Reachable(f)
    BY ReachableClosed DEF ClosedUnderCalls
  <2>3. \A c \in DirectCallees(g) \intersect Func : c \in Calls[g]
    BY <2>1 DEF Calls
  <2>4. \A c \in Calls[g] : used[c] \subseteq used[g]
    BY DEF Globals!Accounts
  <2> QED
    BY <1>2, <2>2, <2>3, <2>4
<1>3. ClosedUnderCalls(f, R)
  BY <1>2 DEF ClosedUnderCalls
<1> QED
  BY <1>1, <1>3, ReachableLeast

\* When update_program_info has finished, the globals of a function include those of every
\* function it reaches, recursion included, unless a call through a pointer erases a callee.
THEOREM GlobalsOfCalleesCorrect == Spec => []GlobalsOfCallees
<1>1. Init => TypeOK /\ Recorded /\ GlobalsInv
  BY InitType, InitRecorded, InitGlobals
<1>2. TypeOK /\ Recorded /\ GlobalsInv /\ [Next]_vars => (TypeOK /\ Recorded /\ GlobalsInv)'
  BY StepType, StepRecorded, StepGlobals
<1>3. ASSUME TypeOK, Recorded, GlobalsInv PROVE GlobalsOfCallees
  <2> SUFFICES ASSUME Ready, NEW f \in Func, NothingErased(f),
                      NEW g \in ({f} \union Reachable(f)) \intersect Func
               PROVE  Direct[g] \subseteq used[f]
    BY DEF GlobalsOfCallees
  <2>1. Globals!Accounts(used)
    BY <1>3 DEF GlobalsInv, InLoop, Ready, RoundSettled, OwnKept, Globals!Finished,
                Globals!Accounts
  <2>2. used[g] \subseteq used[f]
    BY <1>3, <2>1, GlobalsReached
  <2> QED
    BY <2>1, <2>2 DEF Globals!Accounts
<1> QED
  BY <1>1, <1>2, <1>3, PTL DEF Spec
===============================================================================
