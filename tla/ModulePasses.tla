---------------------------- MODULE ModulePasses ----------------------------
(***************************************************************************)
(* The module passes of llvm-normalizer (llvm-normalizer/src/Passes):      *)
(* InitGlobal moves the initial values of the global variables into a new  *)
(* function `__init_globals', ElimUnusedFunction and ElimUnusedGlobal      *)
(* erase what has no use, InlineSimpleFunction inlines forwarding          *)
(* functions and ElimInlineAsm cuts the module-level assembly.             *)
(*                                                                         *)
(* A module is a record: the lists of globals and functions, the           *)
(* initialiser of each global, the operands of the aggregate constants     *)
(* (LLVM shares equal constants, so a constant is a name and its operands  *)
(* are a heap that several initialisers may reach), the instructions of    *)
(* each function that matter here, and the lines of assembly.  An          *)
(* instruction is [op, f, g, path]: f is the value it uses (the callee of  *)
(* a call, the value of a store), g and path the place a store writes.     *)
(* Types, alignments and debug information are left out, so that a store   *)
(* with an unspecified alignment (a pointer without one) is a store.       *)
(***************************************************************************)
EXTENDS Naturals, Sequences, FiniteSets, SequencesExt, Subsequences

CONSTANTS
  MainLike,        \* functions whose name contains "main"
  AssertPrefixed,  \* functions whose name starts with "__assert" or "__refute"
  TestingNamed     \* functions whose name contains "__assert" or "__retute"

VARIABLES
  input,      \* the module read and what no pass changes of it
  mod,        \* the module now
  mpass,      \* the module pass at work, "idle", or "crash"
  at,         \* how many globals InitGlobal has visited
  stack,      \* activations of uninlineAggregateInitValue, innermost last
  attempted   \* functions InlineSimpleFunction has tried and kept

mvars == <<input, mod, mpass, at, stack, attempted>>

None == "none"                     \* no initialiser, no operand
Null == "null"                     \* a null pointer, a zero, zeroinitializer
InitGlobals == "__init_globals"
GlobalCtors == "llvm.global_ctors"

Instr(op, f, g, path) == [op |-> op, f |-> f, g |-> g, path |-> path]
Functions == ToSet(mod.funcs)
GlobalVars == ToSet(mod.globals)
IsAggregate(c) == c \in DOMAIN mod.heap

\* A module: lists of globals and functions, and functions for the rest.  The
\* body of the initialisation function is there before the function is.
IsModule(m) ==
  /\ m = [globals |-> m.globals, funcs |-> m.funcs, init |-> m.init,
          heap |-> m.heap, body |-> m.body, asm |-> m.asm]
  /\ IsSequence(m.globals) /\ IsSequence(m.funcs)
  /\ m.init = [g \in DOMAIN m.init |-> m.init[g]] /\ ToSet(m.globals) \subseteq DOMAIN m.init
  /\ m.heap = [c \in DOMAIN m.heap |-> m.heap[c]]
  /\ \A c \in DOMAIN m.heap : IsSequence(m.heap[c])
  /\ m.body = [h \in DOMAIN m.body |-> m.body[h]]
  /\ ToSet(m.funcs) \cup {InitGlobals} \subseteq DOMAIN m.body
  /\ \A h \in DOMAIN m.body : IsSequence(m.body[h])

(***************************************************************************)
(* A name has a use while an instruction of a function, an operand of an   *)
(* aggregate constant, a constant expression or an initialiser refers to   *)
(* it.  Constants outlive whatever used them, so theirs never go away.     *)
(***************************************************************************)
UsedBy(m, x) ==
  \/ \E h \in ToSet(m.funcs) : \E i \in ToSet(m.body[h]) : x \in {i.f, i.g}
  \/ \E c \in DOMAIN m.heap : x \in ToSet(m.heap[c])
  \/ \E e \in DOMAIN input.exprArg : input.exprArg[e] = x
  \/ \E g \in ToSet(m.globals) : m.init[g] = x
Used(x) == UsedBy(mod, x)
-----------------------------------------------------------------------------
(* InitGlobal *)

\* Faulty variant: pointers to functions and globals are not stored.
StoredLeafWithoutRefs(c) == input.kind[c] \in {"expr", "int"}

\* The leaves uninlineAggregateInitValue stores: constant expressions,
\* integers, functions and globals; an alias or a float is none of them.
StoredLeaf(c) == input.kind[c] \in {"expr", "int", "ref"}

\* The fields it nulls in the constant: those of pointer or integer type.
NulledField(c) == input.kind[c] \in {"expr", "int", "ref", "alias"}

\* The instruction that stores constant c at one place of global g.
StoreAt(g, path, c) == Instr("store", c, g, path)

Emit(m, i) == [m EXCEPT !.body[InitGlobals] = Append(@, i)]

\* uninlineAggregateInitValue on the whole initialiser of a global: null and
\* unaligned ones are left alone, and so are arrays of plain data.
EnterAggregate(g) ==
  IF g \in input.aligned /\ IsAggregate(mod.init[g])
  THEN stack' = <<[path |-> <<>>, c |-> mod.init[g], next |-> 1]>>
  ELSE stack' = <<>>

\* uninlinePointerInitValue: only a constant expression moves.
PointerInit(g) ==
  mod' = IF input.kind[mod.init[g]] = "expr"
         THEN [Emit(mod, StoreAt(g, <<>>, mod.init[g])) EXCEPT !.init[g] = Null]
         ELSE mod

\* The (priority, function) entries of llvm.global_ctors: its operands that
\* are structures of three fields.
CtorEntries(m) ==
  LET table == IF m.init[GlobalCtors] \in DOMAIN m.heap
               THEN m.heap[m.init[GlobalCtors]] ELSE <<>>
      IsEntry(c) == c \in DOMAIN m.heap /\ Len(m.heap[c]) = 3
      entries == Select(table, IsEntry)
  IN  [i \in 1 .. Len(entries) |->
         LET e == m.heap[entries[i]]
         IN  [prio |-> IF e[1] \in DOMAIN input.intVal
                       THEN input.intVal[e[1]] ELSE 0,
              func |-> IF e[2] \in DOMAIN input.linkage THEN e[2] ELSE Null]]

\* std::sort by priority alone: entries of one priority in any order.
Sorted(s) ==
  {[i \in DOMAIN s |-> s[p[i]]] : p \in
     {q \in [DOMAIN s -> DOMAIN s] :
        /\ \A i, j \in DOMAIN s : q[i] = q[j] => i = j
        /\ \A i, j \in DOMAIN s : i < j => s[q[i]].prio <= s[q[j]].prio}}

\* invokeGlobalInitFunctions: a call per entry in the order of priority; an
\* entry without a function is a call of the null pointer.
InvokeGlobalInitFunctions ==
  \E s \in Sorted(CtorEntries(mod)) :
    IF \E i \in DOMAIN s : s[i].func = Null
    THEN mpass' = "crash" /\ UNCHANGED mod
    ELSE /\ mod' = [mod EXCEPT !.body[InitGlobals] =
                      @ \o [i \in DOMAIN s |-> Instr("call", s[i].func, None, <<>>)]]
         /\ UNCHANGED mpass

\* InitGlobal::runOnModule, one global: the constructors, an aggregate or a
\* pointer; other scalars and globals without initialiser are passed over.
VisitGlobal ==
  /\ mpass = "InitGlobal" /\ stack = <<>> /\ at < Len(mod.globals)
  /\ at' = at + 1
  /\ LET g == mod.globals[at + 1]
         t == IF mod.init[g] = None THEN None ELSE input.type[g]
     IN  \/ /\ g = GlobalCtors /\ t # None
            /\ InvokeGlobalInitFunctions /\ UNCHANGED stack
         \/ /\ g # GlobalCtors /\ t = "aggregate"
            /\ EnterAggregate(g) /\ UNCHANGED <<mod, mpass>>
         \/ /\ t = "pointer"
            /\ PointerInit(g) /\ UNCHANGED <<stack, mpass>>
         \/ /\ t \notin {"aggregate", "pointer"}
            /\ UNCHANGED <<mod, stack, mpass>>
  /\ UNCHANGED <<input, attempted>>

\* What one field of an aggregate becomes: nulled in the shared constant,
\* stored by the initialisation function.
FieldMoved(fr, c) ==
  LET nulled == [mod EXCEPT !.heap[fr.c][fr.next] =
                    IF NulledField(c) THEN Null ELSE @]
  IN  IF StoredLeaf(c)
      THEN Emit(nulled, StoreAt(mod.globals[at], Append(fr.path, fr.next), c))
      ELSE nulled

\* The loops over the fields of a structure and the elements of an array (the
\* two are the same code): null fields are skipped, a nested aggregate is
\* entered with its index appended, and the end returns to the caller.
VisitField ==
  /\ mpass = "InitGlobal" /\ stack # <<>>
  /\ LET fr == Last(stack)
         rest == Front(stack)
     IN  IF fr.next > Len(mod.heap[fr.c])
         THEN stack' = rest /\ UNCHANGED mod
         ELSE LET c == mod.heap[fr.c][fr.next]
                  later == Append(rest, [fr EXCEPT !.next = @ + 1])
              IN  /\ mod' = IF c = Null THEN mod ELSE FieldMoved(fr, c)
                  /\ stack' = IF c # Null /\ IsAggregate(c)
                              THEN Append(later, [path |-> Append(fr.path, fr.next),
                                                  c |-> c, next |-> 1])
                              ELSE later
  /\ UNCHANGED <<input, mpass, at, attempted>>

\* After the last global a non-empty function is put first in the list.
FinishInit ==
  /\ mpass = "InitGlobal" /\ stack = <<>> /\ at = Len(mod.globals)
  /\ mod' = IF mod.body[InitGlobals] = <<>> THEN mod
            ELSE [mod EXCEPT !.body[InitGlobals] =
                                 Append(@, Instr("ret", None, None, <<>>)),
                             !.funcs = <<InitGlobals>> \o @]
  /\ mpass' = "idle"
  /\ UNCHANGED <<input, at, stack, attempted>>
-----------------------------------------------------------------------------
(* ElimUnusedFunction, InlineSimpleFunction, ElimUnusedGlobal, ElimInlineAsm *)

Erased(m, F) ==
  [m EXCEPT !.funcs = Select(@, LAMBDA f : f \notin F)]

\* What one round of ElimUnusedFunction erases.
UnusedFunctions ==
  {f \in Functions :
     /\ f \notin MainLike \cup AssertPrefixed
     /\ input.linkage[f] # "internal"
     /\ ~ Used(f)}

\* ElimUnusedFunction::runOnModule: rounds until one erases nothing.
ElimUnusedFunction ==
  /\ mpass = "ElimUnusedFunction"
  /\ \/ UnusedFunctions = {} /\ mpass' = "idle" /\ UNCHANGED mod
     \/ /\ UnusedFunctions # {} /\ mod' = Erased(mod, UnusedFunctions)
        /\ UNCHANGED mpass
  /\ UNCHANGED <<input, at, stack, attempted>>

HasOnly(f, ops) == \A i \in DOMAIN mod.body[f] : mod.body[f][i].op \in ops

\* Functions of one block that only cast, call and return, or only compute
\* an address; the number of calls is not looked at.
isCallTransferFunc(f) == f \in input.single /\ HasOnly(f, {"call", "bitcast", "ret"})
isGEPTransferFunc(f) == f \in input.single /\ HasOnly(f, {"gep", "bitcast", "ret"})
isDiscoverTestingFunc(f) == f \in TestingNamed

\* Faulty variant: testing functions are candidates as well.
CandidateTesting(f) ==
  /\ f \notin attempted
  /\ input.linkage[f] \in {"linkonce", "linkonce_odr", "internal"}
  /\ isCallTransferFunc(f) \/ isGEPTransferFunc(f)

\* The test of findCandidate on one function.
Candidate(f) ==
  /\ f \notin attempted /\ ~ isDiscoverTestingFunc(f)
  /\ input.linkage[f] \in {"linkonce", "linkonce_odr", "internal"}
  /\ isCallTransferFunc(f) \/ isGEPTransferFunc(f)

IsCallOf(i, f) == i.op = "call" /\ i.f = f

\* The body of a caller with each call of f replaced by the body of f.
Spliced(b, f) ==
  LET inner == Select(mod.body[f], LAMBDA i : i.op # "ret")
  IN  FlattenSeq([i \in DOMAIN b |-> IF IsCallOf(b[i], f) THEN inner ELSE <<b[i]>>])

\* LLVM's InlineFunction at every call site of f; it refuses the sites of
\* some callers (input.refused).
InlinedEverywhere(f) ==
  [mod EXCEPT !.body = [h \in DOMAIN @ |->
     IF h \in Functions /\ <<f, h>> \notin input.refused
     THEN Spliced(@[h], f) ELSE @[h]]]

\* Faulty variant: the function is erased while a site that was refused or
\* an address still refers to it.
ErasableAlways(m, f) == TRUE

\* The inlined function goes when every site took it and no use is left.
Erasable(m, f) ==
  /\ \A h \in Functions : <<f, h>> \in input.refused =>
        \A i \in DOMAIN mod.body[h] : ~ IsCallOf(mod.body[h][i], f)
  /\ ~ UsedBy(m, f)

\* Faulty variant: a function that stays is not remembered.
TriedForgotten(f) == attempted

\* attemptedFuncs after function f was tried and kept.
Tried(f) == attempted \cup {f}

\* InlineSimpleFunction::runOnModule, one candidate: the first of the list is
\* inlined and erased, or kept and not tried again.
InlineSimpleFunction ==
  /\ mpass = "InlineSimpleFunction"
  /\ LET found == {k \in DOMAIN mod.funcs : Candidate(mod.funcs[k])}
     IN  \/ found = {} /\ mpass' = "idle" /\ UNCHANGED <<mod, attempted>>
         \/ \E k \in found :
              /\ \A j \in found : k <= j
              /\ LET f == mod.funcs[k]
                     m == InlinedEverywhere(f)
                 IN  \/ /\ Erasable(m, f)
                        /\ mod' = Erased(m, {f}) /\ UNCHANGED attempted
                     \/ /\ ~ Erasable(m, f)
                        /\ mod' = m /\ attempted' = Tried(f)
              /\ UNCHANGED mpass
  /\ UNCHANGED <<input, at, stack>>

\* ElimUnusedGlobal::runOnModule: one round, so globals that only the erased
\* ones referred to stay.
ElimUnusedGlobal ==
  /\ mpass = "ElimUnusedGlobal" /\ mpass' = "idle"
  /\ mod' = [mod EXCEPT !.globals = Select(@, LAMBDA g : Used(g))]
  /\ UNCHANGED <<input, at, stack, attempted>>

\* ElimInlineAsm::runOnModule: the first checksum line that is not the first
\* line, when the next one is ".text", goes with all the lines before it.
ElimInlineAsm ==
  /\ mpass = "ElimInlineAsm" /\ mpass' = "idle"
  /\ LET found == {k \in 2 .. Len(mod.asm) : mod.asm[k] = "checksum"}
         first == CHOOSE k \in found : \A j \in found : k <= j
     IN  mod' = IF found # {} /\ first < Len(mod.asm) /\ mod.asm[first + 1] = "text"
                THEN [mod EXCEPT !.asm = SubSeq(@, first + 2, Len(@))]
                ELSE mod
  /\ UNCHANGED <<input, at, stack, attempted>>

ModuleStep ==
  \/ VisitGlobal \/ VisitField \/ FinishInit
  \/ ElimUnusedFunction \/ InlineSimpleFunction
  \/ ElimUnusedGlobal \/ ElimInlineAsm
-----------------------------------------------------------------------------
(* Properties *)

\* The places of a constant that hold something else than zero, and what.
LeavesIn(h) ==
  LET leaves[c \in DOMAIN input.kind \cup DOMAIN h \cup {Null, None}] ==
        CASE c \in {Null, None} -> {}
          [] c \in DOMAIN h ->
               UNION {{<<<<i>> \o l[1], l[2]>> : l \in leaves[h[c][i]]} : i \in DOMAIN h[c]}
          [] OTHER -> {<<<<>>, c>>}
  IN  leaves

\* What global g holds when the initialisation function has run: its
\* initialiser, overwritten by the stores of that function.
InitialMemory(m, g) ==
  LET code == m.body[InitGlobals]
      last == {k \in DOMAIN code :
                 /\ code[k].op = "store" /\ code[k].g = g
                 /\ \A j \in k + 1 .. Len(code) :
                      ~ (code[j].op = "store" /\ code[j].g = g /\ code[j].path = code[k].path)}
      stored == {<<code[k].path, code[k].f>> : k \in last}
  IN  {l \in LeavesIn(m.heap)[m.init[g]] : \A s \in stored : s[1] # l[1]}
        \cup {s \in stored : s[2] # Null}

\* Every aggregate of g's initialiser is an operand once, and none of its
\* fields is an alias: InitGlobal changes shared constants in place and does
\* not know aliases, and loses values of globals that have either.
Separate(g) ==
  LET h == input.m.heap
      below[c \in DOMAIN h] ==
        {c} \cup UNION {below[h[c][i]] : i \in {j \in DOMAIN h[c] : h[c][j] \in DOMAIN h}}
      refs(c) == {<<x>> : x \in {y \in DOMAIN input.m.init : input.m.init[y] = c}}
                   \cup {r \in (DOMAIN h) \X (1 .. 4) :
                           r[2] \in DOMAIN h[r[1]] /\ h[r[1]][r[2]] = c}
  IN  input.m.init[g] \in DOMAIN h =>
        /\ \A c \in below[input.m.init[g]] : Cardinality(refs(c)) = 1
        /\ \A l \in LeavesIn(h)[input.m.init[g]] : input.kind[l[2]] # "alias"

InitFunctionPresent ==
  mpass = "InitGlobal" \/ mod.body[InitGlobals] = <<>> \/ InitGlobals \in Functions

(***************************************************************************)
(* While the initialisation function exists, running it gives every global *)
(* the value its initialiser had in the input: at each step of InitGlobal  *)
(* (a nested field is nulled and stored together) and after the passes     *)
(* that follow.  Only globals with separate initialisers are covered.      *)
(***************************************************************************)
InitialisationKept ==
  InitFunctionPresent =>
    \A g \in GlobalVars \ {GlobalCtors} :
      Separate(g) => InitialMemory(mod, g) = InitialMemory(input.m, g)

(***************************************************************************)
(* Nothing that is still referred to is erased: not by a round of          *)
(* ElimUnusedFunction, not after inlining (a refused site or an address    *)
(* taken still uses the function), not by ElimUnusedGlobal.                *)
(***************************************************************************)
NothingDangling ==
  \A x \in ToSet(input.m.funcs) \cup ToSet(input.m.globals) :
    Used(x) => x \in Functions \cup GlobalVars

\* A function whose calls can be read as what it does: one with a body, unless
\* it is a testing function, which the analyser knows by its name.
Expandable(m, f) == f \in ToSet(m.funcs) /\ m.body[f] # <<>> /\ ~ isDiscoverTestingFunc(f)

\* What an instruction does, and a body, where table t says what each function
\* does: a call of a function with a body does what that function does.
Effect(m, t, i) ==
  CASE i.op = "ret" -> <<>>
    [] i.op = "call" /\ Expandable(m, i.f) -> t[i.f]
    [] OTHER -> <<i>>
Effects(m, t, b) == FlattenSeq([k \in DOMAIN b |-> Effect(m, t, b[k])])

\* Table t is right about every function of module m.
Accounts(m, t) ==
  \A f \in ToSet(m.funcs) \ {InitGlobals} : IsSequence(t[f]) /\ t[f] = Effects(m, t, m.body[f])

\* The table found by expanding every call.
Expanded(m) ==
  LET does[f \in DOMAIN m.body] == Effects(m, does, m.body[f])
  IN  does

(***************************************************************************)
(* A function of the output does what it did in the input, in the same     *)
(* order: inlining a forwarding function, at every site or at the sites    *)
(* that accept it, and erasing it lose, double or reorder nothing, and     *)
(* calls of the assertion functions stay calls.  What the functions of the *)
(* input do, found by expanding their calls, is still what they do; the    *)
(* expansion has an end unless functions call each other in a circle.      *)
(***************************************************************************)
CallsKept ==
  LET t == Expanded(input.m)
  IN  Accounts(input.m, t) => Accounts(mod, t)

(***************************************************************************)
(* dataflow.ml:2290 looks up `__init_globals' in the normalised program to *)
(* learn what the globals hold; InitGlobal.cpp:217 says it creates the     *)
(* function "to initialize global variables".  So a program with           *)
(* initialised globals keeps their values in the output.                   *)
(***************************************************************************)
InitialisationReachesOutput ==
  mpass = "ElimInlineAsm" =>
    \A g \in GlobalVars \ {GlobalCtors} : Separate(g) =>
      InitialMemory([mod EXCEPT !.body[InitGlobals] =
                       IF InitGlobals \in Functions THEN @ ELSE <<>>], g)
        = InitialMemory(input.m, g)
=============================================================================
