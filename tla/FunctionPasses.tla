--------------------------- MODULE FunctionPasses ---------------------------
(***************************************************************************)
(* The function passes of llvm-normalizer (llvm-normalizer/src/Passes):    *)
(* ElimAllocaStoreArg replaces the stack copy of an argument by the        *)
(* argument, UninlineInstruction turns constant expressions into           *)
(* instructions, CombineGEP joins address computations and                 *)
(* ElimIdenticalInstrs removes repeated casts, phi nodes and addresses.    *)
(*                                                                         *)
(* A function is a record: its blocks in layout order, each a sequence of  *)
(* instruction names; the instructions [op, args, from, ty] (from: the     *)
(* incoming blocks of a phi node, ty: the type a cast produces); and the   *)
(* instructions of the other functions of the module that share constants  *)
(* with it.  Operands are names: arguments, constants, expressions,        *)
(* instructions.  The control-flow graph never changes.                    *)
(***************************************************************************)
EXTENDS Naturals, Sequences, FiniteSets, SequencesExt, Subsequences, TLC

CONSTANTS
  NewNames,  \* names for the instructions the passes create
  MaxWalk    \* bound on the walks through the graph that are compared

VARIABLES
  origin,    \* the function read, its arguments, expressions, globals, graph
  fn,        \* the function now
  fpass,     \* the function pass at work, "idle", or "crash"
  todo       \* what ElimIdenticalInstrs has still to search and to erase

fvars == <<origin, fn, fpass, todo>>

CastOps == {"bitcast", "zext", "sext"}
NoInstr == "none"

Layout(f) == FlattenSeq(f.blocks)
Op(f, i) == f.ins[i].op
IsExpr(v) == v \in DOMAIN origin.expr

\* The users of a value, one entry per use; the list of uses of a function
\* read from a file runs from the last use to the first.
Users(f, v) ==
  Reverse(FlattenSeq([k \in DOMAIN (Layout(f) \o f.foreign) |->
    LET i == (Layout(f) \o f.foreign)[k]
    IN  [n \in 1 .. Cardinality({a \in DOMAIN f.ins[i].args : f.ins[i].args[a] = v})
           |-> i]]))

Terminators == {"br", "switch", "ret", "invoke", "resume", "unreachable"}

\* An instruction record of f; a phi node has a block of f for each value.
InstrOf(f, r) ==
  /\ r = [op |-> r.op, args |-> r.args, from |-> r.from, ty |-> r.ty] /\ IsSequence(r.args)
  /\ r.op = "phi" => \A a \in DOMAIN r.args : r.from[a] \in DOMAIN f.blocks

\* A function as it is read: each block ends with a terminator, no instruction
\* has the name that stands for none, and the instructions of the other
\* functions do not use those of this one.
IsFunction(f) ==
  /\ f = [blocks |-> f.blocks, ins |-> f.ins, foreign |-> f.foreign]
  /\ IsSequence(f.blocks) /\ IsSequence(f.foreign)
  /\ \A b \in DOMAIN f.blocks :
       /\ IsSequence(f.blocks[b]) /\ f.blocks[b] # <<>>
       /\ Op(f, Last(f.blocks[b])) \in Terminators
  /\ \A i \in ToSet(Layout(f)) \cup ToSet(f.foreign) : i \in DOMAIN f.ins /\ InstrOf(f, f.ins[i])
  /\ NoInstr \notin ToSet(Layout(f))
  /\ \A i \in ToSet(f.foreign) : ToSet(f.ins[i].args) \cap ToSet(Layout(f)) = {}

Erase(f, gone) ==
  [f EXCEPT !.blocks = [b \in DOMAIN @ |-> Select(@[b], LAMBDA x : x \notin gone)],
            !.foreign = Select(@, LAMBDA x : x \notin gone)]

\* llvm::replaceOperand, over the instructions of this function only; by maps
\* each operand that gives way to the one that replaces it.
replaceOperand(f, by) ==
  LET New(v) == IF v \in DOMAIN by THEN by[v] ELSE v
  IN  [f EXCEPT !.ins = [i \in DOMAIN f.ins |->
        IF i \in ToSet(Layout(f))
        THEN [f.ins[i] EXCEPT !.args = [a \in DOMAIN f.ins[i].args |-> New(f.ins[i].args[a])]]
        ELSE f.ins[i]]]

BlockOf(f, i) == CHOOSE b \in DOMAIN f.blocks : Contains(f.blocks[b], i)
IndexIn(s, x) == CHOOSE k \in DOMAIN s : s[k] = x

\* A new instruction right before another one.
InsertBefore(f, anchor, name, record) ==
  LET b == BlockOf(f, anchor)
  IN  [f EXCEPT !.blocks[b] = InsertAt(@, IndexIn(@, anchor), name),
                !.ins = [i \in DOMAIN f.ins \cup {name} |->
                          IF i = name THEN record ELSE f.ins[i]]]

FreshName(f) == NewNames[CHOOSE k \in DOMAIN NewNames :
                           /\ NewNames[k] \notin DOMAIN f.ins
                           /\ \A j \in 1 .. k - 1 : NewNames[j] \in DOMAIN f.ins]
-----------------------------------------------------------------------------
(* ElimAllocaStoreArg *)

\* Faulty variant: a slot that is written twice is taken for a copy as well.
IsArgumentSlotAnyStores(f, u) ==
  LET us == Users(f, u)
  IN  /\ \A k \in DOMAIN us :
           \/ Op(f, us[k]) = "load"
           \/ /\ Op(f, us[k]) = "store" /\ f.ins[us[k]].args[2] = u
              /\ f.ins[us[k]].args[1] \in origin.params
      /\ \E k \in DOMAIN us : Op(f, us[k]) = "load"
      /\ \E k \in DOMAIN us : Op(f, us[k]) = "store"

\* A slot that only one store of an argument and loads use.
IsArgumentSlot(f, u) ==
  LET us == Users(f, u)
      stores == {k \in DOMAIN us : Op(f, us[k]) = "store"}
  IN  /\ \A k \in DOMAIN us \ stores : Op(f, us[k]) = "load"
      /\ \A k \in stores : /\ f.ins[us[k]].args[1] \in origin.params
                           /\ f.ins[us[k]].args[2] = u
      /\ Cardinality(stores) = 1 /\ stores # DOMAIN us

\* findAllocaStoreArg: the variable for the store is assigned at every user,
\* so it holds the last one, and nothing when that one is a load.
findAllocaStoreArg(f) ==
  FlattenSeq([k \in DOMAIN Layout(f) |->
    LET u == Layout(f)[k]
        us == Users(f, u)
    IN  IF Op(f, u) # "alloca" \/ ~ IsArgumentSlot(f, u) THEN <<>>
        ELSE <<[alloc |-> u,
                store |-> IF Op(f, Last(us)) = "store" THEN Last(us) ELSE NoInstr,
                loads |-> {i \in ToSet(us) : Op(f, i) = "load"}]>>])

\* removeAllocaStoreArg: every load of a candidate gives way to the argument,
\* then the load, the store and the slot are erased.  No argument is a load,
\* so the order of the replacements does not matter.
removeAllocaStoreArg(f, list) ==
  LET loads == UNION {list[k].loads : k \in DOMAIN list}
      slot(l) == CHOOSE k \in DOMAIN list : l \in list[k].loads
  IN  Erase(replaceOperand(f, [l \in loads |-> f.ins[list[slot(l)].store].args[1]]),
            loads \cup UNION {{list[k].store, list[k].alloc} : k \in DOMAIN list})

\* runOnFunction; a candidate without store is a null pointer dereferenced.
ElimAllocaStoreArg ==
  /\ fpass = "ElimAllocaStoreArg"
  /\ \E list \in {findAllocaStoreArg(fn)} :
         \/ /\ \E k \in DOMAIN list : list[k].store = NoInstr
            /\ fpass' = "crash" /\ UNCHANGED fn
         \/ /\ \A k \in DOMAIN list : list[k].store # NoInstr
            /\ fn' = removeAllocaStoreArg(fn, list) /\ fpass' = "idle"
  /\ UNCHANGED <<origin, todo>>
-----------------------------------------------------------------------------
(* UninlineInstruction *)

\* The expression operands left, as (instruction, operand) in layout order.
ExprOperands(f) ==
  FlattenSeq([k \in DOMAIN Layout(f) |->
    LET i == Layout(f)[k]
    IN  Select([a \in DOMAIN f.ins[i].args |-> <<i, a>>],
               LAMBDA p : IsExpr(f.ins[p[1]].args[p[2]]))])

\* The place of the new instruction: before its user, and for a phi node
\* before the terminator of the block the operand comes from.
Place(f, i, a) ==
  IF Op(f, i) = "phi" THEN Last(f.blocks[f.ins[i].from[a]]) ELSE i

\* uninlineConstantExpr, operand a of instruction i: the expression becomes an
\* instruction, whose own expression operands are uninlined in their turn.
uninlineConstantExpr(f, i, a) ==
  LET x == FreshName(f)
  IN  [InsertBefore(f, Place(f, i, a), x, origin.expr[f.ins[i].args[a]])
         EXCEPT !.ins[i].args[a] = x]

UninlineInstruction ==
  /\ fpass = "UninlineInstruction"
  /\ \/ ExprOperands(fn) = <<>> /\ fpass' = "idle" /\ UNCHANGED fn
     \/ /\ ExprOperands(fn) # <<>> /\ UNCHANGED fpass
        /\ \E p \in {Head(ExprOperands(fn))} : fn' = uninlineConstantExpr(fn, p[1], p[2])
  /\ UNCHANGED <<origin, todo>>
-----------------------------------------------------------------------------
(* CombineGEP *)

\* findCombinableGEPs: the chain of addresses from one, each used once, by
\* the next, and with a first index 0; the outermost comes first.
findCombinableGEPs(f) ==
  LET chain[i \in DOMAIN f.ins] ==
        LET us == Users(f, i)
        IN  IF Len(us) = 1 /\ Op(f, us[1]) = "gep" /\ f.ins[i].args[2] = "0"
            THEN Append(chain[us[1]], i) ELSE <<>>
  IN  chain

\* Faulty variant: the chains of addresses that were not visited yet.
findCombinableGEPListNew(f) ==
  FoldLeft(LAMBDA acc, i :
             IF Op(f, i) = "gep" /\ i \notin acc.visited
             THEN LET l == Reverse(findCombinableGEPs(f)[i])
                  IN  [visited |-> acc.visited \cup ToSet(l), lists |-> Append(acc.lists, l)]
             ELSE acc,
           [visited |-> {}, lists |-> <<>>], Layout(f)).lists

\* findCombinableGEPList: a chain is looked for from the addresses that were
\* visited before, and none ever was.
findCombinableGEPList(f) ==
  FoldLeft(LAMBDA acc, i :
             IF Op(f, i) = "gep" /\ i \in acc.visited
             THEN LET l == Reverse(findCombinableGEPs(f)[i])
                  IN  [visited |-> acc.visited \cup ToSet(l), lists |-> Append(acc.lists, l)]
             ELSE acc,
           [visited |-> {}, lists |-> <<>>], Layout(f)).lists

\* combineGEPInstructions: one address with the indices of all of them (the
\* first index of each but the first dropped) replaces the last of a chain.
combineGEPInstructions(f, lists) ==
  FoldLeft(LAMBDA g, l :
             LET idxs == FlattenSeq([k \in DOMAIN l |->
                           SubSeq(g.ins[l[k]].args, IF k = 1 THEN 2 ELSE 3,
                                  Len(g.ins[l[k]].args))])
                 x == FreshName(g)
                 h == InsertBefore(g, Last(l), x,
                        [g.ins[Head(l)] EXCEPT !.args = <<g.ins[Head(l)].args[1]>> \o idxs])
             IN  Erase(replaceOperand(h, Last(l) :> x), ToSet(l)),
           f, lists)

\* runOnFunction; a chain of fewer than two would be read past its end.
CombineGEP ==
  /\ fpass = "CombineGEP"
  /\ LET lists == findCombinableGEPList(fn)
     IN  IF \E k \in DOMAIN lists : Len(lists[k]) < 2
         THEN fpass' = "crash" /\ UNCHANGED fn
         ELSE fpass' = "idle" /\ fn' = combineGEPInstructions(fn, lists)
  /\ UNCHANGED <<origin, todo>>
-----------------------------------------------------------------------------
(* ElimIdenticalInstrs *)

\* The test of findCastInstsOfSameSourceAndType on two users of a value: the
\* type they produce, whatever the casts are.
SameCast(f, i, j) ==
  Op(f, i) \in CastOps /\ Op(f, j) \in CastOps /\ f.ins[i].ty = f.ins[j].ty

\* That of findPHINodeOfSameIncoming: the same values from the same blocks.
SamePhi(f, i, j) ==
  /\ Op(f, i) = "phi" /\ Op(f, j) = "phi"
  /\ f.ins[i].args = f.ins[j].args /\ f.ins[i].from = f.ins[j].from

\* That of findGEPOfSameElemPtr: the same base and indices.
SameGEP(f, i, j) == Op(f, i) = "gep" /\ Op(f, j) = "gep" /\ f.ins[i].args = f.ins[j].args

SameOf(kind, f, i, j) ==
  CASE kind = "cast" -> SameCast(f, i, j)
    [] kind = "phi" -> SamePhi(f, i, j)
    [] kind = "gep" -> SameGEP(f, i, j)

\* The part the three searches share: the first instruction of each kind in
\* layout order, with the users of its first operand that are the same.
identInsts(kind, f) ==
  FoldLeft(LAMBDA acc, i :
             LET src == f.ins[i].args[1]
                 others == SelectSeq(Users(f, src), LAMBDA j : j # i /\ SameOf(kind, f, i, j))
             IN  IF ~ SameOf(kind, f, i, i) \/ i \in acc.visited
                      \/ src \in origin.globals \cup {"undef"}
                 THEN acc
                 ELSE [visited |-> acc.visited \cup ToSet(others),
                       list |-> Append(acc.list, [keep |-> i, others |-> others])],
           [visited |-> {}, list |-> <<>>],
           SelectSeq(Layout(f), LAMBDA i : f.ins[i].args # <<>>)).list

\* Blocks reached from the entry without passing block b.
ReachedAvoiding(b) ==
  FoldLeft(LAMBDA S, k : S \cup (UNION {ToSet(origin.succ[c]) : c \in S} \ {b}),
           {1} \ {b}, [k \in DOMAIN origin.succ |-> k])
BlockDominates(b, c) == c \notin ReachedAvoiding(b)

\* DominatorTree::dominates: a block that the tree does not know (one of
\* another function) counts as dominated; a phi node is dominated by what
\* dominates its block, never by an instruction of that block.
Dominates(f, i, j) ==
  \/ Contains(f.foreign, j)
  \/ LET b == BlockOf(f, i)
         c == BlockOf(f, j)
     IN  IF b = c THEN /\ Op(f, j) # "phi"
                       /\ IndexIn(f.blocks[b], i) < IndexIn(f.blocks[b], j)
         ELSE BlockDominates(b, c)

\* Faulty variant: whether the kept instruction dominates is not asked.
eliminateAlways(f, r) ==
  FoldLeft(LAMBDA g, j : Erase(replaceOperand(g, j :> r.keep), {j}), f, r.others)

\* eliminateIdenticalInstrs, one group: those the kept instruction dominates
\* are replaced in this function and erased.
eliminateIdenticalInstrs(f, r) ==
  FoldLeft(LAMBDA g, j : IF Dominates(g, r.keep, j)
                         THEN Erase(replaceOperand(g, j :> r.keep), {j}) ELSE g,
           f, r.others)

AllKinds == <<"cast", "phi", "gep">>

\* runOnFunction: casts, then phi nodes, then addresses, each searched in
\* what the former left.
ElimIdenticalInstrs ==
  /\ fpass = "ElimIdenticalInstrs"
  /\ \/ /\ todo.groups # <<>>
        /\ fn' = eliminateIdenticalInstrs(fn, Head(todo.groups))
        /\ todo' = [todo EXCEPT !.groups = Tail(@)] /\ UNCHANGED fpass
     \/ /\ todo.groups = <<>> /\ todo.kinds # <<>>
        /\ todo' = [kinds |-> Tail(todo.kinds), groups |-> identInsts(Head(todo.kinds), fn)]
        /\ UNCHANGED <<fn, fpass>>
     \/ /\ todo.groups = <<>> /\ todo.kinds = <<>> /\ fpass' = "idle"
        /\ todo' = [todo EXCEPT !.kinds = AllKinds] /\ UNCHANGED fn
  /\ UNCHANGED origin

FunctionStep ==
  ElimAllocaStoreArg \/ UninlineInstruction \/ CombineGEP \/ ElimIdenticalInstrs
-----------------------------------------------------------------------------
(* What LLVM's verifier asks of a function, and what a function does *)

IsInstr(f, v) == v \in DOMAIN f.ins

\* The operand a of instruction i is defined where it is used.
DefinedAtUse(f, i, a) ==
  LET d == f.ins[i].args[a]
  IN  IsInstr(f, d) =>
        /\ Contains(Layout(f), d)
        /\ IF Op(f, i) = "phi"
           THEN LET b == BlockOf(f, d)
                IN  b = f.ins[i].from[a] \/ BlockDominates(b, f.ins[i].from[a])
           ELSE Dominates(f, d, i)

\* A phi node has one value per incoming block; phi nodes, then a landing
\* pad, come first; operands are defined; nothing of another function that is
\* erased is in use there.
WellFormed(f) ==
  /\ \A i \in ToSet(Layout(f)) : \A a \in DOMAIN f.ins[i].args :
       /\ DefinedAtUse(f, i, a)
       /\ Op(f, i) = "phi" => \A c \in DOMAIN f.ins[i].args :
            f.ins[i].from[a] = f.ins[i].from[c] => f.ins[i].args[a] = f.ins[i].args[c]
  /\ \A b \in DOMAIN f.blocks : \A k \in 2 .. Len(f.blocks[b]) :
       Op(f, f.blocks[b][k]) \in {"phi", "landingpad"} => Op(f, f.blocks[b][k - 1]) = "phi"
  /\ \A i \in ToSet(f.foreign) : \A a \in DOMAIN f.ins[i].args :
       IsInstr(f, f.ins[i].args[a]) => Contains(f.foreign, f.ins[i].args[a])

\* Values are terms: a name <<x>>, or an operation <<op, <<type>>, ...>>.
ExprTerm ==
  LET term[v \in DOMAIN origin.expr] ==
        LET e == origin.expr[v]
        IN  <<e.op, <<e.ty>>>> \o [a \in DOMAIN e.args |->
              IF IsExpr(e.args[a]) THEN term[e.args[a]] ELSE <<e.args[a]>>]
  IN  term
Term(env, v) ==
  IF v \in DOMAIN env THEN env[v] ELSE IF IsExpr(v) THEN ExprTerm[v] ELSE <<v>>

\* One instruction run in state st, its block entered from block p with the
\* values env0: the slots are memory, calls and branches are observed.
Executed(f, st, env0, p, i) ==
  LET r == f.ins[i]
      terms == [a \in DOMAIN r.args |-> Term(st.env, r.args[a])]
      Set(t) == [st EXCEPT !.env = (i :> t) @@ @]
      slot(t) == t \in {<<x>> : x \in {y \in DOMAIN f.ins : Op(f, y) = "alloca"}}
      Seen(s) == [s EXCEPT !.seen = Append(@, <<r.op>> \o terms)]
  IN  CASE r.op = "alloca" -> Set(<<i>>)
        [] r.op = "phi" -> Set(Term(env0, r.args[IndexIn(r.from, p)]))
        [] r.op = "load" ->
             IF ~ slot(terms[1]) THEN Set(<<"load", terms[1]>>)
             ELSE IF terms[1] \in DOMAIN st.mem THEN Set(st.mem[terms[1]])
             ELSE [Set(<<"undef">>) EXCEPT !.undef = TRUE]
        [] r.op = "store" ->
             IF slot(terms[2]) THEN [st EXCEPT !.mem = (terms[2] :> terms[1]) @@ @]
             ELSE Seen(st)
        [] r.op \in CastOps \cup {"gep"} -> Set(<<r.op, <<r.ty>>>> \o terms)
        [] OTHER -> Seen(Set(<<"result", <<i>>>>))

\* What is observed along a walk w through the graph.
Observed(f, w) ==
  FoldLeft(LAMBDA st, k :
             FoldLeft(LAMBDA s, i : Executed(f, s, st.env, IF k = 1 THEN 0 ELSE w[k - 1], i),
                      st, f.blocks[w[k]]),
           [env |-> <<>>, mem |-> <<>>, seen |-> <<>>, undef |-> FALSE],
           [k \in DOMAIN w |-> k])

Walks ==
  FoldLeft(LAMBDA W, n : W \cup {Append(w, b) : w \in {x \in W : Len(x) = n},
                                               b \in DOMAIN origin.succ},
           {<<1>>}, [n \in 1 .. MaxWalk - 1 |-> n])
IsWalk(w) == \A k \in 1 .. Len(w) - 1 : Contains(origin.succ[w[k]], w[k + 1])
-----------------------------------------------------------------------------
(* Properties *)

\* Two casts of one value to one type are the same cast, and instructions of
\* other functions have no operand in common with the ones merged here:
\* ElimIdenticalInstrs does not tell such casts apart and erases such
\* instructions.
Mergeable ==
  LET f == origin.fn
  IN  \A i, j \in ToSet(Layout(f) \o f.foreign) :
        /\ SameCast(f, i, j) /\ f.ins[i].args = f.ins[j].args => Op(f, i) = Op(f, j)
        /\ Contains(f.foreign, j) /\ Contains(Layout(f), i) =>
             ~ (SameGEP(f, i, j) \/ (SameCast(f, i, j) /\ f.ins[i].args = f.ins[j].args))

\* No landing pad has an expression as a clause, and no phi node has one for
\* a block that enters twice: UninlineInstruction makes these invalid.
Uninlinable ==
  \A i \in ToSet(Layout(origin.fn)) :
    LET r == origin.fn.ins[i]
    IN  \A a \in DOMAIN r.args : IsExpr(r.args[a]) =>
          /\ r.op # "landingpad"
          /\ r.op = "phi" => \A c \in DOMAIN r.from \ {a} : r.from[c] # r.from[a]

(***************************************************************************)
(* Along every walk through the function on which no slot is read before   *)
(* it is written, the passes leave what is observed unchanged: the calls   *)
(* with their arguments, the stores, the branch conditions and the result, *)
(* after each pass and each instruction uninlined.                         *)
(***************************************************************************)
BehaviourKept ==
  Mergeable => \A w \in {x \in Walks : IsWalk(x)} :
    \/ Observed(origin.fn, w).undef
    \/ Observed(fn, w).seen = Observed(origin.fn, w).seen

(***************************************************************************)
(* A valid function stays valid at every step: what UninlineInstruction    *)
(* inserts for a phi node precedes the terminator of the incoming block,   *)
(* and what ElimIdenticalInstrs keeps dominates the users of what it       *)
(* erases.                                                                 *)
(***************************************************************************)
StaysValid == Mergeable /\ Uninlinable => WellFormed(fn)

(***************************************************************************)
(* The only crash of the function passes: an argument slot that is read,   *)
(* in layout order, before its store.  findAllocaStoreArg then reports it  *)
(* without a store.                                                        *)
(***************************************************************************)
CrashExplained ==
  fpass = "crash" =>
    \E u, i \in ToSet(Layout(origin.fn)) :
      /\ Op(origin.fn, u) = "alloca" /\ Op(origin.fn, i) = "load"
      /\ i = Last(Users(origin.fn, u))
=============================================================================
