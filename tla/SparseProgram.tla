---------------------------- MODULE SparseProgram ----------------------------
(***************************************************************************)
(* initialize_analysis of src/dataflow/dataflow.ml, with the marking of    *)
(* values by the pointer analysis (src/dataflow/pointer.ml): which         *)
(* instructions, globals, blocks and functions belong to the sparse        *)
(* program.  Passes take marks away until none of them does.  The program  *)
(* is prepared again for every entry function; the marks of blocks and     *)
(* functions are kept, those of instructions and globals are set afresh.   *)
(*                                                                         *)
(* The functions and the globals of a pass are visited in any order, the   *)
(* instructions of a function in theirs.                                   *)
(***************************************************************************)
EXTENDS SparseShape, Sequences, SequencesExt

CONSTANTS
  Func,      \* the user functions and the init functions
  Instr,
  Global,
  Programs,  \* the programs to prepare
  Entries,   \* bound: how many entry functions there are
  None

\* What the passes tell instructions apart by: branches and switches, returns of a pointer
\* or not, calls of a user function, of a library function on pointers and through a
\* pointer, other instructions on pointers, alloca, load and address computation
\* (derive), store, and those that no pointer is involved in.
Ops == {"branch", "retptr", "ret", "call", "lib", "callptr", "pointer",
        "alloca", "derive", "store", "other"}

Value == Instr \union Global

\* The operands of an instruction include its callee, those of a global what its
\* initial value mentions.  A store has no result that could be an operand, and a block
\* with one successor ends in a branch on no global and no function.
IsProgram(p) ==
  /\ p.entry \in [Func -> Block]
  /\ p.func \in [Block -> Func]
  /\ p.succ \in [Block -> SUBSET Block]
  /\ p.block \in [Instr -> Block]
  /\ p.instrs \in [Func -> Seq(Instr)]
  /\ p.op \in [Instr -> Ops]
  /\ p.oprs \in [Value -> SUBSET (Value \union Func)]
  /\ p.callee \in [Instr -> Func \union {None}]
  /\ p.dst \in [Instr -> Value \union {None}]
  /\ p.strings \subseteq Global
  /\ \A f \in Func : p.func[p.entry[f]] = f
  /\ \A b \in Block : \A c \in p.succ[b] : p.func[c] = p.func[b]
  /\ \A f \in Func : ToSet(p.instrs[f]) = {i \in Instr : p.func[p.block[i]] = f}
  /\ \A i \in Instr : (p.op[i] = "call" <=> p.callee[i] # None)
  /\ \A i \in Instr : p.op[i] = "call" => p.callee[i] \in p.oprs[i]
  /\ \A i \in Instr : p.op[i] = "store" => p.dst[i] \in p.oprs[i]
  /\ \A i \in Instr : p.op[i] = "store" => \A v \in Value : i \notin p.oprs[v]
  /\ \A b \in Block : Cardinality(p.succ[b]) = 1 =>
       \E i \in Instr : /\ p.block[i] = b /\ p.op[i] = "branch"
                        /\ p.oprs[i] \intersect (Global \union Func) = {}

ASSUME SparseAssumption ==
  /\ None \notin Func /\ None \notin Value /\ None \notin BOOLEAN
  /\ IsFiniteSet(Instr) /\ Instr \intersect Global = {} /\ Entries \in Nat \ {0}
  /\ \A p \in Programs : IsProgram(p)

VARIABLES
  prog,     \* penv_prog
  sparse,   \* penv_sparse_llvalue
  bsparse,  \* penv_sparse_block, None for a block without an entry
  fsparse,  \* penv_sparse_func
  pass,     \* the pass at work
  todo,     \* the functions or globals that the pass has still to visit
  again,    \* the flag of the loop inside the pass
  inner,    \* the flag of the loop of refine_sparse_globals_instrs
  outer,    \* the flag of the loop of initialize_analysis
  entries   \* the entry functions still to be analysed

vars == <<prog, sparse, bsparse, fsparse, pass, todo, again, inner, outer, entries>>

------------------------------------------------------------------------------
InstrsOf(f) == ToSet(prog.instrs[f])

BlocksOf(f) == {b \in Block : prog.func[b] = f}

\* LL.iter_uses
Users(v) == {u \in Value : v \in prog.oprs[u]}

SparseInstrs(b) == {i \in Instr : prog.block[i] = b /\ sparse[i]}

\* What the search for neighbours sees of a block.
KindOf(b) ==
  LET ops == {prog.op[i] : i \in SparseInstrs(b)}
  IN  IF ops = {} THEN "empty" ELSE IF ops = {"branch"} THEN "branch" ELSE "code"

CurrentShape(f) ==
  [succ |-> prog.succ, switch |-> {}, kind |-> [b \in BlocksOf(f) |-> KindOf(b)],
   entry |-> prog.entry[f]]

\* The blocks that the search for sparse successors leads to from the entry block of f,
\* get_sparse_block_reachable_from_entry.
Reached(f) == Analysed(CurrentShape(f))

------------------------------------------------------------------------------
(* Instructions and globals: src/dataflow/pointer.ml *)

is_candidate_sparse_instr(i) == prog.op[i] # "other"

\* init_sparse_globals_instrs
init_sparse_globals_instrs ==
  /\ pass = "values"
  /\ sparse' = [v \in Value |-> IF v \in Global THEN v \notin prog.strings
                                ELSE is_candidate_sparse_instr(v)]
  /\ pass' = "first_funcs"
  /\ todo' = Func
  /\ UNCHANGED <<prog, bsparse, fsparse, again, inner, outer, entries>>

\* Faulty variant: an instruction with one user left can be removed.
CanMarkWithOneUser(m, i) ==
  LET users == {u \in Users(i) \intersect Instr : m[u]}
  IN  CASE prog.op[i] \in {"alloca", "derive"} -> Cardinality(users) <= 1
        [] prog.op[i] = "store" -> \E j \in prog.oprs[i] \intersect Instr : ~m[j]
        [] OTHER -> FALSE

can_mark_non_sparse_instr(m, i) ==
  LET users == {u \in Users(i) \intersect Instr : m[u]}
      only_dst == \A u \in Users(i) :
        u \in Instr /\ prog.op[u] = "store" /\ (m[u] => prog.dst[u] = i)
  IN  CASE prog.op[i] = "alloca" -> users = {} \/ only_dst
        [] prog.op[i] = "derive" ->
             users = {} \/ \E g \in prog.oprs[i] \intersect Global : ~m[g]
        [] prog.op[i] = "store" -> \E j \in prog.oprs[i] \intersect Instr : ~m[j]
        [] OTHER -> FALSE

\* The marks after instruction i was visited.
VisitInstr(m, i) ==
  IF m[i] /\ can_mark_non_sparse_instr(m, i) THEN [m EXCEPT ![i] = FALSE] ELSE m

\* One visit of function f by refine_func: marks m, each instruction in its turn.
VisitInstrs(f, m) ==
  LET visit[n \in Nat] ==
        IF n = 0 THEN m ELSE VisitInstr(visit[n - 1], prog.instrs[f][n])
  IN  visit[Len(prog.instrs[f])]

\* refine_candidate_sparse_instrs, one visit of one function.  When a mark was taken away
\* it is visited again, at once in the code and at any time here.
refine_func ==
  /\ pass = "refine_instrs"
  /\ \E f \in todo :
       LET m == VisitInstrs(f, sparse)
       IN  /\ sparse' = m
           /\ todo' = IF m # sparse THEN todo ELSE todo \ {f}
           /\ inner' = (inner \/ m # sparse)
  /\ UNCHANGED <<prog, bsparse, fsparse, pass, again, outer, entries>>

\* The global and its users lose their marks.
UnmarkGlobal(g) == [v \in Value |-> sparse[v] /\ v # g /\ v \notin Users(g)]

IsUsed(g) == \E u \in Users(g) : sparse[u]

\* Every user is a marked store to the global.
OnlyStoredTo(g) ==
  \A u \in Users(g) : sparse[u] /\ u \in Instr /\ prog.op[u] = "store" /\ prog.dst[u] = g

refine_candidate_sparse_globals ==
  /\ pass = "refine_globals"
  /\ \E g \in todo :
       /\ todo' = todo \ {g}
       /\ IF sparse[g] /\ (~IsUsed(g) \/ OnlyStoredTo(g))
          THEN sparse' = UnmarkGlobal(g) /\ inner' = TRUE
          ELSE UNCHANGED <<sparse, inner>>
  /\ UNCHANGED <<prog, bsparse, fsparse, pass, again, outer, entries>>

------------------------------------------------------------------------------
(* Functions *)

\* Function f loses its mark, and whatever uses it.
UnmarkFunc(f) ==
  /\ fsparse' = [fsparse EXCEPT ![f] = FALSE]
  /\ sparse' = [v \in Value |-> sparse[v] /\ v \notin Users(f)]

\* What init_sparse_funcs requires of a sparse function.
IsCandidate(f) ==
  LET marked == {i \in InstrsOf(f) : sparse[i] /\ prog.op[i] # "branch"}
  IN  /\ \E i \in marked : prog.op[i] \in {"ret", "retptr"}
      /\ ~(Cardinality(marked) = 1 /\ \E i \in marked : prog.op[i] = "ret")

init_sparse_funcs ==
  /\ pass \in {"first_funcs", "init_funcs"}
  /\ \E f \in todo :
       /\ todo' = todo \ {f}
       /\ \/ fsparse[f] = FALSE /\ UNCHANGED <<fsparse, sparse>>
          \/ fsparse[f] # FALSE /\ ~IsCandidate(f) /\ UnmarkFunc(f)
          \/ /\ fsparse[f] # FALSE /\ IsCandidate(f)
             /\ fsparse' = [fsparse EXCEPT ![f] = TRUE]
             /\ UNCHANGED sparse
  /\ UNCHANGED <<prog, bsparse, pass, again, inner, outer, entries>>

\* An instruction that refine_sparse_funcs takes as a reason to keep its function.
IsPointerRelated(i) ==
  \/ prog.op[i] \in {"retptr", "callptr", "pointer", "alloca", "derive", "store"}
  \/ prog.op[i] = "call" /\ fsparse[prog.callee[i]] = TRUE

HasPointerInstr(f) == \E i \in InstrsOf(f) : sparse[i] /\ IsPointerRelated(i)

refine_sparse_funcs ==
  /\ pass = "refine_funcs"
  /\ \E f \in todo :
       /\ todo' = todo \ {f}
       /\ IF fsparse[f] = TRUE /\ ~HasPointerInstr(f)
          THEN UnmarkFunc(f) /\ again' = TRUE /\ outer' = TRUE
          ELSE UNCHANGED <<fsparse, sparse, again, outer>>
  /\ UNCHANGED <<prog, bsparse, pass, inner, entries>>

------------------------------------------------------------------------------
(* Blocks *)

\* What init_sparse_blocks requires of a sparse block: a marked instruction, or two when
\* there is one successor.
IsSparseBlock(b) ==
  \/ b = prog.entry[prog.func[b]]
  \/ /\ SparseInstrs(b) # {}
     /\ ~(Cardinality(SparseInstrs(b)) = 1 /\ Cardinality(prog.succ[b]) = 1)

\* Faulty variant: a mark that was taken away is given again.
MarkBlocksAfresh == [b \in Block |-> IsSparseBlock(b)]

MarkBlocks == [b \in Block |-> bsparse[b] # FALSE /\ IsSparseBlock(b)]

init_sparse_blocks ==
  /\ pass = "init_blocks"
  /\ bsparse' = MarkBlocks
  /\ pass' = "refine_blocks"
  /\ UNCHANGED <<prog, sparse, fsparse, todo, again, inner, outer, entries>>

\* A block loses its mark when no path of sparse blocks leads to it.
refine_sparse_blocks ==
  /\ pass = "refine_blocks"
  /\ LET lost == {b \in Block : bsparse[b] = TRUE} \ UNION {Reached(f) : f \in Func}
     IN  /\ bsparse' = [b \in Block |-> IF b \in lost THEN FALSE ELSE bsparse[b]]
         /\ outer' = (lost # {})
  /\ pass' = "init_funcs"
  /\ todo' = Func
  /\ UNCHANGED <<prog, sparse, fsparse, again, inner, entries>>

------------------------------------------------------------------------------
(* The loops of initialize_analysis *)

Visit(p, items) == pass' = p /\ todo' = items

\* Faulty variant: the loop ends after one round.
NextRoundOnce ==
  IF inner THEN Visit("refine_instrs", Func) /\ inner' = FALSE /\ UNCHANGED outer
  ELSE Visit("ready", {}) /\ UNCHANGED <<inner, outer>>

\* After the globals: another round of refine_sparse_globals_instrs, another round of
\* initialize_analysis, or the end.  A mark taken by the former counts for the latter.
NextRound ==
  IF inner THEN /\ Visit("refine_instrs", Func)
                /\ inner' = FALSE
                /\ outer' = TRUE
  ELSE IF outer THEN Visit("init_blocks", {}) /\ UNCHANGED <<inner, outer>>
  ELSE Visit("ready", {}) /\ UNCHANGED <<inner, outer>>

EndOfPass ==
  /\ todo = {}
  /\ \/ pass = "first_funcs" /\ Visit("init_blocks", {}) /\ UNCHANGED <<again, inner, outer>>
     \/ pass = "init_funcs" /\ Visit("refine_funcs", Func) /\ UNCHANGED <<again, inner, outer>>
     \/ /\ pass = "refine_funcs"
        /\ IF again THEN Visit("refine_funcs", Func) ELSE Visit("refine_instrs", Func)
        /\ again' = FALSE
        /\ UNCHANGED <<inner, outer>>
     \/ pass = "refine_instrs" /\ Visit("refine_globals", Global)
          /\ UNCHANGED <<again, inner, outer>>
     \/ pass = "refine_globals" /\ NextRound /\ UNCHANGED again
  /\ UNCHANGED <<prog, sparse, bsparse, fsparse, entries>>

NextPass == IF entries > 1 THEN "values" ELSE "done"

\* analyze_program_interproc analyses the entry function and prepares the next one.
analyze_program_interproc ==
  /\ pass = "ready"
  /\ entries' = entries - 1
  /\ pass' = NextPass
  /\ UNCHANGED <<prog, sparse, bsparse, fsparse, todo, again, inner, outer>>

Done == pass = "done" /\ UNCHANGED vars

Init ==
  /\ prog \in Programs
  /\ sparse = [v \in Value |-> FALSE]
  /\ bsparse = [b \in Block |-> None]
  /\ fsparse = [f \in Func |-> None]
  /\ pass = "values"
  /\ todo = {}
  /\ again = FALSE
  /\ inner = FALSE
  /\ outer = FALSE
  /\ entries = Entries

Next ==
  \/ init_sparse_globals_instrs
  \/ init_sparse_funcs
  \/ init_sparse_blocks
  \/ refine_sparse_blocks
  \/ refine_sparse_funcs
  \/ refine_func
  \/ refine_candidate_sparse_globals
  \/ EndOfPass
  \/ analyze_program_interproc
  \/ Done

Spec == Init /\ [][Next]_vars

------------------------------------------------------------------------------

Ready == pass = "ready"

\* A user of a function that is not sparse.
UsesNonSparseFunc(i) == \E f \in prog.oprs[i] \intersect Func : fsparse[f] = FALSE

UsesNonSparseGlobal(v) == \E g \in prog.oprs[v] \intersect Global : ~sparse[g]

\* The passes undo each other's assumptions: taking the mark of a function away takes
\* those of its callers' instructions, which may end the reason to keep an instruction,
\* a global or another function.  When initialize_analysis ends, no refinement is left.
Settled ==
  Ready => /\ \A f \in Func : fsparse[f] = TRUE => HasPointerInstr(f)
           /\ \A i \in Instr : sparse[i] => ~can_mark_non_sparse_instr(sparse, i)
           /\ \A g \in Global : sparse[g] => IsUsed(g) /\ ~OnlyStoredTo(g)

\* What a sparse instruction works on was not removed under it: an operand computed by an
\* instruction about pointers is sparse too, unless that instruction uses a global or a
\* function that is not sparse.
OperandsKept ==
  Ready => \A i \in Instr : sparse[i] =>
    \A j \in prog.oprs[i] \intersect Instr :
      is_candidate_sparse_instr(j) /\ ~sparse[j] =>
        UsesNonSparseGlobal(j) \/ UsesNonSparseFunc(j)

\* record_new_func_env waits for the blocks that are marked, the engine analyses those it
\* reaches.  The two agree in a function that uses no function without a mark.
MarkedBlocksReached ==
  Ready => \A f \in Func :
    fsparse[f] = TRUE /\ (\A i \in InstrsOf(f) : ~UsesNonSparseFunc(i)) =>
      \A b \in BlocksOf(f) : bsparse[b] = TRUE <=> b \in Reached(f)

\* A step that asks for another round of one of the three loops.
AsksAgain == \/ ~again /\ again'
             \/ ~inner /\ inner'
             \/ pass = "refine_blocks" /\ outer'

\* No mark that was taken away comes back, and a step that asks for another round takes one.
TakesMarks ==
  /\ \A v \in Value : sparse'[v] => sparse[v]
  /\ \A b \in Block : bsparse[b] = FALSE => bsparse'[b] = FALSE
  /\ \A f \in Func : fsparse[f] = FALSE => fsparse'[f] = FALSE
  /\ AsksAgain => <<sparse, bsparse, fsparse>>' # <<sparse, bsparse, fsparse>>

\* Why initialize_analysis ends although its passes keep each other busy: between two entry
\* functions no mark that was taken away comes back, and every step that asks for another
\* round of one of the three loops takes a mark away.
RoundsTakeMarks == [][pass # "values" => TakesMarks]_vars
=============================================================================
