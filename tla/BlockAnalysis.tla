---------------------------- MODULE BlockAnalysis ----------------------------
(***************************************************************************)
(* One analysis session of one function by the forward data-flow engine of *)
(* src/dataflow/dataflow.ml: do_simple_fixpoint seeds a list of working    *)
(* blocks with the entry block, analyze_blocks takes working blocks from   *)
(* it until it is empty, analyze_block runs the transfer function over the *)
(* instructions of one block, and compute_block_input joins what the       *)
(* preceding blocks have produced.                                         *)
(*                                                                         *)
(* The client analysis (module type ForwardDataTransfer) is abstract: a    *)
(* set of data with its order, its join, its transfer functions and the    *)
(* refinement of data by a branch condition are CONSTANTS.  The session    *)
(* has no call to a user function to wait for: it is the intraprocedural   *)
(* mode, or a function whose callees are not sparse.  InterAnalysis adds   *)
(* calls and later sessions.                                               *)
(***************************************************************************)
EXTENDS Naturals

CONSTANTS
  Block,          \* the basic blocks of the function that are sparse
  Size,           \* Size[b]: the number of sparse instructions of block b
  Graphs,         \* the control-flow graphs the function may have
  Data,           \* T.t
  LeastData,      \* T.least_data
  Leq(_, _),      \* T.lequal_data
  Join(_),        \* T.merge_data folded over a non-empty set of data
  Transfer(_, _, _),  \* T.analyze_instr: block, index of the instruction, input
  Refine(_, _, _),    \* T.refine_data_by_predicate on the edge from a block to a block
  Sat(_, _, _),       \* T.is_data_satisfied_predicate on such an edge
  FuncInputs,     \* the data the function may be analysed with
  Solutions(_, _),  \* candidate solutions, per graph and input, to compare results with
  None            \* an absent table entry

\* The instructions: block and index in the block.
Loc == UNION {{b} \X (1 .. Size[b]) : b \in Block}

LastLoc(b) == <<b, Size[b]>>

(***************************************************************************)
(* A graph as the engine sees it: succ is what                             *)
(* get_sparse_succeeding_blocks returns, pred is what                      *)
(* get_sparse_preceding_blocks returns, without the blocks whose last      *)
(* instruction is not sparse and so never has an output.  The blocks of    *)
(* ret and unreachable end in a return and in an unreachable instruction.  *)
(* Several edges are in succ and not in pred: those of an entry block that *)
(* consists of a branch only, which is passed over, those out of an invoke *)
(* that is not sparse, and those of a switch, for which                    *)
(* get_preceding_blocks names the target itself instead of the block with  *)
(* the switch.  LLVM allows no edge to the entry block.                    *)
(***************************************************************************)
IsGraph(g) ==
  /\ g.succ \in [Block -> SUBSET Block]
  /\ g.pred \in [Block -> SUBSET Block]
  /\ g.entry \in Block
  /\ g.ret \subseteq Block
  /\ g.unreachable \subseteq Block \ g.ret
  /\ \A p, b \in Block : p \in g.pred[b] => b \in g.succ[p] \/ p = b
  /\ g.pred[g.entry] = {}
  /\ \A p \in Block : g.entry \notin g.succ[p]
  /\ \A b \in g.ret \union g.unreachable : g.succ[b] = {}

ASSUME BlockAssumption ==
  /\ Size \in [Block -> Nat \ {0}]
  /\ \A g \in Graphs : IsGraph(g)

\* A working block: block wb_block is to be analysed from its instruction
\* wb_instr, whose input is wb_instr_input.
WorkingBlock == [block : Block, instr : Nat, input : Data]

ASSUME NoneAssumption == None \notin Data /\ None \notin WorkingBlock

ASSUME DataAssumption ==
  /\ LeastData \in Data
  /\ FuncInputs \subseteq Data
  /\ \A S \in SUBSET Data : S # {} => Join(S) \in Data
  /\ \A l \in Loc, d \in Data : Transfer(l[1], l[2], d) \in Data
  /\ \A p, b \in Block, d \in Data : Refine(p, b, d) \in Data
  /\ \A p, b \in Block, d \in Data : Sat(p, b, d) \in BOOLEAN

(***************************************************************************)
(* What the soundness of the recorded data rests on: Leq is a preorder,    *)
(* Join is a least upper bound, the transfer functions and the refinement  *)
(* are monotone, and refining data that satisfies the predicate changes    *)
(* nothing.                                                                *)
(***************************************************************************)
ASSUME OrderAssumption ==
  /\ \A d \in Data : Leq(d, d)
  /\ \A d, e, f \in Data : Leq(d, e) /\ Leq(e, f) => Leq(d, f)

ASSUME JoinAssumption ==
  \A S \in SUBSET Data : S # {} =>
    /\ \A d \in S : Leq(d, Join(S))
    /\ \A e \in Data : (\A d \in S : Leq(d, e)) => Leq(Join(S), e)

ASSUME MonotoneAssumption ==
  /\ \A l \in Loc, d, e \in Data :
       Leq(d, e) => Leq(Transfer(l[1], l[2], d), Transfer(l[1], l[2], e))
  /\ \A p, b \in Block, d, e \in Data :
       Leq(d, e) => Leq(Refine(p, b, d), Refine(p, b, e))
  /\ \A p, b \in Block, d \in Data : Sat(p, b, d) => Refine(p, b, d) = d

------------------------------------------------------------------------------
VARIABLES
  graph,     \* the control-flow graph of fenv_func, fixed during the session
  finput,    \* fenv_input, fixed during the session
  wblks,     \* the working blocks still to be analysed
  times,     \* penv_block_local_analyzed_times
  binput,    \* fenv_block_input
  output,    \* fenv_instr_output
  foutput,   \* fenv_output
  cur        \* the position of analyze_instrs in the current block, or None

vars == <<graph, finput, wblks, times, binput, output, foutput, cur>>

\* Faulty variant: two working blocks count as equal when they start at the same index.
SameIndex(w, v) == w.instr = v.instr

\* equal_working_block: the input is not compared.
equal_working_block(w, v) == w.block = v.block /\ w.instr = v.instr

(***************************************************************************)
(* compute_block_input.  A preceding block without an output is left out.  *)
(* The output of the others crosses the edge: when the block has no input  *)
(* yet it is refined by the branch condition; later it is taken as it is   *)
(* when it satisfies the condition, and otherwise the block's old input    *)
(* stands for it.                                                          *)
(***************************************************************************)
\* Faulty variant: the branch condition is ignored.
UnrefinedEdgeData(p, b) == output[LastLoc(p)]

EdgeData(p, b) ==
  LET out == output[LastLoc(p)]
  IN  IF binput[b] = None THEN Refine(p, b, out)
      ELSE IF Sat(p, b, out) THEN out ELSE binput[b]

RecordedPreds(b) == {p \in graph.pred[b] : output[LastLoc(p)] # None}

compute_block_input(b) ==
  IF RecordedPreds(b) = {} THEN finput
  ELSE Join({EdgeData(p, b) : p \in RecordedPreds(b)})

\* The working block that do_simple_fixpoint or analyze_blocks creates for b.
FromTheStart(b) == [block |-> b, instr |-> 1, input |-> compute_block_input(b)]

\* List.insert_dedup of a working block for each block of bs: a block that is
\* already waiting from its first instruction keeps the entry it has.
EnqueueBlocks(bs) ==
  wblks \union {FromTheStart(b) : b \in {c \in bs :
      \A w \in wblks : ~equal_working_block(w, FromTheStart(c))}}

------------------------------------------------------------------------------
Init ==
  /\ graph \in Graphs
  /\ finput \in FuncInputs
  /\ times = [b \in Block |-> 0]
  /\ binput = [b \in Block |-> None]
  /\ output = [l \in Loc |-> None]
  /\ foutput = None
  /\ cur = None
  /\ wblks = {[block |-> graph.entry, instr |-> 1, input |-> finput]}

\* Faulty variant: any working block may come first.
ChooseAnyBlock(w) == w \in wblks

\* choose_working_block sorts by the number of times a block was analysed.  Which
\* one of several least-analysed blocks comes first is left open.
choose_working_block(w) ==
  /\ w \in wblks
  /\ \A v \in wblks : times[w.block] <= times[v.block]

\* analyze_block, up to the first call of analyze_instrs.
StartBlock ==
  /\ cur = None
  /\ \E w \in wblks :
       /\ choose_working_block(w)
       /\ wblks' = wblks \ {w}
       /\ times' = [times EXCEPT ![w.block] = @ + 1]
       /\ binput' = IF w.instr = 1 THEN [binput EXCEPT ![w.block] = w.input]
                    ELSE binput
       /\ cur' = w
  /\ UNCHANGED <<graph, finput, output, foutput>>

CurLoc == <<cur.block, cur.instr>>

InBlock == cur # None /\ cur.instr <= Size[cur.block]

AtUnreachable == cur.block \in graph.unreachable /\ CurLoc = LastLoc(cur.block)

AtRet == cur.block \in graph.ret /\ CurLoc = LastLoc(cur.block)

\* An unreachable instruction ends the block: nothing is recorded for it and the
\* successors are not visited.
analyze_instr_unreachable ==
  /\ InBlock
  /\ AtUnreachable
  /\ cur' = None
  /\ UNCHANGED <<graph, finput, wblks, times, binput, output, foutput>>

\* record_func_output
record_func_output(d) ==
  foutput' = IF foutput = None THEN d ELSE Join({foutput, d})

\* Faulty variant: the comparison of the old and the new output is swapped.
RecordOutputSwapped(d) ==
  LET old == output[CurLoc]
      changed == old = None \/ ~Leq(old, d)
  IN  /\ output' = [output EXCEPT ![CurLoc] = d]
      /\ cur' = IF changed
                THEN [block |-> cur.block, instr |-> cur.instr + 1, input |-> d]
                ELSE None

\* analyze_instrs for one instruction that goes on with data d.  The output is
\* recorded whether or not it is new; the rest of the block is analysed only when
\* it is not below the output recorded before.
RecordOutput(d) ==
  LET old == output[CurLoc]
      changed == old = None \/ ~Leq(d, old)
  IN  /\ output' = [output EXCEPT ![CurLoc] = d]
      /\ cur' = IF changed
                THEN [block |-> cur.block, instr |-> cur.instr + 1, input |-> d]
                ELSE None

analyze_instr ==
  /\ InBlock
  /\ ~AtUnreachable
  /\ LET d == Transfer(cur.block, cur.instr, cur.input)
     IN  /\ RecordOutput(d)
         /\ IF AtRet THEN record_func_output(d) ELSE UNCHANGED foutput
  /\ UNCHANGED <<graph, finput, wblks, times, binput>>

\* Faulty variant: the loop does not go on to the next working block.
EnqueueSuccessorsAgain ==
  /\ cur # None
  /\ cur.instr > Size[cur.block]
  /\ wblks' = EnqueueBlocks(graph.succ[cur.block])
  /\ UNCHANGED <<graph, finput, times, binput, output, foutput, cur>>

\* The end of a round of analyze_blocks whose block changed to its last
\* instruction: every successor is enqueued with the input computed now.
EnqueueSuccessors ==
  /\ cur # None
  /\ cur.instr > Size[cur.block]
  /\ wblks' = EnqueueBlocks(graph.succ[cur.block])
  /\ cur' = None
  /\ UNCHANGED <<graph, finput, times, binput, output, foutput>>

\* The session is over: analyze_blocks returned.
Finished == cur = None /\ wblks = {}

Done == Finished /\ UNCHANGED vars

Next ==
  \/ StartBlock
  \/ analyze_instr
  \/ analyze_instr_unreachable
  \/ EnqueueSuccessors
  \/ Done

Spec == Init /\ [][Next]_vars

\* The engine is one sequential loop: it takes the next step it can take.
FairSpec == Spec /\ WF_vars(Next)

------------------------------------------------------------------------------
TypeOK ==
  /\ IsGraph(graph)
  /\ finput \in Data
  /\ wblks \subseteq WorkingBlock
  /\ times \in [Block -> Nat]
  /\ binput \in [Block -> Data \union {None}]
  /\ output \in [Loc -> Data \union {None}]
  /\ foutput \in Data \union {None}
  /\ cur \in WorkingBlock \union {None}

(***************************************************************************)
(* A solution of the data-flow equations of graph g and function input d:  *)
(* data for the input of every block and the output of every instruction   *)
(* that covers d and is closed under the transfer functions and the edges. *)
(* A block that is enqueued by a block it does not look back to may be     *)
(* given the function's input.                                             *)
(***************************************************************************)
IsSolution(g, d, s) ==
  /\ s.in \in [Block -> Data]
  /\ s.out \in [Loc -> Data]
  /\ Leq(d, s.in[g.entry])
  /\ \A b \in Block : Leq(Transfer(b, 1, s.in[b]), s.out[<<b, 1>>])
  /\ \A l \in Loc : l[2] > 1 =>
       Leq(Transfer(l[1], l[2], s.out[<<l[1], l[2] - 1>>]), s.out[l])
  /\ \A p, b \in Block : p \in g.pred[b] =>
       Leq(Refine(p, b, s.out[LastLoc(p)]), s.in[b])
  /\ \A p, b \in Block : b \in g.succ[p] /\ p \notin g.pred[b] => Leq(d, s.in[b])

CoveredBy(s) ==
  /\ \A b \in Block : binput[b] # None => Leq(binput[b], s.in[b])
  /\ \A l \in Loc : output[l] # None => Leq(output[l], s.out[l])
  /\ \A w \in wblks : w.instr = 1 /\ Leq(w.input, s.in[w.block])

\* Everything analyze_blocks records or keeps waiting is below every solution of the
\* data-flow equations, whatever the order in which the blocks were taken and however
\* stale the inputs in the working list are: the engine never reports a fact
\* that no path of the function produces.
Justified == \A s \in Solutions(graph, finput) : IsSolution(graph, finput, s) => CoveredBy(s)

\* The blocks that enqueue b.
Sources(b) == {p \in Block : b \in graph.succ[p]}

Waiting(b) == \E w \in wblks : w.block = b

Running(b) == cur # None /\ cur.block = b

\* insert_dedup keeps the input a waiting block has, so that input could be outdated
\* when the block's turn comes.  It never is for a block that a single block
\* enqueues: choose_working_block takes the least-analysed block, and the predecessor
\* has always been analysed more often than a successor that still waits.
SinglePredFresh ==
  \A b \in Block, p \in Block, w \in wblks :
    Sources(b) = {p} /\ w.block = b => w.input = compute_block_input(b)

\* The edge from p to b carries data unchanged (an unconditional branch, or the sparse
\* analysis, which ignores branch conditions).
Unconditional(p, b) ==
  \A d \in Data : Sat(p, b, d) /\ Refine(p, b, d) = d

\* When neither the only predecessor p of b nor b itself is queued or running, b was
\* last analysed with an input that covers what p produces: nothing is lost on a
\* path without a join, although analyze_instrs stops in the middle of
\* a block as soon as an output is not new.
NoLossWithoutJoin ==
  \A b \in Block, p \in Block :
    /\ Sources(b) = {p}
    /\ graph.pred[b] = {p}
    /\ Unconditional(p, b)
    /\ ~Waiting(b)
    /\ ~Running(p)
    /\ output[LastLoc(p)] # None
    => binput[b] # None /\ Leq(output[LastLoc(p)], binput[b])

\* When the session is over, no block was forgotten: the entry block was analysed, every
\* successor of a block with an output was, and a block that was analysed has an
\* output for each of its instructions.  record_new_func_env relies on it when
\* it calls the environment completed.
Complete ==
  Finished =>
    /\ binput[graph.entry] # None
    /\ \A b \in Block : binput[b] # None =>
         \A l \in Loc : l[1] = b /\ ~(b \in graph.unreachable /\ l = LastLoc(b))
                          => output[l] # None
    /\ \A p \in Block : output[LastLoc(p)] # None =>
         \A b \in graph.succ[p] : binput[b] # None

\* analyze_blocks comes to an end: the list of working blocks runs empty.
Terminates == <>Finished

=============================================================================
