--------------------------- MODULE DataflowProof ---------------------------
(***************************************************************************)
(* Proofs about the two worklists of the data-flow engine, for every       *)
(* client analysis that meets the named assumptions: BlockAnalysis, one    *)
(* session, for every function and every control-flow graph, and           *)
(* InterAnalysis, the sessions of all functions, for every program.        *)
(***************************************************************************)
EXTENDS InterAnalysis, NatRecursion, SequenceTheorems, TLAPS

------------------------------------------------------------------------------
(* One session: types *)

\* Working blocks start at the first instruction; the position in the current block
\* is one of its instructions or the one past the last, and the input of
\* the next instruction is the output just recorded.
Positions ==
  /\ \A w \in wblks : w.instr = 1
  /\ \A w, v \in wblks : w.block = v.block => w = v
  /\ cur # None => cur.instr \in 1 .. Size[cur.block] + 1
  /\ cur # None /\ cur.instr > 1 => output[<<cur.block, cur.instr - 1>>] = cur.input

LEMMA LocFacts ==
  /\ \A b \in Block : \A i \in 1 .. Size[b] : <<b, i>> \in Loc
  /\ \A l \in Loc : l[1] \in Block /\ l[2] \in 1 .. Size[l[1]] /\ l = <<l[1], l[2]>>
  /\ \A b \in Block : Size[b] \in Nat /\ Size[b] >= 1
  /\ \A b \in Block : LastLoc(b) \in Loc
BY BlockAssumption DEF Loc, LastLoc

LEMMA InputType ==
  ASSUME TypeOK, NEW b \in Block
  PROVE  compute_block_input(b) \in Data
<1> DEFINE P == RecordedPreds(b)
           E == {EdgeData(p, b) : p \in P}
<1>1. ASSUME NEW p \in P PROVE EdgeData(p, b) \in Data
  <2>1. p \in Block /\ output[LastLoc(p)] \in Data
    BY <1>1, LocFacts DEF RecordedPreds, TypeOK, IsGraph
  <2>2. QED BY <2>1, DataAssumption DEF EdgeData, TypeOK
<1>2. CASE P = {}
  BY <1>2 DEF compute_block_input, TypeOK
<1>3. CASE P # {}
  <2>1. E \in SUBSET Data /\ E # {} BY <1>1, <1>3
  <2>2. Join(E) \in Data BY <2>1, DataAssumption
  <2>3. QED BY <1>3, <2>2 DEF compute_block_input
<1>4. QED BY <1>2, <1>3

LEMMA EnqueueFacts ==
  ASSUME TypeOK, NEW bs \in SUBSET Block
  PROVE  /\ EnqueueBlocks(bs) \subseteq WorkingBlock
         /\ wblks \subseteq EnqueueBlocks(bs)
         /\ \A w \in EnqueueBlocks(bs) : w \in wblks \/
              \E b \in bs : /\ w = FromTheStart(b)
                            /\ \A v \in wblks : ~(v.block = b /\ v.instr = 1)
         /\ \A b \in bs : \E w \in EnqueueBlocks(bs) : w.block = b /\ w.instr = 1
<1> DEFINE New == {c \in bs : \A w \in wblks : ~equal_working_block(w, FromTheStart(c))}
<1>1. \A b \in bs : FromTheStart(b) \in WorkingBlock /\ FromTheStart(b).block = b
                     /\ FromTheStart(b).instr = 1
  BY InputType DEF FromTheStart, WorkingBlock
<1>2. EnqueueBlocks(bs) = wblks \union {FromTheStart(b) : b \in New}
  BY DEF EnqueueBlocks
<1>3. \A c \in bs : c \in New <=> \A v \in wblks : ~(v.block = c /\ v.instr = 1)
  BY <1>1 DEF equal_working_block
<1>4. EnqueueBlocks(bs) \subseteq WorkingBlock
  BY <1>1, <1>2 DEF TypeOK
<1>5. \A b \in bs : \E w \in EnqueueBlocks(bs) : w.block = b /\ w.instr = 1
  BY <1>1, <1>2, <1>3
<1>6. QED BY <1>2, <1>3, <1>4, <1>5

\* A block that was analysed to its end has an output for its last instruction.
LEMMA EndOfBlock ==
  ASSUME TypeOK, Positions, EnqueueSuccessors
  PROVE  /\ cur # None /\ cur.block \in Block /\ cur.instr = Size[cur.block] + 1
         /\ graph.succ[cur.block] \in SUBSET Block
         /\ output[LastLoc(cur.block)] # None
<1>1. cur # None /\ cur \in WorkingBlock
  BY DEF EnqueueSuccessors, TypeOK
<1>2. cur.block \in Block /\ cur.input \in Data
  BY <1>1 DEF WorkingBlock
<1>3. Size[cur.block] \in Nat /\ Size[cur.block] >= 1
  BY <1>2, LocFacts
<1>4. cur.instr \in 1 .. Size[cur.block] + 1 /\ cur.instr > Size[cur.block]
  BY <1>1 DEF Positions, EnqueueSuccessors
<1>5. cur.instr = Size[cur.block] + 1 /\ cur.instr > 1 /\ cur.instr - 1 = Size[cur.block]
  BY <1>3, <1>4
<1>6. output[LastLoc(cur.block)] = cur.input
  BY <1>1, <1>5 DEF Positions, LastLoc
<1>7. graph.succ[cur.block] \in SUBSET Block
  BY <1>2 DEF TypeOK, IsGraph
<1>8. QED BY <1>1, <1>2, <1>5, <1>6, <1>7, NoneAssumption

(***************************************************************************)
(* Type correctness: the tables of the engine hold data of the analysis    *)
(* and the working list holds well-formed working blocks.                  *)
(***************************************************************************)
LEMMA TypeInit == Init => TypeOK /\ Positions
<1> SUFFICES ASSUME Init PROVE TypeOK /\ Positions
  OBVIOUS
<1>1. IsGraph(graph) /\ graph.entry \in Block /\ finput \in Data
  BY BlockAssumption, DataAssumption DEF Init, IsGraph
<1>2. QED BY <1>1, NoneAssumption DEF Init, TypeOK, Positions, WorkingBlock

LEMMA TypeStep == TypeOK /\ Positions /\ [Next]_vars => TypeOK' /\ Positions'
<1> SUFFICES ASSUME TypeOK, Positions, [Next]_vars PROVE TypeOK' /\ Positions'
  OBVIOUS
<1> USE NoneAssumption
<1>1. CASE StartBlock
  <2>1. PICK w \in wblks :
          /\ wblks' = wblks \ {w}
          /\ times' = [times EXCEPT ![w.block] = @ + 1]
          /\ binput' = IF w.instr = 1 THEN [binput EXCEPT ![w.block] = w.input]
                       ELSE binput
          /\ cur' = w
    BY <1>1 DEF StartBlock
  <2>2. w \in WorkingBlock /\ w.block \in Block /\ w.input \in Data /\ w.instr = 1
    BY DEF TypeOK, Positions, WorkingBlock
  <2>3. TypeOK'
    BY <1>1, <2>1, <2>2 DEF StartBlock, TypeOK
  <2>4. Positions'
    BY <1>1, <2>1, <2>2, LocFacts DEF StartBlock, Positions
  <2>5. QED BY <2>3, <2>4
<1>2. CASE analyze_instr
  <2> DEFINE d == Transfer(cur.block, cur.instr, cur.input)
  <2>1. /\ cur \in WorkingBlock /\ cur.block \in Block /\ cur.input \in Data
        /\ cur.instr \in 1 .. Size[cur.block] /\ CurLoc \in Loc
    BY <1>2, LocFacts DEF analyze_instr, InBlock, TypeOK, Positions, WorkingBlock, CurLoc
  <2>2. d \in Data
    BY <2>1, DataAssumption DEF CurLoc
  <2>3. output' = [output EXCEPT ![CurLoc] = d]
    BY <1>2 DEF analyze_instr, RecordOutput
  <2>4. cur' \in {None, [block |-> cur.block, instr |-> cur.instr + 1, input |-> d]}
    BY <1>2 DEF analyze_instr, RecordOutput
  <2>5. foutput' \in Data \union {None}
    <3>1. foutput # None => Join({foutput, d}) \in Data
      BY <2>2, DataAssumption DEF TypeOK
    <3>2. QED BY <1>2, <2>2, <3>1 DEF analyze_instr, record_func_output, TypeOK
  <2>6. [block |-> cur.block, instr |-> cur.instr + 1, input |-> d] \in WorkingBlock
    BY <2>1, <2>2 DEF WorkingBlock
  <2>7. TypeOK'
    BY <1>2, <2>1, <2>2, <2>3, <2>4, <2>5, <2>6 DEF analyze_instr, TypeOK
  <2>8. Positions'
    <3>1. cur' # None => /\ cur'.block = cur.block
                         /\ cur'.instr = cur.instr + 1
                         /\ cur'.input = d
      BY <2>1, <2>4 DEF WorkingBlock
    <3>2. cur' # None => output'[<<cur'.block, cur'.instr - 1>>] = cur'.input
      <4>1. cur' # None => <<cur'.block, cur'.instr - 1>> = CurLoc
        BY <2>1, <3>1, LocFacts DEF CurLoc
      <4>2. output'[CurLoc] = d
        BY <2>1, <2>3 DEF TypeOK
      <4>3. QED BY <3>1, <4>1, <4>2
    <3>3. cur' # None => cur'.instr \in 1 .. Size[cur'.block] + 1
      BY <2>1, <3>1, LocFacts
    <3>4. QED BY <1>2, <3>2, <3>3 DEF analyze_instr, Positions
  <2>9. QED BY <2>7, <2>8
<1>3. CASE analyze_instr_unreachable
  BY <1>3 DEF analyze_instr_unreachable, TypeOK, Positions
<1>4. CASE EnqueueSuccessors
  <2>1. cur.block \in Block /\ graph.succ[cur.block] \in SUBSET Block
    BY <1>4 DEF EnqueueSuccessors, TypeOK, WorkingBlock, IsGraph
  <2>2. wblks' = EnqueueBlocks(graph.succ[cur.block]) BY <1>4 DEF EnqueueSuccessors
  <2>3. TypeOK'
    BY <1>4, <2>1, <2>2, EnqueueFacts DEF EnqueueSuccessors, TypeOK
  <2>4. \A b \in Block : FromTheStart(b).block = b /\ FromTheStart(b).instr = 1
    BY DEF FromTheStart
  <2>5. \A w \in wblks' : w.instr = 1
    BY <2>1, <2>2, <2>4, EnqueueFacts DEF Positions
  <2>6. ASSUME NEW w \in wblks', NEW v \in wblks', w.block = v.block PROVE w = v
    BY <2>1, <2>2, <2>4, <2>6, EnqueueFacts DEF Positions
  <2>7. QED BY <1>4, <2>3, <2>5, <2>6 DEF EnqueueSuccessors, Positions
<1>5. CASE UNCHANGED vars
  BY <1>5 DEF vars, TypeOK, Positions
<1>6. QED BY <1>1, <1>2, <1>3, <1>4, <1>5 DEF Next, Done

\* The tables and the working list always hold well-typed data.
THEOREM TypeCorrect == Spec => []TypeOK
<1>1. Spec => [](TypeOK /\ Positions)
  BY TypeInit, TypeStep, PTL DEF Spec
<1>2. QED BY <1>1, PTL

------------------------------------------------------------------------------
(* One session: everything recorded lies below every solution *)

\* The data a solution assigns to the point before the next instruction of the
\* current block.
SolutionAt(s) == IF cur.instr = 1 THEN s.in[cur.block]
                 ELSE s.out[<<cur.block, cur.instr - 1>>]

\* CoveredBy, extended to the data that analyze_instrs carries.
Covered(s) == CoveredBy(s) /\ (cur # None => Leq(cur.input, SolutionAt(s)))

\* What crosses an edge is below the solution's input of the block it leads to.
LEMMA InputCovered ==
  ASSUME TypeOK, NEW s, IsSolution(graph, finput, s), CoveredBy(s), NEW b \in Block,
         RecordedPreds(b) # {} \/ Leq(finput, s.in[b])
  PROVE  Leq(compute_block_input(b), s.in[b])
<1> DEFINE P == RecordedPreds(b)
           E == {EdgeData(p, b) : p \in P}
<1>0. s.in[b] \in Data BY DEF IsSolution
<1>1. ASSUME NEW p \in P PROVE EdgeData(p, b) \in Data /\ Leq(EdgeData(p, b), s.in[b])
  <2> DEFINE out == output[LastLoc(p)]
             sout == s.out[LastLoc(p)]
  <2>1. p \in Block /\ p \in graph.pred[b] /\ out \in Data /\ LastLoc(p) \in Loc
    BY <1>1, LocFacts DEF RecordedPreds, TypeOK, IsGraph
  <2>2. sout \in Data /\ Leq(out, sout)
    BY <1>1, <2>1 DEF IsSolution, CoveredBy, RecordedPreds
  <2>3. Refine(p, b, out) \in Data /\ Refine(p, b, sout) \in Data
    BY <2>1, <2>2, DataAssumption
  <2>4. Leq(Refine(p, b, out), Refine(p, b, sout))
    BY <2>1, <2>2, MonotoneAssumption
  <2>5. Leq(Refine(p, b, sout), s.in[b])
    BY <2>1 DEF IsSolution
  <2>6. Leq(Refine(p, b, out), s.in[b])
    BY <1>0, <2>3, <2>4, <2>5, OrderAssumption
  <2>7. Sat(p, b, out) => Refine(p, b, out) = out
    BY <2>1, MonotoneAssumption
  <2>8. binput[b] # None => binput[b] \in Data /\ Leq(binput[b], s.in[b])
    BY DEF TypeOK, CoveredBy
  <2>9. QED BY <2>1, <2>3, <2>6, <2>7, <2>8 DEF EdgeData
<1>2. CASE P = {} BY <1>2 DEF compute_block_input
<1>3. CASE P # {}
  <2>1. E \in SUBSET Data /\ E # {} BY <1>1, <1>3
  <2>2. \A d \in E : Leq(d, s.in[b]) BY <1>1
  <2>3. Leq(Join(E), s.in[b]) BY <1>0, <2>1, <2>2, JoinAssumption
  <2>4. QED BY <1>3, <2>3 DEF compute_block_input
<1>4. QED BY <1>2, <1>3

LEMMA CoveredInit ==
  ASSUME Init, NEW s, IsSolution(graph, finput, s) PROVE Covered(s)
BY BlockAssumption DEF Init, Covered, CoveredBy, IsSolution

LEMMA CoveredStep ==
  ASSUME TypeOK, Positions, [Next]_vars, NEW s, IsSolution(graph, finput, s), Covered(s)
  PROVE  Covered(s)'
<1> USE NoneAssumption
<1>1. CASE StartBlock
  <2>1. PICK w \in wblks :
          /\ wblks' = wblks \ {w}
          /\ binput' = IF w.instr = 1 THEN [binput EXCEPT ![w.block] = w.input]
                       ELSE binput
          /\ cur' = w
    BY <1>1 DEF StartBlock
  <2>2. /\ w.block \in Block /\ w.instr = 1 /\ Leq(w.input, s.in[w.block])
    BY DEF TypeOK, Positions, WorkingBlock, Covered, CoveredBy
  <2>3. output' = output BY <1>1 DEF StartBlock
  <2>4. \A b \in Block : binput'[b] # None => Leq(binput'[b], s.in[b])
    BY <2>1, <2>2 DEF Covered, CoveredBy, TypeOK
  <2>5. QED BY <2>1, <2>2, <2>3, <2>4 DEF Covered, CoveredBy, SolutionAt
<1>2. CASE analyze_instr
  <2> DEFINE d == Transfer(cur.block, cur.instr, cur.input)
             e == Transfer(cur.block, cur.instr, SolutionAt(s))
  <2>1. /\ cur # None /\ cur.block \in Block /\ cur.input \in Data
        /\ cur.instr \in 1 .. Size[cur.block] /\ CurLoc \in Loc
    BY <1>2, LocFacts DEF analyze_instr, InBlock, TypeOK, Positions, WorkingBlock, CurLoc
  <2>2. SolutionAt(s) \in Data
    <3>1. cur.instr # 1 => <<cur.block, cur.instr - 1>> \in Loc
      BY <2>1, LocFacts
    <3>2. QED BY <2>1, <3>1 DEF SolutionAt, IsSolution
  <2>3. Leq(d, e) /\ d \in Data /\ e \in Data
    BY <2>1, <2>2, MonotoneAssumption, DataAssumption DEF Covered, CurLoc
  <2>4. Leq(e, s.out[CurLoc]) /\ s.out[CurLoc] \in Data
    BY <2>1 DEF IsSolution, SolutionAt, CurLoc
  <2>5. Leq(d, s.out[CurLoc])
    BY <2>3, <2>4, OrderAssumption
  <2>6. output' = [output EXCEPT ![CurLoc] = d]
    BY <1>2 DEF analyze_instr, RecordOutput
  <2>7. cur' \in {None, [block |-> cur.block, instr |-> cur.instr + 1, input |-> d]}
    BY <1>2 DEF analyze_instr, RecordOutput
  <2>8. \A l \in Loc : output'[l] # None => Leq(output'[l], s.out[l])
    BY <2>1, <2>5, <2>6 DEF Covered, CoveredBy, TypeOK
  <2>9. cur' # None => Leq(cur'.input, SolutionAt(s)')
    <3>1. cur' # None => /\ cur'.block = cur.block
                         /\ cur'.instr = cur.instr + 1
                         /\ cur'.input = d
      BY <2>1, <2>7
    <3>2. cur' # None => SolutionAt(s)' = s.out[CurLoc]
      BY <2>1, <3>1 DEF SolutionAt, CurLoc
    <3>3. QED BY <2>5, <3>1, <3>2
  <2>10. UNCHANGED <<wblks, binput>> BY <1>2 DEF analyze_instr
  <2>11. QED BY <2>8, <2>9, <2>10 DEF Covered, CoveredBy
<1>3. CASE analyze_instr_unreachable
  BY <1>3 DEF analyze_instr_unreachable, Covered, CoveredBy
<1>4. CASE EnqueueSuccessors
  <2> DEFINE bs == graph.succ[cur.block]
  <2>1. cur # None /\ cur.block \in Block /\ bs \in SUBSET Block
    BY <1>4, EndOfBlock
  <2>2. output[LastLoc(cur.block)] # None
    BY <1>4, EndOfBlock
  <2>3. ASSUME NEW b \in bs
        PROVE  RecordedPreds(b) # {} \/ Leq(finput, s.in[b])
    <3>1. b \in Block BY <2>1, <2>3
    <3>2. CASE cur.block \in graph.pred[b]
      BY <2>2, <3>2 DEF RecordedPreds
    <3>3. CASE cur.block \notin graph.pred[b]
      BY <2>1, <2>3, <3>1, <3>3 DEF IsSolution
    <3>4. QED BY <3>2, <3>3
  <2>4. ASSUME NEW b \in bs
        PROVE  /\ FromTheStart(b).instr = 1
               /\ FromTheStart(b).block = b
               /\ Leq(FromTheStart(b).input, s.in[b])
    BY <2>1, <2>3, <2>4, InputCovered DEF FromTheStart, Covered
  <2>5. \A w \in wblks' : w.instr = 1 /\ Leq(w.input, s.in[w.block])
    BY <1>4, <2>1, <2>4, EnqueueFacts DEF EnqueueSuccessors, Covered, CoveredBy
  <2>6. UNCHANGED <<binput, output>> /\ cur' = None BY <1>4 DEF EnqueueSuccessors
  <2>7. QED BY <2>5, <2>6 DEF Covered, CoveredBy
<1>5. CASE UNCHANGED vars
  BY <1>5 DEF vars, Covered, CoveredBy, SolutionAt
<1>6. QED BY <1>1, <1>2, <1>3, <1>4, <1>5 DEF Next, Done

\* Justified, with the data in flight.
JustifiedInv == \A s \in Solutions(graph, finput) : IsSolution(graph, finput, s) => Covered(s)

LEMMA GraphFixed == [Next]_vars => graph' = graph /\ finput' = finput
BY DEF Next, vars, StartBlock, analyze_instr, analyze_instr_unreachable,
       EnqueueSuccessors, Done

LEMMA SolutionFixed ==
  ASSUME [Next]_vars, NEW s PROVE IsSolution(graph, finput, s)' <=> IsSolution(graph, finput, s)
BY GraphFixed DEF IsSolution

\* The engine reports nothing that some solution of the data-flow equations does not
\* contain, in whatever order analyze_blocks takes the blocks.
THEOREM JustifiedCorrect == Spec => []Justified
<1>1. Init => JustifiedInv
  BY CoveredInit DEF JustifiedInv
<1>2. TypeOK /\ Positions /\ JustifiedInv /\ [Next]_vars => JustifiedInv'
  <2> SUFFICES ASSUME TypeOK, Positions, JustifiedInv, [Next]_vars,
                      NEW s \in Solutions(graph', finput'), IsSolution(graph, finput, s)'
               PROVE  Covered(s)'
    BY DEF JustifiedInv
  <2>1. s \in Solutions(graph, finput) /\ IsSolution(graph, finput, s)
    BY GraphFixed, SolutionFixed
  <2>2. QED BY <2>1, CoveredStep DEF JustifiedInv
<1>3. JustifiedInv => Justified
  BY DEF JustifiedInv, Justified, Covered
<1>4. QED BY <1>1, <1>2, <1>3, TypeInit, TypeStep, PTL DEF Spec

------------------------------------------------------------------------------
(* The order of the blocks: what a single predecessor passes on is never stale *)

\* The predecessor of a block that nothing else enqueues has been analysed at least as
\* often, and more often while the block waits or the predecessor runs; while the block
\* waits, neither of the two runs.
TimesOrdered ==
  \A b, p \in Block : Sources(b) = {p} =>
    /\ times[b] <= times[p]
    /\ Waiting(b) \/ Running(p) => times[b] < times[p]
    /\ ~(Waiting(b) /\ (Running(p) \/ Running(b)))

FreshInv == TimesOrdered /\ SinglePredFresh

LEMMA SourcesFacts ==
  ASSUME TypeOK, NEW b \in Block, NEW p \in Block, Sources(b) = {p}
  PROVE  /\ b \in graph.succ[p]
         /\ b # graph.entry
         /\ \A q \in Block : b \in graph.succ[q] => q = p
         /\ graph.pred[b] \subseteq {p, b}
BY DEF Sources, TypeOK, IsGraph

\* The input of a block depends on its own old input and its predecessors' outputs only.
LEMMA InputStable ==
  ASSUME TypeOK, NEW b \in Block, graph' = graph, finput' = finput, binput'[b] = binput[b],
         \A q \in graph.pred[b] : output'[LastLoc(q)] = output[LastLoc(q)]
  PROVE  compute_block_input(b)' = compute_block_input(b)
<1>1. RecordedPreds(b)' = RecordedPreds(b)
  BY DEF RecordedPreds
<1>2. \A q \in RecordedPreds(b) : EdgeData(q, b)' = EdgeData(q, b)
  BY DEF EdgeData, RecordedPreds
<1>3. {EdgeData(q, b) : q \in RecordedPreds(b)}' = {EdgeData(q, b) : q \in RecordedPreds(b)}
  BY <1>1, <1>2
<1>4. QED BY <1>1, <1>3 DEF compute_block_input

LEMMA FreshInit == Init => FreshInv
<1> SUFFICES ASSUME Init PROVE FreshInv OBVIOUS
<1>1. TypeOK BY TypeInit
<1>2. \A b, p \in Block : Sources(b) = {p} => b # graph.entry
  BY <1>1, SourcesFacts
<1>3. TimesOrdered
  BY <1>2 DEF Init, TimesOrdered, Waiting, Running
<1>4. SinglePredFresh
  BY <1>2 DEF Init, SinglePredFresh
<1>5. QED BY <1>3, <1>4 DEF FreshInv

LEMMA FreshStep == TypeOK /\ Positions /\ FreshInv /\ [Next]_vars => FreshInv'
<1> SUFFICES ASSUME TypeOK, Positions, FreshInv, [Next]_vars PROVE FreshInv'
  OBVIOUS
<1> USE NoneAssumption
<1>0. graph' = graph /\ finput' = finput /\ \A b \in Block : Sources(b)' = Sources(b)
  BY GraphFixed DEF Sources
<1>1. CASE StartBlock
  <2>1. PICK w \in wblks :
          /\ choose_working_block(w)
          /\ wblks' = wblks \ {w}
          /\ times' = [times EXCEPT ![w.block] = @ + 1]
          /\ binput' = IF w.instr = 1 THEN [binput EXCEPT ![w.block] = w.input]
                       ELSE binput
          /\ cur' = w
    BY <1>1 DEF StartBlock
  <2>2. w.block \in Block /\ w.instr = 1 /\ w \in WorkingBlock
    BY DEF TypeOK, Positions, WorkingBlock
  <2>3. cur = None /\ output' = output BY <1>1 DEF StartBlock
  <2>4. \A v \in wblks' : v \in wblks /\ v.block # w.block /\ v.block \in Block
    BY <2>1 DEF Positions, TypeOK, WorkingBlock
  <2>5. TimesOrdered'
    <3> SUFFICES ASSUME NEW b \in Block, NEW p \in Block, Sources(b) = {p}
                 PROVE  /\ times'[b] <= times'[p]
                        /\ Waiting(b)' \/ Running(p)' => times'[b] < times'[p]
                        /\ ~(Waiting(b)' /\ (Running(p)' \/ Running(b)'))
      BY <1>0 DEF TimesOrdered
    <3>1. /\ times[b] \in Nat /\ times[p] \in Nat
          /\ times[b] <= times[p]
          /\ Waiting(b) => times[b] < times[p]
      BY DEF FreshInv, TimesOrdered, TypeOK
    <3>2. Waiting(b)' => Waiting(b) /\ b # w.block
      BY <2>4 DEF Waiting
    <3>3. (Running(p)' <=> p = w.block) /\ (Running(b)' <=> b = w.block)
      BY <2>1, <2>2 DEF Running
    <3>4. CASE w.block = p /\ w.block # b
      <4>1. ~Waiting(b)
        <5>1. \A v \in wblks : times[p] <= times[v.block]
          BY <2>1, <3>4 DEF choose_working_block
        <5>2. Waiting(b) => times[p] <= times[b] BY <5>1 DEF Waiting
        <5>3. QED BY <3>1, <5>2
      <4>2. times'[b] = times[b] /\ times'[p] = times[p] + 1
        BY <2>1, <3>4 DEF TypeOK
      <4>3. QED BY <3>1, <3>2, <3>3, <4>1, <4>2
    <3>5. CASE w.block = b
      <4>1. Waiting(b) BY <3>5 DEF Waiting
      <4>2. b # p BY <3>1, <4>1
      <4>3. times'[b] = times[b] + 1 /\ times'[p] = times[p]
        BY <2>1, <3>5, <4>2 DEF TypeOK
      <4>4. QED BY <3>1, <3>2, <3>3, <3>5, <4>1, <4>2, <4>3
    <3>6. CASE w.block # b /\ w.block # p
      <4>1. times'[b] = times[b] /\ times'[p] = times[p]
        BY <2>1, <3>6 DEF TypeOK
      <4>2. QED BY <3>1, <3>2, <3>3, <3>6, <4>1
    <3>7. QED BY <3>4, <3>5, <3>6
  <2>6. SinglePredFresh'
    <3> SUFFICES ASSUME NEW b \in Block, NEW p \in Block, NEW v \in wblks',
                        Sources(b) = {p}, v.block = b
                 PROVE  v.input = compute_block_input(b)'
      BY <1>0 DEF SinglePredFresh
    <3>1. v \in wblks /\ b # w.block BY <2>4
    <3>2. binput'[b] = binput[b] BY <2>1, <2>2, <3>1 DEF TypeOK
    <3>3. compute_block_input(b)' = compute_block_input(b)
      BY <1>0, <2>3, <3>2, InputStable
    <3>4. QED BY <3>1, <3>3 DEF FreshInv, SinglePredFresh
  <2>7. QED BY <2>5, <2>6 DEF FreshInv
<1>2. CASE analyze_instr
  <2>1. /\ cur # None /\ cur.block \in Block /\ CurLoc \in Loc /\ cur \in WorkingBlock
    BY <1>2, LocFacts DEF analyze_instr, InBlock, TypeOK, Positions, WorkingBlock, CurLoc
  <2>2. UNCHANGED <<wblks, times, binput>> BY <1>2 DEF analyze_instr
  <2>3. cur' # None => cur'.block = cur.block
    BY <1>2, <2>1 DEF analyze_instr, RecordOutput
  <2>4. \A b \in Block : Waiting(b)' = Waiting(b) /\ (Running(b)' => Running(b))
    BY <2>1, <2>2, <2>3 DEF Waiting, Running
  <2>5. TimesOrdered' BY <1>0, <2>2, <2>4 DEF FreshInv, TimesOrdered
  <2>6. \A q \in Block : q # cur.block => output'[LastLoc(q)] = output[LastLoc(q)]
    BY <1>2, <2>1, LocFacts
       DEF analyze_instr, RecordOutput, TypeOK, LastLoc, CurLoc
  <2>7. SinglePredFresh'
    <3> SUFFICES ASSUME NEW b \in Block, NEW p \in Block, NEW w \in wblks',
                        Sources(b) = {p}, w.block = b
                 PROVE  w.input = compute_block_input(b)'
      BY <1>0 DEF SinglePredFresh
    <3>1. w \in wblks /\ Waiting(b) BY <2>2 DEF Waiting
    <3>2. p # cur.block /\ b # cur.block
      BY <2>1, <3>1 DEF FreshInv, TimesOrdered, Running
    <3>3. \A q \in graph.pred[b] : output'[LastLoc(q)] = output[LastLoc(q)]
      BY <2>6, <3>2, SourcesFacts
    <3>4. compute_block_input(b)' = compute_block_input(b)
      BY <1>0, <2>2, <3>3, InputStable
    <3>5. QED BY <3>1, <3>4 DEF FreshInv, SinglePredFresh
  <2>8. QED BY <2>5, <2>7 DEF FreshInv
<1>3. CASE analyze_instr_unreachable
  <2>1. UNCHANGED <<wblks, times, binput, output>> /\ cur' = None
    BY <1>3 DEF analyze_instr_unreachable
  <2>2. TimesOrdered'
    BY <1>0, <2>1 DEF FreshInv, TimesOrdered, Waiting, Running
  <2>3. \A b \in Block : compute_block_input(b)' = compute_block_input(b)
    BY <1>0, <2>1, InputStable
  <2>4. QED BY <1>0, <2>1, <2>2, <2>3 DEF FreshInv, SinglePredFresh
<1>4. CASE EnqueueSuccessors
  <2>1. UNCHANGED <<times, binput, output>> /\ cur' = None
    BY <1>4 DEF EnqueueSuccessors
  <2>2. cur # None /\ cur.block \in Block /\ graph.succ[cur.block] \in SUBSET Block
    BY <1>4, EndOfBlock
  <2>3. \A b \in Block : compute_block_input(b)' = compute_block_input(b)
    BY <1>0, <2>1, InputStable
  <2>4. \A w \in wblks' : w \in wblks \/
          \E b \in graph.succ[cur.block] : w = FromTheStart(b)
    BY <1>4, <2>2, EnqueueFacts DEF EnqueueSuccessors
  <2>5. \A b \in Block : FromTheStart(b).block = b
                         /\ FromTheStart(b).input = compute_block_input(b)
    BY DEF FromTheStart
  <2>6. \A b \in Block : Waiting(b)' => Waiting(b) \/ b \in graph.succ[cur.block]
    BY <2>2, <2>4, <2>5 DEF Waiting
  <2>7. TimesOrdered'
    <3> SUFFICES ASSUME NEW b \in Block, NEW p \in Block, Sources(b) = {p}
                 PROVE  /\ times[b] <= times[p]
                        /\ Waiting(b)' => times[b] < times[p]
      BY <1>0, <2>1 DEF TimesOrdered, Running
    <3>1. b \in graph.succ[cur.block] => Running(p)
      BY <2>2, SourcesFacts DEF Running
    <3>2. QED BY <2>6, <3>1 DEF FreshInv, TimesOrdered
  <2>8. SinglePredFresh'
    BY <1>0, <2>2, <2>3, <2>4, <2>5 DEF FreshInv, SinglePredFresh
  <2>9. QED BY <2>7, <2>8 DEF FreshInv
<1>5. CASE UNCHANGED vars
  <2>1. \A b \in Block : compute_block_input(b)' = compute_block_input(b)
    BY <1>5, InputStable DEF vars
  <2>2. QED BY <1>0, <1>5, <2>1
            DEF vars, FreshInv, TimesOrdered, SinglePredFresh, Waiting, Running
<1>6. QED BY <1>1, <1>2, <1>3, <1>4, <1>5 DEF Next, Done

\* A working block that only one block can enqueue always holds the input that
\* compute_block_input would compute now, although insert_dedup never refreshes it.
THEOREM SinglePredFreshCorrect == Spec => []SinglePredFresh
<1>1. Spec => [](TypeOK /\ Positions /\ FreshInv)
  BY TypeInit, TypeStep, FreshInit, FreshStep, PTL DEF Spec
<1>2. FreshInv => SinglePredFresh BY DEF FreshInv
<1>3. QED BY <1>1, <1>2, PTL

------------------------------------------------------------------------------
(* Nothing is lost on a path without a join *)

PlainEdge(p, b) == Sources(b) = {p} /\ graph.pred[b] = {p} /\ Unconditional(p, b)

\* NoLossWithoutJoin, extended to the time when p runs: until p is analysed to its end
\* again, the input of b covers what p produced before.
NoLossInv ==
  \A b, p \in Block :
    /\ PlainEdge(p, b)
    /\ output[LastLoc(p)] # None
    /\ ~(Running(p) /\ cur.instr > Size[p])
    => Waiting(b) \/ (binput[b] # None /\ Leq(output[LastLoc(p)], binput[b]))

\* Over a plain edge the input is the join of the one output.
LEMMA PlainInput ==
  ASSUME TypeOK, NEW b \in Block, NEW p \in Block, PlainEdge(p, b),
         output[LastLoc(p)] # None
  PROVE  Leq(output[LastLoc(p)], compute_block_input(b))
<1> DEFINE out == output[LastLoc(p)]
<1>1. out \in Data BY LocFacts DEF TypeOK
<1>2. RecordedPreds(b) = {p} BY DEF RecordedPreds, PlainEdge
<1>3. EdgeData(p, b) = out
  BY <1>1 DEF EdgeData, PlainEdge, Unconditional
<1>4. {EdgeData(q, b) : q \in RecordedPreds(b)} = {out} BY <1>2, <1>3
<1>5. compute_block_input(b) = Join({out}) BY <1>2, <1>4 DEF compute_block_input
<1>6. Leq(out, Join({out})) BY <1>1, JoinAssumption
<1>7. QED BY <1>5, <1>6

LEMMA NoLossStep ==
  TypeOK /\ Positions /\ FreshInv /\ NoLossInv /\ [Next]_vars => NoLossInv'
<1> SUFFICES ASSUME TypeOK, Positions, FreshInv, NoLossInv, [Next]_vars,
                    NEW b \in Block, NEW p \in Block, PlainEdge(p, b),
                    output'[LastLoc(p)] # None,
                    ~(Running(p)' /\ cur'.instr > Size[p])
             PROVE  Waiting(b)' \/ (binput'[b] # None /\ Leq(output'[LastLoc(p)], binput'[b]))
  BY GraphFixed DEF NoLossInv, PlainEdge, Sources, Unconditional
<1> USE NoneAssumption
<1>a. Sources(b) = {p} /\ b \in graph.succ[p] BY SourcesFacts DEF PlainEdge
<1>b. LastLoc(p) \in Loc /\ Size[p] \in Nat BY LocFacts
<1>1. CASE StartBlock
  <2>1. PICK w \in wblks :
          /\ wblks' = wblks \ {w}
          /\ binput' = IF w.instr = 1 THEN [binput EXCEPT ![w.block] = w.input]
                       ELSE binput
          /\ cur' = w
    BY <1>1 DEF StartBlock
  <2>2. /\ w.block \in Block /\ w.instr = 1 /\ w.input \in Data
    BY DEF TypeOK, Positions, WorkingBlock
  <2>3. cur = None /\ output' = output BY <1>1 DEF StartBlock
  <2>4. Waiting(b) \/ (binput[b] # None /\ Leq(output[LastLoc(p)], binput[b]))
    BY <2>3 DEF NoLossInv, Running
  <2>5. CASE w.block = b
    <3>1. w.input = compute_block_input(b)
      BY <1>a, <2>5 DEF FreshInv, SinglePredFresh
    <3>2. binput'[b] = w.input BY <2>1, <2>2, <2>5 DEF TypeOK
    <3>3. Leq(output[LastLoc(p)], compute_block_input(b))
      BY <2>3, PlainInput
    <3>4. QED BY <2>2, <2>3, <3>1, <3>2, <3>3
  <2>6. CASE w.block # b
    <3>1. binput'[b] = binput[b] BY <2>1, <2>2, <2>6 DEF TypeOK
    <3>2. Waiting(b) => Waiting(b)' BY <2>1, <2>6 DEF Waiting
    <3>3. QED BY <2>3, <2>4, <3>1, <3>2
  <2>7. QED BY <2>5, <2>6
<1>2. CASE analyze_instr
  <2> DEFINE d == Transfer(cur.block, cur.instr, cur.input)
  <2>1. /\ cur # None /\ cur.block \in Block /\ CurLoc \in Loc /\ cur \in WorkingBlock
        /\ cur.instr \in 1 .. Size[cur.block] /\ cur.input \in Data
    BY <1>2, LocFacts DEF analyze_instr, InBlock, TypeOK, Positions, WorkingBlock, CurLoc
  <2>2. UNCHANGED <<wblks, binput>> BY <1>2 DEF analyze_instr
  <2>3. output' = [output EXCEPT ![CurLoc] = d]
    BY <1>2 DEF analyze_instr, RecordOutput
  <2>4. ~(Running(p) /\ cur.instr > Size[p])
    BY <2>1, <1>b DEF Running
  <2>5. CASE CurLoc = LastLoc(p)
    <3>1. cur.block = p /\ cur.instr = Size[p] /\ Running(p)
      BY <2>1, <2>5 DEF CurLoc, LastLoc, Running
    <3>2. output[CurLoc] # None /\ Leq(d, output[CurLoc])
      <4>1. SUFFICES ASSUME output[CurLoc] = None \/ ~Leq(d, output[CurLoc])
                     PROVE  FALSE
        OBVIOUS
      <4>2. cur' = [block |-> cur.block, instr |-> cur.instr + 1, input |-> d]
        BY <1>2, <4>1 DEF analyze_instr, RecordOutput
      <4>3. cur' # None /\ cur'.block = p /\ cur'.instr = Size[p] + 1
        <5>1. d \in Data BY <2>1, DataAssumption DEF CurLoc
        <5>2. cur' \in WorkingBlock BY <2>1, <4>2, <5>1 DEF WorkingBlock
        <5>3. QED BY <3>1, <4>2, <5>2
      <4>4. QED BY <1>b, <4>3 DEF Running
    <3>3. ~Waiting(b) BY <1>a, <3>1 DEF FreshInv, TimesOrdered
    <3>4. binput[b] # None /\ Leq(output[LastLoc(p)], binput[b])
      BY <2>4, <2>5, <3>2, <3>3 DEF NoLossInv
    <3>5. d \in Data /\ output[LastLoc(p)] \in Data /\ binput[b] \in Data
      BY <1>b, <2>1, <2>5, <3>2, <3>4, DataAssumption DEF TypeOK, CurLoc
    <3>6. Leq(d, binput[b]) BY <2>5, <3>2, <3>4, <3>5, OrderAssumption
    <3>7. output'[LastLoc(p)] = d BY <1>b, <2>3, <2>5 DEF TypeOK
    <3>8. QED BY <2>2, <3>4, <3>6, <3>7
  <2>6. CASE CurLoc # LastLoc(p)
    <3>1. output'[LastLoc(p)] = output[LastLoc(p)] BY <1>b, <2>1, <2>3, <2>6 DEF TypeOK
    <3>2. QED BY <2>2, <2>4, <3>1 DEF NoLossInv, Waiting
  <2>7. QED BY <2>5, <2>6
<1>3. CASE analyze_instr_unreachable
  <2>1. UNCHANGED <<wblks, binput, output>> BY <1>3 DEF analyze_instr_unreachable
  <2>2. ~(Running(p) /\ cur.instr > Size[p])
    BY <1>3, <1>b DEF analyze_instr_unreachable, InBlock, Running, TypeOK, WorkingBlock
  <2>3. QED BY <2>1, <2>2 DEF NoLossInv, Waiting
<1>4. CASE EnqueueSuccessors
  <2>1. UNCHANGED <<binput, output>> /\ wblks' = EnqueueBlocks(graph.succ[cur.block])
    BY <1>4 DEF EnqueueSuccessors
  <2>2. cur # None /\ cur.block \in Block /\ graph.succ[cur.block] \in SUBSET Block
    BY <1>4, EndOfBlock
  <2>3. Waiting(b) => Waiting(b)' BY <2>1, <2>2, EnqueueFacts DEF Waiting
  <2>4. CASE cur.block = p
    BY <1>a, <2>1, <2>2, <2>4, EnqueueFacts DEF Waiting
  <2>5. CASE cur.block # p
    BY <2>1, <2>3, <2>5 DEF NoLossInv, Running
  <2>6. QED BY <2>4, <2>5
<1>5. CASE UNCHANGED vars
  BY <1>5 DEF vars, NoLossInv, Waiting, Running
<1>6. QED BY <1>1, <1>2, <1>3, <1>4, <1>5 DEF Next, Done

\* A block with one predecessor and an unconditional edge to it ends up with an input
\* that covers the predecessor's output: what the engine loses, it loses at joins.
THEOREM NoLossCorrect == Spec => []NoLossWithoutJoin
<1>1. Init => NoLossInv
  BY LocFacts DEF Init, NoLossInv
<1>2. TypeOK /\ Positions /\ NoLossInv => NoLossWithoutJoin
  BY DEF NoLossInv, NoLossWithoutJoin, PlainEdge
<1>3. QED
  BY <1>1, <1>2, TypeInit, TypeStep, FreshInit, FreshStep, NoLossStep, PTL DEF Spec

------------------------------------------------------------------------------
(* No block and no instruction is forgotten *)

\* An instruction that must have an output once its block is done.
Recordable(l) == ~(l[1] \in graph.unreachable /\ l = LastLoc(l[1]))

\* An analysed block misses outputs only from the current instruction on, and an
\* instruction that has one is followed by instructions that have one, unless
\* the current instruction lies in between.
EntryReached == Waiting(graph.entry) \/ binput[graph.entry] # None

BlocksFilled ==
  \A m \in Loc : Recordable(m) /\ output[m] = None =>
    /\ binput[m[1]] # None => Running(m[1]) /\ cur.instr <= m[2]
    /\ \A l \in Loc : l[1] = m[1] /\ l[2] < m[2] /\ output[l] # None =>
         Running(m[1]) /\ l[2] < cur.instr /\ cur.instr <= m[2]

StartedFromInput == cur # None => binput[cur.block] # None

SuccessorsReached ==
  \A p \in Block : output[LastLoc(p)] # None =>
    \/ Running(p) /\ cur.instr > Size[p]
    \/ \A b \in graph.succ[p] : binput[b] # None \/ Waiting(b)

CompleteInv ==
  EntryReached /\ BlocksFilled /\ StartedFromInput /\ SuccessorsReached

LEMMA CompleteInit == Init => CompleteInv
<1> SUFFICES ASSUME Init PROVE CompleteInv OBVIOUS
<1>1. EntryReached BY DEF Init, EntryReached, Waiting
<1>2. BlocksFilled BY LocFacts DEF Init, BlocksFilled
<1>3. StartedFromInput BY DEF Init, StartedFromInput
<1>4. SuccessorsReached BY LocFacts DEF Init, SuccessorsReached
<1>5. QED BY <1>1, <1>2, <1>3, <1>4 DEF CompleteInv

LEMMA CompleteStep ==
  TypeOK /\ Positions /\ CompleteInv /\ [Next]_vars => CompleteInv'
<1> SUFFICES ASSUME TypeOK, Positions, CompleteInv, [Next]_vars PROVE CompleteInv'
  OBVIOUS
<1> USE NoneAssumption
<1>0. graph' = graph /\ finput' = finput /\ \A l \in Loc : Recordable(l)' = Recordable(l)
  BY GraphFixed DEF Recordable
<1>e. graph.entry \in Block BY DEF TypeOK, IsGraph
<1>1. CASE StartBlock
  <2>1. PICK w \in wblks :
          /\ wblks' = wblks \ {w}
          /\ binput' = IF w.instr = 1 THEN [binput EXCEPT ![w.block] = w.input]
                       ELSE binput
          /\ cur' = w
    BY <1>1 DEF StartBlock
  <2>2. /\ w.block \in Block /\ w.instr = 1 /\ w.input \in Data /\ w \in WorkingBlock
    BY DEF TypeOK, Positions, WorkingBlock
  <2>3. cur = None /\ output' = output BY <1>1 DEF StartBlock
  <2>4. /\ binput'[w.block] # None
        /\ \A b \in Block : b # w.block => binput'[b] = binput[b]
    BY <2>1, <2>2 DEF TypeOK
  <2>5. \A b \in Block : Waiting(b) => Waiting(b)' \/ binput'[b] # None
    BY <2>1, <2>4 DEF Waiting
  <2>6. \A b \in Block : ~Running(b) /\ (Running(b)' <=> b = w.block)
    BY <2>1, <2>2, <2>3 DEF Running
  <2>7. EntryReached'
    BY <1>0, <1>e, <2>4, <2>5 DEF CompleteInv, EntryReached
  <2>8. BlocksFilled'
    <3> SUFFICES ASSUME NEW m \in Loc, Recordable(m), output[m] = None
                 PROVE  /\ binput'[m[1]] # None => Running(m[1])' /\ cur'.instr <= m[2]
                        /\ \A l \in Loc : l[1] = m[1] /\ l[2] < m[2] => output[l] = None
      BY <1>0, <2>3 DEF BlocksFilled
    <3>1. m[1] \in Block /\ m[2] \in Nat /\ m[2] >= 1 BY LocFacts
    <3>2. binput[m[1]] = None BY <2>6, <3>1 DEF CompleteInv, BlocksFilled
    <3>3. \A l \in Loc : l[1] = m[1] /\ l[2] < m[2] => output[l] = None
      BY <2>6, <3>1 DEF CompleteInv, BlocksFilled
    <3>4. binput'[m[1]] # None => m[1] = w.block BY <2>4, <3>1, <3>2
    <3>5. QED BY <2>1, <2>2, <2>6, <3>1, <3>3, <3>4
  <2>9. StartedFromInput' BY <2>1, <2>4 DEF StartedFromInput
  <2>10. SuccessorsReached'
    <3> SUFFICES ASSUME NEW p \in Block, output[LastLoc(p)] # None,
                        NEW b \in graph.succ[p]
                 PROVE  binput'[b] # None \/ Waiting(b)'
      BY <1>0, <2>3 DEF SuccessorsReached
    <3>1. b \in Block BY DEF TypeOK, IsGraph
    <3>2. binput[b] # None \/ Waiting(b)
      BY <2>6 DEF CompleteInv, SuccessorsReached
    <3>3. QED BY <2>4, <2>5, <3>1, <3>2
  <2>11. QED BY <2>7, <2>8, <2>9, <2>10 DEF CompleteInv
<1>2. CASE analyze_instr
  <2> DEFINE d == Transfer(cur.block, cur.instr, cur.input)
             next == [block |-> cur.block, instr |-> cur.instr + 1, input |-> d]
  <2>1. /\ cur # None /\ cur.block \in Block /\ CurLoc \in Loc /\ cur.input \in Data
        /\ cur.instr \in 1 .. Size[cur.block]
    BY <1>2, LocFacts DEF analyze_instr, InBlock, TypeOK, Positions, WorkingBlock, CurLoc
  <2>2. UNCHANGED <<wblks, binput>> BY <1>2 DEF analyze_instr
  <2>3. d \in Data BY <2>1, DataAssumption DEF CurLoc
  <2>4. next \in WorkingBlock /\ next # None
    BY <2>1, <2>3 DEF WorkingBlock
  <2>5. output' = [output EXCEPT ![CurLoc] = d]
    BY <1>2 DEF analyze_instr, RecordOutput
  <2>6. output'[CurLoc] # None /\ \A l \in Loc : l # CurLoc => output'[l] = output[l]
    BY <2>1, <2>3, <2>5 DEF TypeOK
  <2>7. cur' = next \/ (cur' = None /\ output[CurLoc] # None)
    BY <1>2 DEF analyze_instr, RecordOutput
  <2>8. \A b \in Block : (Waiting(b)' <=> Waiting(b)) /\ (Running(b) <=> b = cur.block)
    BY <2>1, <2>2 DEF Waiting, Running
  <2>9. EntryReached' BY <1>0, <1>e, <2>2, <2>8 DEF CompleteInv, EntryReached
  <2>10. BlocksFilled'
    <3> SUFFICES ASSUME NEW m \in Loc, Recordable(m), output'[m] = None
                 PROVE  /\ binput'[m[1]] # None => Running(m[1])' /\ cur'.instr <= m[2]
                        /\ \A l \in Loc : l[1] = m[1] /\ l[2] < m[2] /\ output'[l] # None =>
                             Running(m[1])' /\ l[2] < cur'.instr /\ cur'.instr <= m[2]
      BY <1>0 DEF BlocksFilled
    <3>1. /\ m[1] \in Block /\ m[2] \in Nat /\ m = <<m[1], m[2]>>
          /\ m # CurLoc /\ output[m] = None
      BY <2>6, LocFacts
    <3>2. CASE m[1] # cur.block
      <4>1. binput'[m[1]] = None
        BY <2>2, <2>8, <3>1, <3>2 DEF CompleteInv, BlocksFilled
      <4>2. \A l \in Loc : l[1] = m[1] /\ l[2] < m[2] => output'[l] = None
        <5> SUFFICES ASSUME NEW l \in Loc, l[1] = m[1], l[2] < m[2] PROVE output'[l] = None
          OBVIOUS
        <5>1. l # CurLoc BY <3>2 DEF CurLoc
        <5>2. QED BY <2>6, <2>8, <3>1, <3>2, <5>1 DEF CompleteInv, BlocksFilled
      <4>3. QED BY <4>1, <4>2
    <3>3. CASE m[1] = cur.block
      <4>1. binput[cur.block] # None BY <2>1 DEF CompleteInv, StartedFromInput
      <4>2. cur.instr <= m[2]
        BY <3>1, <3>3, <4>1 DEF CompleteInv, BlocksFilled
      <4>3. cur.instr # m[2] BY <3>1, <3>3 DEF CurLoc
      <4>4. cur.instr < m[2] BY <2>1, <3>1, <4>2, <4>3
      <4>5. output[CurLoc] = None
        <5>1. CurLoc[1] = m[1] /\ CurLoc[2] = cur.instr BY <3>3 DEF CurLoc
        <5>2. output[CurLoc] # None => cur.instr < cur.instr
          BY <2>1, <3>1, <4>4, <5>1 DEF CompleteInv, BlocksFilled
        <5>3. QED BY <2>1, <5>2
      <4>6. cur' = next BY <2>7, <4>5
      <4>7. Running(m[1])' /\ cur'.instr = cur.instr + 1
        BY <2>4, <3>3, <4>6 DEF Running
      <4>8. cur'.instr <= m[2] BY <2>1, <3>1, <4>4, <4>7
      <4>9. ASSUME NEW l \in Loc, l[1] = m[1], l[2] < m[2], output'[l] # None
            PROVE  l[2] < cur'.instr
        <5>1. l[2] \in Nat BY LocFacts
        <5>2. CASE l = CurLoc BY <2>1, <4>7, <5>2 DEF CurLoc
        <5>3. CASE l # CurLoc
          <6>1. output[l] # None BY <2>6, <4>9, <5>3
          <6>2. l[2] < cur.instr
            BY <3>1, <4>9, <6>1 DEF CompleteInv, BlocksFilled
          <6>3. QED BY <2>1, <4>7, <5>1, <6>2
        <5>4. QED BY <5>2, <5>3
      <4>10. QED BY <4>7, <4>8, <4>9
    <3>4. QED BY <3>2, <3>3
  <2>11. StartedFromInput'
    BY <2>1, <2>2, <2>7 DEF CompleteInv, StartedFromInput
  <2>12. SuccessorsReached'
    <3> SUFFICES ASSUME NEW p \in Block, output'[LastLoc(p)] # None,
                        ~(Running(p)' /\ cur'.instr > Size[p]),
                        NEW b \in graph.succ[p]
                 PROVE  binput[b] # None \/ Waiting(b)
      <4>1. \A b \in Block : Waiting(b)' <=> Waiting(b) BY <2>8
      <4>2. \A p \in Block : graph.succ[p] \subseteq Block BY DEF TypeOK, IsGraph
      <4>3. QED BY <1>0, <2>2, <4>1, <4>2 DEF SuccessorsReached
    <3>1. LastLoc(p) \in Loc /\ Size[p] \in Nat BY LocFacts
    <3>2. output[LastLoc(p)] # None
      <4>1. CASE CurLoc # LastLoc(p) BY <2>6, <3>1, <4>1
      <4>2. CASE CurLoc = LastLoc(p)
        <5>1. cur.block = p /\ cur.instr = Size[p] BY <4>2 DEF CurLoc, LastLoc
        <5>2. cur' # next BY <2>4, <3>1, <5>1 DEF Running
        <5>3. QED BY <2>7, <4>2, <5>2
      <4>3. QED BY <4>1, <4>2
    <3>3. ~(Running(p) /\ cur.instr > Size[p]) BY <2>1, <2>8, <3>1
    <3>4. QED BY <3>2, <3>3 DEF CompleteInv, SuccessorsReached
  <2>13. QED BY <2>9, <2>10, <2>11, <2>12 DEF CompleteInv
<1>3. CASE analyze_instr_unreachable
  <2>1. UNCHANGED <<wblks, binput, output>> /\ cur' = None
    BY <1>3 DEF analyze_instr_unreachable
  <2>2. /\ cur.block \in Block /\ cur.block \in graph.unreachable
        /\ cur.instr = Size[cur.block] /\ Size[cur.block] \in Nat
    BY <1>3, LocFacts DEF analyze_instr_unreachable, InBlock, AtUnreachable, CurLoc,
       LastLoc, TypeOK, WorkingBlock
  <2>3. \A m \in Loc : Recordable(m) /\ m[1] = cur.block => ~(cur.instr <= m[2])
    <3> SUFFICES ASSUME NEW m \in Loc, Recordable(m), m[1] = cur.block
                 PROVE  ~(cur.instr <= m[2])
      OBVIOUS
    <3>1. m = <<m[1], m[2]>> /\ m[2] \in 1 .. Size[m[1]] BY LocFacts
    <3>2. m[2] # Size[cur.block] BY <2>2, <3>1 DEF Recordable, LastLoc
    <3>3. QED BY <2>2, <3>1, <3>2
  <2>4. \A b \in Block : Running(b) => b = cur.block BY DEF Running
  <2>5. BlocksFilled'
    BY <1>0, <2>1, <2>3, <2>4, LocFacts DEF CompleteInv, BlocksFilled
  <2>6. SuccessorsReached'
    <3>1. \A p \in Block : ~(Running(p) /\ cur.instr > Size[p]) BY <2>2, <2>4
    <3>2. QED BY <1>0, <2>1, <3>1 DEF CompleteInv, SuccessorsReached, Waiting
  <2>7. QED BY <1>0, <2>1, <2>5, <2>6
            DEF CompleteInv, EntryReached, Waiting, StartedFromInput
<1>4. CASE EnqueueSuccessors
  <2>1. /\ UNCHANGED <<binput, output>> /\ cur' = None
        /\ wblks' = EnqueueBlocks(graph.succ[cur.block])
    BY <1>4 DEF EnqueueSuccessors
  <2>2. /\ cur # None /\ cur.block \in Block /\ graph.succ[cur.block] \in SUBSET Block
        /\ cur.instr = Size[cur.block] + 1 /\ Size[cur.block] \in Nat
    BY <1>4, EndOfBlock, LocFacts
  <2>3. \A b \in Block : Waiting(b) => Waiting(b)'
    BY <2>1, <2>2, EnqueueFacts DEF Waiting
  <2>4. \A b \in graph.succ[cur.block] : Waiting(b)'
    BY <2>1, <2>2, EnqueueFacts DEF Waiting
  <2>5. EntryReached' BY <1>0, <1>e, <2>1, <2>3 DEF CompleteInv, EntryReached
  <2>6. BlocksFilled'
    <3>1. \A m \in Loc : m[1] = cur.block => ~(cur.instr <= m[2])
      BY <2>2, LocFacts
    <3>2. QED BY <1>0, <2>1, <3>1, LocFacts DEF CompleteInv, BlocksFilled, Running
  <2>7. SuccessorsReached'
    <3> SUFFICES ASSUME NEW p \in Block, output[LastLoc(p)] # None,
                        NEW b \in graph.succ[p]
                 PROVE  binput[b] # None \/ Waiting(b)'
      BY <1>0, <2>1 DEF SuccessorsReached
    <3>1. b \in Block BY DEF TypeOK, IsGraph
    <3>2. CASE p = cur.block BY <2>4, <3>2
    <3>3. CASE p # cur.block
      BY <2>3, <3>1, <3>3 DEF CompleteInv, SuccessorsReached, Running
    <3>4. QED BY <3>2, <3>3
  <2>8. QED BY <2>1, <2>5, <2>6, <2>7 DEF CompleteInv, StartedFromInput
<1>5. CASE UNCHANGED vars
  BY <1>0, <1>5 DEF vars, CompleteInv, EntryReached, BlocksFilled, StartedFromInput,
     SuccessorsReached, Waiting, Running
<1>6. QED BY <1>1, <1>2, <1>3, <1>4, <1>5 DEF Next, Done

\* A session that ends has analysed the entry block and every successor of a block
\* that has an output, each to its last instruction.
THEOREM CompleteCorrect == Spec => []Complete
<1>1. TypeOK /\ CompleteInv => Complete
  <2> SUFFICES ASSUME TypeOK, CompleteInv, Finished
               PROVE  /\ binput[graph.entry] # None
                      /\ \A b \in Block : binput[b] # None =>
                           \A l \in Loc : l[1] = b /\ ~(b \in graph.unreachable /\ l = LastLoc(b))
                                            => output[l] # None
                      /\ \A p \in Block : output[LastLoc(p)] # None =>
                           \A b \in graph.succ[p] : binput[b] # None
    BY DEF Complete
  <2>1. \A b \in Block : ~Waiting(b) /\ ~Running(b)
    BY DEF Finished, Waiting, Running
  <2>2. binput[graph.entry] # None
    BY <2>1 DEF CompleteInv, EntryReached, TypeOK, IsGraph
  <2>3. ASSUME NEW b \in Block, binput[b] # None, NEW l \in Loc, l[1] = b,
               ~(b \in graph.unreachable /\ l = LastLoc(b))
        PROVE  output[l] # None
    BY <2>1, <2>3 DEF CompleteInv, BlocksFilled, Recordable
  <2>4. ASSUME NEW p \in Block, output[LastLoc(p)] # None, NEW b \in graph.succ[p]
        PROVE  binput[b] # None
    <3>1. b \in Block BY DEF TypeOK, IsGraph
    <3>2. QED BY <2>1, <2>4, <3>1 DEF CompleteInv, SuccessorsReached
  <2>5. QED BY <2>2, <2>3, <2>4
<1>2. QED BY <1>1, TypeInit, TypeStep, CompleteInit, CompleteStep, PTL DEF Spec

------------------------------------------------------------------------------
(* The function worklist: types *)

(***************************************************************************)
(* A callsite holds the callsites of its caller, which hold those of their *)
(* callers, and so on.  That all of them are well-formed is said of a set  *)
(* U of callsites that has, with each of its members, the callsites it     *)
(* holds.                                                                  *)
(***************************************************************************)
ClosedSites(U) ==
  \A c \in U : c.caller \in Func /\ c.caller_input \in Data /\ c.caller_callsites \subseteq U

WorkingFunc(U) == [func : Func, input : Data, callsites : SUBSET U]

EnvType(U, fe) ==
  /\ fe.binput \in [Block -> Data \union {None}]
  /\ fe.output \in [Loc -> Data \union {None}]
  /\ fe.foutput \in Data \union {None}
  /\ fe.marks \subseteq WorkingBlock
  /\ fe.callsites \subseteq U

InterTypes(U) ==
  /\ wfuncs \in Seq(WorkingFunc(U))
  /\ DOMAIN fenvs \subseteq Func \X Data
  /\ \A k \in DOMAIN fenvs : EnvType(U, fenvs[k])
  /\ waking \subseteq U
  /\ session # NoSession => session.wf \in WorkingFunc(U) /\ session.callsites \subseteq U

SummaryTypes ==
  /\ DOMAIN summaries \subseteq Func \X Data
  /\ \A k \in DOMAIN summaries : summaries[k] \in Data

\* The variables of the block worklist belong to the session in progress.
SessionTypes ==
  /\ marks \subseteq WorkingBlock
  /\ session # NoSession => finput = session.wf.input /\ graph = prog.body[session.wf.func]
  /\ session = NoSession => cur = None

InterTypeOK ==
  /\ IsProgram(prog)
  /\ TypeOK
  /\ SummaryTypes
  /\ SessionTypes
  /\ \E U : ClosedSites(U) /\ InterTypes(U)

LEMMA MinOf ==
  ASSUME NEW S, S \subseteq Nat, S # {}
  PROVE  Min(S) \in S /\ \A n \in S : Min(S) <= n
BY LeastElement DEF Min

LEMMA ProgramFacts ==
  ASSUME IsProgram(prog), NEW f \in Func
  PROVE  /\ prog.blocks[f] \subseteq Block
         /\ IsGraph(prog.body[f])
         /\ prog.body[f].entry \in prog.blocks[f]
         /\ \A b \in prog.blocks[f] : /\ prog.body[f].succ[b] \subseteq prog.blocks[f]
                                      /\ prog.body[f].pred[b] \subseteq prog.blocks[f]
BY DEF IsProgram

LEMMA RelativeTimesType ==
  ASSUME IsProgram(prog), TypeOK, NEW f \in Func
  PROVE  RelativeTimes(f) \in [Block -> Nat]
<1> DEFINE S == {times[b] : b \in prog.blocks[f]}
           low == Min(S)
<1>1. prog.blocks[f] \subseteq Block /\ prog.blocks[f] # {} /\ times \in [Block -> Nat]
  BY ProgramFacts DEF TypeOK
<1>2. S \subseteq Nat /\ S # {}
  BY <1>1
<1>3. low \in Nat /\ \A b \in prog.blocks[f] : low <= times[b]
  BY <1>2, MinOf
<1> HIDE DEF low
<1>4. ASSUME NEW b \in prog.blocks[f] PROVE Min({times[b] - low, MaxFuncTimes}) \in Nat
  <2>1. times[b] - low \in Nat /\ MaxFuncTimes \in Nat
    BY <1>1, <1>3, ProgramAssumption
  <2> QED
    BY <2>1, MinOf
<1>5. RelativeTimes(f) = [b \in Block |-> IF b \in prog.blocks[f] THEN Min({times[b] - low, MaxFuncTimes})
                                          ELSE times[b]]
  BY DEF RelativeTimes, low
<1> QED
  BY <1>1, <1>4, <1>5

\* Enqueuing keeps the list of working functions well-formed.
LEMMA EnqueueType ==
  ASSUME NEW U, NEW Q \in Seq(WorkingFunc(U)), NEW wf \in WorkingFunc(U), NEW done
  PROVE  enqueue_to_analyze_func(Q, done, wf) \in Seq(WorkingFunc(U))
<1> DEFINE same(v) == v.func = wf.func /\ v.input = wf.input
           superseded(v) == /\ v.func = wf.func /\ v.input # wf.input
                            /\ \A c \in wf.callsites : \E d \in v.callsites : c.instr = d.instr
           updated(v) == IF same(v) THEN [v EXCEPT !.callsites = concat_callsites(wf.callsites, @)]
                         ELSE IF superseded(v) THEN wf ELSE v
           changed == [i \in DOMAIN Q |-> updated(Q[i])]
<1>1. ASSUME NEW v \in WorkingFunc(U) PROVE updated(v) \in WorkingFunc(U)
  <2>1. concat_callsites(wf.callsites, v.callsites) \subseteq U
    BY DEF concat_callsites, WorkingFunc
  <2> QED
    BY <2>1 DEF WorkingFunc
<1>2. changed \in Seq(WorkingFunc(U))
  <2>1. DOMAIN Q = 1 .. Len(Q) /\ Len(Q) \in Nat /\ \A i \in DOMAIN Q : Q[i] \in WorkingFunc(U)
    OBVIOUS
  <2>2. \A i \in DOMAIN Q : updated(Q[i]) \in WorkingFunc(U)
    BY <1>1, <2>1
  <2> HIDE DEF updated
  <2> QED
    BY <2>1, <2>2
<1>3. record_working_func(Q, wf) =
        changed \o IF \E v \in Range(Q) : same(v) \/ superseded(v) THEN <<>> ELSE <<wf>>
  BY DEF record_working_func
<1> HIDE DEF changed, same, superseded
<1>4. record_working_func(Q, wf) \in Seq(WorkingFunc(U))
  BY <1>2, <1>3
<1> QED
  BY <1>4 DEF enqueue_to_analyze_func

LEMMA RemoveType ==
  ASSUME NEW S, NEW Q \in Seq(S), NEW i \in DOMAIN Q
  PROVE  Q[i] \in S /\ RemoveAt(Q, i) \in Seq(S)
BY DEF RemoveAt

\* What recording an output does to the types.
LEMMA RecordType ==
  ASSUME TypeOK, cur \in WorkingBlock, CurLoc \in Loc, NEW d \in Data, RecordOutput(d)
  PROVE  /\ output' = [output EXCEPT ![CurLoc] = d]
         /\ output' \in [Loc -> Data \union {None}]
         /\ output'[CurLoc] = d
         /\ cur' \in WorkingBlock \union {None}
         /\ cur' # None => cur' = [block |-> cur.block, instr |-> cur.instr + 1, input |-> d]
<1>1. cur.block \in Block /\ cur.instr \in Nat
  BY DEF WorkingBlock
<1>2. [block |-> cur.block, instr |-> cur.instr + 1, input |-> d] \in WorkingBlock
  BY <1>1 DEF WorkingBlock
<1>3. output \in [Loc -> Data \union {None}]
  BY DEF TypeOK
<1> QED
  BY <1>2, <1>3 DEF RecordOutput

\* Working blocks and marks stand at instructions of their function, and a block that is
\* through has an output for its last instruction.
AtPoint(f, w) == w.block \in prog.blocks[f] /\ w.instr \in 1 .. Size[w.block]

CurAtPoint ==
  cur # None => /\ cur.block \in prog.blocks[session.wf.func]
                /\ cur.instr \in 1 .. Size[cur.block] + 1
                /\ cur.instr > Size[cur.block] => output[LastLoc(cur.block)] # None

PointsOK ==
  /\ \A k \in DOMAIN fenvs : \A w \in fenvs[k].marks : AtPoint(k[1], w)
  /\ session # NoSession => CurAtPoint /\ \A w \in wblks \union marks : AtPoint(session.wf.func, w)

LEMMA SessionFacts ==
  ASSUME InterTypeOK, PointsOK, session # NoSession
  PROVE  /\ session.wf.func \in Func /\ session.wf.input \in Data
         /\ <<session.wf.func, session.wf.input>> \in Func \X Data
         /\ graph = prog.body[session.wf.func] /\ finput = session.wf.input
         /\ IsGraph(graph) /\ prog.blocks[session.wf.func] \subseteq Block
         /\ cur # None => /\ cur \in WorkingBlock /\ cur.block \in Block /\ cur.input \in Data
                          /\ cur.instr \in Nat /\ cur.instr >= 1
                          /\ cur.block \in prog.blocks[session.wf.func]
                          /\ cur.instr <= Size[cur.block] => CurLoc \in Loc
<1>1. session.wf.func \in Func /\ session.wf.input \in Data
  BY DEF InterTypeOK, InterTypes, WorkingFunc
<1>2. graph = prog.body[session.wf.func] /\ finput = session.wf.input
  BY DEF InterTypeOK, SessionTypes
<1>3. IsGraph(graph) /\ prog.blocks[session.wf.func] \subseteq Block
  BY <1>1, <1>2, ProgramFacts DEF InterTypeOK
<1>4. ASSUME cur # None
      PROVE  /\ cur \in WorkingBlock /\ cur.block \in Block /\ cur.input \in Data
             /\ cur.instr \in Nat /\ cur.instr >= 1
             /\ cur.block \in prog.blocks[session.wf.func]
             /\ cur.instr <= Size[cur.block] => CurLoc \in Loc
  <2>1. cur \in WorkingBlock
    BY <1>4 DEF InterTypeOK, TypeOK
  <2>2. cur.block \in Block /\ cur.input \in Data /\ cur.instr \in Nat
    BY <2>1 DEF WorkingBlock
  <2>3. cur.block \in prog.blocks[session.wf.func] /\ cur.instr \in 1 .. Size[cur.block] + 1
    BY <1>4 DEF PointsOK, CurAtPoint
  <2>4. cur.instr <= Size[cur.block] => CurLoc \in Loc
    BY <2>2, <2>3, LocFacts DEF CurLoc
  <2> QED
    BY <2>1, <2>2, <2>3, <2>4
<1> QED
  BY <1>1, <1>2, <1>3, <1>4

\* What a step of the session that records output d does to its position.
LEMMA RecordPoint ==
  ASSUME InterTypeOK, PointsOK, session # NoSession, session' = session, prog' = prog,
         InBlock, NEW d \in Data, RecordOutput(d)
  PROVE  CurAtPoint'
<1>1. /\ cur # None /\ cur \in WorkingBlock /\ cur.block \in Block /\ cur.instr \in Nat
      /\ cur.instr >= 1 /\ cur.instr <= Size[cur.block] /\ CurLoc \in Loc
      /\ cur.block \in prog.blocks[session.wf.func] /\ Size[cur.block] \in Nat
  BY SessionFacts, LocFacts DEF InBlock
<1>2. /\ output'[CurLoc] = d
      /\ cur' # None => cur' = [block |-> cur.block, instr |-> cur.instr + 1, input |-> d]
  BY <1>1, RecordType DEF InterTypeOK
<1>3. ASSUME cur' # None
      PROVE  /\ cur'.block \in prog'.blocks[session'.wf.func]
             /\ cur'.instr \in 1 .. Size[cur'.block] + 1
             /\ cur'.instr > Size[cur'.block] => output'[LastLoc(cur'.block)] # None
  <2>1. cur'.block = cur.block /\ cur'.instr = cur.instr + 1
    BY <1>2, <1>3
  <2>2. cur'.instr > Size[cur'.block] => LastLoc(cur'.block) = CurLoc
    BY <1>1, <2>1 DEF LastLoc, CurLoc
  <2> QED
    BY <1>1, <1>2, <2>1, <2>2, NoneAssumption
<1> QED
  BY <1>3 DEF CurAtPoint

LEMMA BlockStepTypes ==
  ASSUME InterTypeOK, PointsOK, BlockStep
  PROVE  InterTypeOK' /\ PointsOK'
<1> USE NoneAssumption
<1>0. /\ session # NoSession /\ UNCHANGED <<funcVars, marks>>
      /\ session' = session /\ prog' = prog /\ fenvs' = fenvs /\ marks' = marks
      /\ wfuncs' = wfuncs /\ summaries' = summaries /\ waking' = waking
  BY DEF BlockStep, funcVars
<1>1. TypeOK /\ IsProgram(prog) /\ SessionTypes
  BY DEF InterTypeOK
<1>2. CASE StartBlock
  <2>1. PICK w \in wblks :
          /\ wblks' = wblks \ {w}
          /\ times' = [times EXCEPT ![w.block] = @ + 1]
          /\ binput' = IF w.instr = 1 THEN [binput EXCEPT ![w.block] = w.input]
                       ELSE binput
          /\ cur' = w
    BY <1>2 DEF StartBlock
  <2>2. w \in WorkingBlock /\ w.block \in Block /\ w.input \in Data /\ AtPoint(session.wf.func, w)
    BY <1>0, <1>1 DEF TypeOK, PointsOK, WorkingBlock
  <2>3. UNCHANGED <<graph, finput, output, foutput>>
    BY <1>2 DEF StartBlock
  <2>4. TypeOK'
    BY <1>1, <2>1, <2>2, <2>3 DEF TypeOK
  <2>5. CurAtPoint'
    BY <1>0, <2>1, <2>2, LocFacts DEF CurAtPoint, AtPoint
  <2>6. PointsOK'
    BY <1>0, <2>1, <2>5 DEF PointsOK, AtPoint
  <2> QED
    BY <1>0, <1>1, <2>3, <2>4, <2>6 DEF InterTypeOK, SessionTypes, SummaryTypes, InterTypes
<1>3. CASE analyze_instr
  <2> DEFINE d == Transfer(cur.block, cur.instr, cur.input)
  <2>1. InBlock /\ UNCHANGED <<graph, finput, wblks, times, binput>> /\ RecordOutput(d)
    BY <1>3 DEF analyze_instr
  <2>2. /\ cur # None /\ cur \in WorkingBlock /\ cur.input \in Data /\ CurLoc \in Loc
    BY <1>0, <2>1, SessionFacts DEF InBlock
  <2>3. d \in Data
    BY <2>2, DataAssumption DEF CurLoc
  <2>4. foutput' \in Data \union {None}
    <3>1. foutput # None => Join({foutput, d}) \in Data
      BY <1>1, <2>3, DataAssumption DEF TypeOK
    <3> QED BY <1>1, <1>3, <2>3, <3>1 DEF analyze_instr, record_func_output, TypeOK
  <2> HIDE DEF d
  <2>5. output' \in [Loc -> Data \union {None}] /\ cur' \in WorkingBlock \union {None}
    BY <1>1, <2>1, <2>2, <2>3, RecordType
  <2>6. TypeOK'
    BY <1>1, <2>1, <2>4, <2>5 DEF TypeOK
  <2>7. CurAtPoint'
    BY <1>0, <2>1, <2>3, RecordPoint
  <2>8. PointsOK'
    BY <1>0, <2>1, <2>7 DEF PointsOK, AtPoint
  <2> QED
    BY <1>0, <1>1, <2>1, <2>6, <2>8 DEF InterTypeOK, SessionTypes, SummaryTypes, InterTypes
<1>4. CASE analyze_instr_unreachable
  <2>1. cur' = None /\ UNCHANGED <<graph, finput, wblks, times, binput, output, foutput>>
    BY <1>4 DEF analyze_instr_unreachable
  <2>2. TypeOK' /\ PointsOK'
    BY <1>0, <1>1, <2>1 DEF TypeOK, PointsOK, AtPoint, CurAtPoint
  <2> QED
    BY <1>0, <1>1, <2>1, <2>2 DEF InterTypeOK, SessionTypes, SummaryTypes, InterTypes
<1>5. CASE EnqueueSuccessors
  <2> DEFINE bs == graph.succ[cur.block]
  <2>1. /\ cur # None /\ wblks' = EnqueueBlocks(bs) /\ cur' = None
        /\ UNCHANGED <<graph, finput, times, binput, output, foutput>>
    BY <1>5 DEF EnqueueSuccessors
  <2>2. cur.block \in prog.blocks[session.wf.func] /\ graph = prog.body[session.wf.func]
        /\ session.wf.func \in Func
    BY <1>0, <2>1, SessionFacts
  <2>3. bs \subseteq prog.blocks[session.wf.func] /\ bs \in SUBSET Block
    BY <1>1, <2>2, ProgramFacts
  <2>4. TypeOK'
    BY <1>1, <2>1, <2>3, EnqueueFacts DEF TypeOK
  <2>5. ASSUME NEW w \in wblks' PROVE w \in wblks \/ (w.block \in bs /\ w.instr = 1)
    <3>1. w \in wblks \/ \E b \in bs : w = FromTheStart(b)
      BY <1>1, <2>1, <2>3, EnqueueFacts
    <3> QED
      BY <3>1 DEF FromTheStart
  <2>6. \A w \in wblks' : AtPoint(session.wf.func, w)
    BY <1>0, <2>3, <2>5, LocFacts DEF PointsOK, AtPoint
  <2>7. PointsOK'
    BY <1>0, <2>1, <2>6 DEF PointsOK, AtPoint, CurAtPoint
  <2> QED
    BY <1>0, <1>1, <2>1, <2>4, <2>7 DEF InterTypeOK, SessionTypes, SummaryTypes, InterTypes
<1> QED
  BY <1>2, <1>3, <1>4, <1>5 DEF BlockStep

LEMMA MoreSites ==
  ASSUME NEW U, NEW V, U \subseteq V, InterTypes(U)
  PROVE  InterTypes(V)
<1>1. WorkingFunc(U) \subseteq WorkingFunc(V)
  BY DEF WorkingFunc
<1>2. wfuncs \in Seq(WorkingFunc(V))
  BY <1>1 DEF InterTypes
<1>3. \A k \in DOMAIN fenvs : EnvType(V, fenvs[k])
  BY DEF InterTypes, EnvType
<1>4. session # NoSession => session.wf \in WorkingFunc(V)
  BY <1>1 DEF InterTypes
<1> QED
  BY <1>2, <1>3, <1>4 DEF InterTypes

LEMMA CallTypes ==
  ASSUME InterTypeOK, PointsOK, analyze_instr_call_user_func
  PROVE  InterTypeOK' /\ PointsOK'
<1> USE NoneAssumption
<1> DEFINE callee == prog.call[CurLoc]
           input == CalleeInput(CurLoc, cur.input)
           callsite == [instr |-> CurLoc, caller |-> session.wf.func,
                        caller_input |-> finput, caller_callsites |-> session.callsites,
                        callee |-> callee, callee_input |-> input]
           wf == [func |-> callee, input |-> input, callsites |-> {callsite}]
<1>1. /\ session # NoSession /\ InBlock /\ callee # None
      /\ UNCHANGED <<graph, finput, wblks, times, binput, foutput>>
      /\ UNCHANGED <<prog, fenvs, summaries, analyzed, ftimes, top, waking, session>>
  BY DEF analyze_instr_call_user_func, AtCall
<1>2. /\ IsProgram(prog) /\ TypeOK /\ SummaryTypes /\ SessionTypes
  BY DEF InterTypeOK
<1>3. /\ cur # None /\ cur \in WorkingBlock /\ cur.input \in Data /\ CurLoc \in Loc
      /\ cur.block \in prog.blocks[session.wf.func] /\ cur.instr \in 1 .. Size[cur.block]
      /\ session.wf.func \in Func /\ finput \in Data
  BY <1>1, SessionFacts, LocFacts DEF InBlock
<1>4. callee \in Func /\ input \in Data
  BY <1>1, <1>2, <1>3, CallAssumption DEF IsProgram
<1>5. PICK U : ClosedSites(U) /\ InterTypes(U)
  BY DEF InterTypeOK
<1>6. PICK V : ClosedSites(V) /\ InterTypes(V) /\ wf \in WorkingFunc(V)
  <2> DEFINE W == U \union {callsite}
  <2>1. session.callsites \subseteq U
    BY <1>1, <1>5 DEF InterTypes
  <2>2. ClosedSites(W)
    BY <1>3, <1>5, <2>1 DEF ClosedSites
  <2>3. InterTypes(W)
    BY <1>5, MoreSites
  <2>4. wf \in WorkingFunc(W)
    BY <1>4 DEF WorkingFunc
  <2> HIDE DEF W, wf
  <2> QED
    BY <2>2, <2>3, <2>4
<1>8. wfuncs' \in {wfuncs, enqueue_to_analyze_func(wfuncs, analyzed, wf)} /\ marks' \in {marks, MarkCall}
  BY DEF analyze_instr_call_user_func
<1>9. \/ \E d \in Data : RecordOutput(d)
      \/ cur' = None /\ output' = output
  <2>1. ASSUME NEW sum \in get_suitable_func_summary(callee, input)
        PROVE  CallOutput(CurLoc, cur.input, sum) \in Data
    <3>1. sum \in Data
      BY <1>2 DEF get_suitable_func_summary, SummaryTypes
    <3> QED
      BY <1>3, <3>1, CallAssumption
  <2> QED
    BY <2>1 DEF analyze_instr_call_user_func
<1> HIDE DEF wf, callee, input, callsite
<1>10. InterTypes(V)'
  <2>1. wfuncs' \in Seq(WorkingFunc(V))
    BY <1>6, <1>8, EnqueueType DEF InterTypes
  <2> QED
    BY <1>1, <1>6, <2>1 DEF InterTypes, EnvType
<1>11. TypeOK' /\ CurAtPoint'
  <2>1. CASE cur' = None /\ output' = output
    BY <1>1, <1>2, <2>1 DEF TypeOK, CurAtPoint
  <2>2. ASSUME NEW d \in Data, RecordOutput(d) PROVE TypeOK' /\ CurAtPoint'
    <3>1. output' \in [Loc -> Data \union {None}] /\ cur' \in WorkingBlock \union {None}
      BY <1>2, <1>3, <2>2, RecordType
    <3>2. CurAtPoint'
      BY <1>1, <2>2, RecordPoint
    <3>3. TypeOK'
      BY <1>1, <1>2, <3>1 DEF TypeOK
    <3> QED
      BY <3>2, <3>3
  <2> QED
    BY <1>9, <2>1, <2>2
<1>12. marks' \subseteq WorkingBlock /\ \A w \in wblks' \union marks' : AtPoint(session.wf.func, w)
  <2>1. marks' \subseteq marks \union {cur} /\ wblks' = wblks
    BY <1>1, <1>8 DEF MarkCall
  <2>2. AtPoint(session.wf.func, cur)
    BY <1>3 DEF AtPoint
  <2> QED
    BY <1>1, <1>2, <1>3, <2>1, <2>2 DEF PointsOK, SessionTypes
<1>13. PointsOK'
  BY <1>1, <1>11, <1>12 DEF PointsOK, AtPoint
<1>14. SessionTypes' /\ SummaryTypes' /\ IsProgram(prog')
  BY <1>1, <1>2, <1>12 DEF SessionTypes, SummaryTypes
<1>15. ClosedSites(V)'
  BY <1>6 DEF ClosedSites
<1> QED
  BY <1>10, <1>11, <1>13, <1>14, <1>15 DEF InterTypeOK

LEMMA StartFuncTypes ==
  ASSUME InterTypeOK, PointsOK, StartFunc
  PROVE  InterTypeOK' /\ PointsOK'
<1> USE NoneAssumption
<1>1. /\ IsProgram(prog) /\ TypeOK /\ SummaryTypes /\ SessionTypes /\ session = NoSession /\ cur = None
      /\ UNCHANGED <<cur, prog, fenvs, summaries, analyzed, waking>>
  BY DEF InterTypeOK, SessionTypes, StartFunc
<1>2. PICK U : ClosedSites(U) /\ InterTypes(U)
  BY DEF InterTypeOK
<1> DEFINE Key(wf) == <<wf.func, wf.input>>
           Env(wf) == IF Key(wf) \in DOMAIN fenvs THEN fenvs[Key(wf)] ELSE mk_func_env(wf)
<1>3. PICK i \in DOMAIN wfuncs :
        LET wf == wfuncs[i]
        IN  /\ wfuncs' = RemoveAt(wfuncs, i)
            /\ session' = [wf |-> wf, callsites |-> Env(wf).callsites]
            /\ graph' = prog.body[wf.func]
            /\ finput' = wf.input
            /\ binput' = Env(wf).binput
            /\ output' = Env(wf).output
            /\ foutput' = Env(wf).foutput
            /\ wblks' = IF Env(wf).marks # {} THEN Env(wf).marks
                        ELSE {[block |-> prog.body[wf.func].entry, instr |-> 1,
                               input |-> wf.input]}
            /\ marks' = {}
            /\ times' = RelativeTimes(wf.func)
  BY DEF StartFunc
<1> DEFINE wf == wfuncs[i]
           fe == Env(wf)
<1>4. wf \in WorkingFunc(U) /\ wfuncs' \in Seq(WorkingFunc(U))
  BY <1>2, <1>3, RemoveType DEF InterTypes
<1>5. wf.func \in Func /\ wf.input \in Data /\ wf.callsites \subseteq U
  BY <1>4 DEF WorkingFunc
<1>6. EnvType(U, fe) /\ \A w \in fe.marks : AtPoint(wf.func, w)
  <2>1. CASE Key(wf) \in DOMAIN fenvs
    BY <1>2, <2>1 DEF InterTypes, PointsOK
  <2>2. CASE Key(wf) \notin DOMAIN fenvs
    BY <1>5, <2>2 DEF EnvType, mk_func_env
  <2> QED
    BY <2>1, <2>2
<1>7. /\ IsGraph(prog.body[wf.func]) /\ prog.body[wf.func].entry \in prog.blocks[wf.func]
      /\ prog.blocks[wf.func] \subseteq Block
  BY <1>1, <1>5, ProgramFacts
<1>8. RelativeTimes(wf.func) \in [Block -> Nat]
  BY <1>1, <1>5, RelativeTimesType
<1> HIDE DEF wf, fe
<1>9. /\ session' = [wf |-> wf, callsites |-> fe.callsites]
      /\ graph' = prog.body[wf.func] /\ finput' = wf.input /\ marks' = {}
      /\ binput' = fe.binput /\ output' = fe.output /\ foutput' = fe.foutput
      /\ times' = RelativeTimes(wf.func)
      /\ wblks' = IF fe.marks # {} THEN fe.marks
                  ELSE {[block |-> prog.body[wf.func].entry, instr |-> 1, input |-> wf.input]}
  BY <1>3 DEF wf, fe
<1>10. /\ wblks' \subseteq WorkingBlock
       /\ \A w \in wblks' : AtPoint(wf.func, w)
  <2>1. CASE fe.marks # {}
    BY <1>6, <1>9, <2>1 DEF EnvType
  <2>2. CASE fe.marks = {}
    <3> DEFINE first == [block |-> prog.body[wf.func].entry, instr |-> 1, input |-> wf.input]
    <3>1. first \in WorkingBlock /\ AtPoint(wf.func, first)
      BY <1>5, <1>7, LocFacts DEF WorkingBlock, AtPoint
    <3> QED
      BY <1>9, <2>2, <3>1
  <2> QED
    BY <2>1, <2>2
<1>11. TypeOK'
  BY <1>1, <1>5, <1>6, <1>7, <1>8, <1>9, <1>10 DEF TypeOK, EnvType
<1>12. PointsOK'
  BY <1>1, <1>9, <1>10 DEF PointsOK, AtPoint, CurAtPoint
<1>13. InterTypes(U)' /\ ClosedSites(U)'
  BY <1>1, <1>2, <1>4, <1>6, <1>9 DEF InterTypes, ClosedSites, EnvType
<1>14. SessionTypes' /\ SummaryTypes' /\ IsProgram(prog')
  BY <1>1, <1>9 DEF SessionTypes, SummaryTypes
<1> QED
  BY <1>11, <1>12, <1>13, <1>14 DEF InterTypeOK

LEMMA FinishFuncTypes ==
  ASSUME InterTypeOK, PointsOK, FinishFunc
  PROVE  InterTypeOK' /\ PointsOK'
<1> USE NoneAssumption
<1> DEFINE wf == session.wf
           key == <<wf.func, wf.input>>
           completed == EnvCompleted(wf.func, output)
           out == IF completed /\ foutput = None THEN LeastData ELSE foutput
           fe == [binput |-> binput, output |-> output,
                  foutput |-> foutput, marks |-> marks, callsites |-> session.callsites]
<1>1. /\ IsProgram(prog) /\ TypeOK /\ SummaryTypes /\ SessionTypes /\ session # NoSession /\ cur = None
      /\ UNCHANGED <<blockVars, prog, ftimes, top>> /\ session' = NoSession /\ marks' = {}
  BY DEF InterTypeOK, FinishFunc, Finished
<1>2. PICK U : ClosedSites(U) /\ InterTypes(U)
  BY DEF InterTypeOK
<1>3. wf \in WorkingFunc(U) /\ session.callsites \subseteq U
  BY <1>1, <1>2 DEF InterTypes
<1>4. wf.func \in Func /\ wf.input \in Data /\ wf.callsites \subseteq U /\ key \in Func \X Data
  BY <1>3 DEF WorkingFunc
<1>5. fenvs' = [k \in DOMAIN fenvs \union {key} |-> IF k = key THEN fe ELSE fenvs[k]]
  BY DEF FinishFunc
<1>6. summaries' = IF wf.func # Main /\ out # None
                   THEN [k \in DOMAIN summaries \union {key} |->
                           IF k = key THEN CleanData(wf.func, out) ELSE summaries[k]]
                   ELSE summaries
  BY DEF FinishFunc
<1>7. waking' = wf.callsites
  BY DEF FinishFunc
<1>8. \E done : wfuncs' \in {wfuncs, enqueue_to_analyze_func(wfuncs, done, wf)}
  BY DEF FinishFunc
<1>9. out # None => out \in Data
  BY <1>1, DataAssumption DEF TypeOK
<1>10. EnvType(U, fe)
  BY <1>1, <1>3 DEF EnvType, TypeOK, SessionTypes
<1>11. \A w \in fe.marks : AtPoint(wf.func, w)
  BY <1>1 DEF PointsOK
<1> HIDE DEF wf, out, fe
<1>12. SummaryTypes'
  <2>1. out # None => CleanData(wf.func, out) \in Data
    BY <1>4, <1>9, CallAssumption
  <2> QED
    BY <1>1, <1>4, <1>6, <2>1 DEF SummaryTypes
<1>13. wfuncs' \in Seq(WorkingFunc(U))
  BY <1>2, <1>3, <1>8, EnqueueType DEF InterTypes
<1>14. InterTypes(U)' /\ ClosedSites(U)'
  <2>1. DOMAIN fenvs' \subseteq Func \X Data /\ \A k \in DOMAIN fenvs' : EnvType(U, fenvs'[k])
    BY <1>2, <1>4, <1>5, <1>10 DEF InterTypes
  <2> QED
    BY <1>1, <1>2, <1>4, <1>7, <1>13, <2>1 DEF InterTypes, ClosedSites, EnvType
<1>15. PointsOK'
  <2>1. \A k \in DOMAIN fenvs' : \A w \in fenvs'[k].marks : AtPoint(k[1], w)
    BY <1>5, <1>11 DEF PointsOK
  <2> QED
    BY <1>1, <2>1 DEF PointsOK, AtPoint
<1>16. TypeOK' /\ SessionTypes'
  BY <1>1 DEF TypeOK, SessionTypes, blockVars
<1> QED
  BY <1>1, <1>12, <1>14, <1>15, <1>16 DEF InterTypeOK

LEMMA WakeCallerTypes ==
  ASSUME InterTypeOK, PointsOK, WakeCaller
  PROVE  InterTypeOK' /\ PointsOK'
<1>1. /\ IsProgram(prog) /\ TypeOK /\ SummaryTypes /\ SessionTypes
      /\ UNCHANGED <<blockVars, prog, fenvs, summaries, analyzed, ftimes, top, session, marks>>
  BY DEF InterTypeOK, WakeCaller
<1>2. PICK U : ClosedSites(U) /\ InterTypes(U)
  BY DEF InterTypeOK
<1>3. PICK c \in waking : wfuncs' = EnqueueCaller(c) /\ waking' = waking \ {c}
  BY DEF WakeCaller
<1> DEFINE wf == [func |-> c.caller, input |-> c.caller_input, callsites |-> c.caller_callsites]
<1>4. wf \in WorkingFunc(U)
  BY <1>2 DEF InterTypes, ClosedSites, WorkingFunc
<1>5. wfuncs' \in Seq(WorkingFunc(U))
  BY <1>2, <1>3, <1>4, EnqueueType DEF InterTypes, EnqueueCaller
<1>6. InterTypes(U)' /\ ClosedSites(U)'
  BY <1>1, <1>2, <1>3, <1>5 DEF InterTypes, ClosedSites, EnvType
<1>7. TypeOK' /\ SessionTypes' /\ SummaryTypes' /\ PointsOK'
  BY <1>1 DEF TypeOK, SessionTypes, SummaryTypes, PointsOK, AtPoint, CurAtPoint, blockVars
<1> QED
  BY <1>1, <1>6, <1>7 DEF InterTypeOK

LEMMA InterTypeStep ==
  ASSUME InterTypeOK, PointsOK, [InterNext]_ivars
  PROVE  InterTypeOK' /\ PointsOK'
<1>1. CASE UNCHANGED ivars
  <2>1. TypeOK' /\ SessionTypes' /\ SummaryTypes' /\ PointsOK' /\ IsProgram(prog')
    BY <1>1 DEF ivars, blockVars, funcVars, InterTypeOK, TypeOK, SessionTypes, SummaryTypes, PointsOK,
       AtPoint, CurAtPoint
  <2>2. \E U : ClosedSites(U)' /\ InterTypes(U)'
    BY <1>1 DEF ivars, funcVars, InterTypeOK, InterTypes, ClosedSites, EnvType
  <2> QED
    BY <2>1, <2>2 DEF InterTypeOK
<1> QED
  BY <1>1, BlockStepTypes, CallTypes, StartFuncTypes, FinishFuncTypes, WakeCallerTypes
     DEF InterNext, InterDone

LEMMA InterTypeInit == InterInit => InterTypeOK /\ PointsOK
<1> SUFFICES ASSUME InterInit PROVE InterTypeOK /\ PointsOK
  OBVIOUS
<1>1. IsProgram(prog) /\ Main \in Func /\ MainInput \in Data
  BY ProgramAssumption DEF InterInit
<1>2. IsGraph(graph)
  BY <1>1, ProgramFacts DEF InterInit
<1>3. TypeOK
  BY <1>1, <1>2, NoneAssumption DEF InterInit, TypeOK
<1>4. SessionTypes /\ SummaryTypes /\ PointsOK
  BY DEF InterInit, SessionTypes, SummaryTypes, PointsOK
<1>5. ClosedSites({}) /\ InterTypes({})
  <2>1. [func |-> Main, input |-> MainInput, callsites |-> {}] \in WorkingFunc({})
    BY <1>1 DEF WorkingFunc
  <2> QED
    BY <2>1 DEF InterInit, InterTypes, ClosedSites
<1> QED
  BY <1>1, <1>3, <1>4, <1>5 DEF InterTypeOK

\* The tables of all functions, the callsites that wait in them and the summaries are
\* well-formed, whatever functions wait for each other.
THEOREM InterTypeCorrect == InterSpec => []InterTypeOK
BY InterTypeInit, InterTypeStep, PTL DEF InterSpec

------------------------------------------------------------------------------
(* The function worklist: everything recorded lies below every table *)

\* The tables of an environment for function f lie below solution s.
TablesBelow(s, f, in, out, ret) ==
  /\ \A b \in prog.blocks[f] : in[b] # None => Leq(in[b], s.in[b])
  /\ \A l \in Loc : l[1] \in prog.blocks[f] /\ out[l] # None => Leq(out[l], s.out[l])
  /\ ret # None => Leq(ret, s.ret)

WorkBelow(s, w) == Leq(w.input, Before(s, w.block, w.instr))

EnvsBelow(t) ==
  \A k \in DOMAIN fenvs :
    /\ TablesBelow(t.solution[k], k[1], fenvs[k].binput, fenvs[k].output, fenvs[k].foutput)
    /\ \A w \in fenvs[k].marks : WorkBelow(t.solution[k], w)

SessionBelow(s) ==
  /\ TablesBelow(s, session.wf.func, binput, output, foutput)
  /\ \A w \in wblks \union marks : WorkBelow(s, w)
  /\ cur # None => WorkBelow(s, cur)

SummariesBelow(t) == \A k \in DOMAIN summaries : Leq(summaries[k], t.summary[k])

Below(t) ==
  /\ SummariesBelow(t)
  /\ EnvsBelow(t)
  /\ session # NoSession => SessionBelow(t.solution[<<session.wf.func, session.wf.input>>])

LEMMA SolutionFacts ==
  ASSUME NEW f \in Func, NEW d \in Data, NEW t, NEW s, SolvesFunc(prog, t, f, d, s), IsProgram(prog)
  PROVE  /\ \A b \in Block : s.in[b] \in Data
         /\ \A l \in Loc : s.out[l] \in Data
         /\ s.ret \in Data
         /\ \A b \in Block : \A i \in 1 .. Size[b] + 1 : Before(s, b, i) \in Data
<1>1. s.in \in [Block -> Data] /\ s.out \in [Loc -> Data] /\ s.ret \in Data
  BY DEF SolvesFunc
<1>2. ASSUME NEW b \in Block, NEW i \in 1 .. Size[b] + 1 PROVE Before(s, b, i) \in Data
  <2>1. i # 1 => <<b, i - 1>> \in Loc
    <3>1. Size[b] \in Nat
      BY LocFacts
    <3>2. i # 1 => i - 1 \in 1 .. Size[b]
      BY <3>1
    <3> QED
      BY <3>2, LocFacts
  <2> QED
    BY <1>1, <2>1 DEF Before
<1> QED
  BY <1>1, <1>2

\* What crosses an edge is below the solution's input of the block it leads to.
LEMMA InterInputBelow ==
  ASSUME InterTypeOK, NEW f \in Func, NEW t, NEW s, SolvesFunc(prog, t, f, finput, s),
         graph = prog.body[f], TablesBelow(s, f, binput, output, foutput),
         NEW b \in prog.blocks[f], RecordedPreds(b) # {} \/ Leq(finput, s.in[b])
  PROVE  Leq(compute_block_input(b), s.in[b])
<1> DEFINE P == RecordedPreds(b)
           E == {EdgeData(p, b) : p \in P}
<1>a. TypeOK /\ IsProgram(prog) /\ finput \in Data
  BY DEF InterTypeOK, TypeOK
<1>b. b \in Block /\ graph.pred[b] \subseteq prog.blocks[f] /\ prog.blocks[f] \subseteq Block
  BY <1>a, ProgramFacts
<1>0. s.in[b] \in Data
  BY <1>a, <1>b, SolutionFacts
<1>1. ASSUME NEW p \in P PROVE EdgeData(p, b) \in Data /\ Leq(EdgeData(p, b), s.in[b])
  <2> DEFINE out == output[LastLoc(p)]
             sout == s.out[LastLoc(p)]
  <2>1. /\ p \in prog.blocks[f] /\ p \in Block /\ p \in graph.pred[b] /\ LastLoc(p) \in Loc
        /\ LastLoc(p)[1] = p /\ out # None
    BY <1>1, <1>b, LocFacts DEF RecordedPreds, LastLoc
  <2>2. out \in Data /\ sout \in Data /\ Leq(out, sout)
    BY <1>a, <2>1, SolutionFacts DEF TablesBelow, TypeOK
  <2>3. Refine(p, b, out) \in Data /\ Refine(p, b, sout) \in Data
    BY <1>b, <2>1, <2>2, DataAssumption
  <2>4. Leq(Refine(p, b, out), Refine(p, b, sout))
    BY <1>b, <2>1, <2>2, MonotoneAssumption
  <2>5. Leq(Refine(p, b, sout), s.in[b])
    BY <2>1 DEF SolvesFunc
  <2>6. Leq(Refine(p, b, out), s.in[b])
    BY <1>0, <2>3, <2>4, <2>5, OrderAssumption
  <2>7. Sat(p, b, out) => Refine(p, b, out) = out
    BY <1>b, <2>1, <2>2, MonotoneAssumption
  <2>8. binput[b] # None => binput[b] \in Data /\ Leq(binput[b], s.in[b])
    BY <1>a, <1>b DEF TypeOK, TablesBelow
  <2> QED
    BY <2>2, <2>3, <2>6, <2>7, <2>8 DEF EdgeData
<1>2. CASE P = {}
  BY <1>2 DEF compute_block_input
<1>3. CASE P # {}
  <2>1. E \in SUBSET Data /\ E # {}
    BY <1>1, <1>3
  <2>2. \A d \in E : Leq(d, s.in[b])
    BY <1>1
  <2>3. Leq(Join(E), s.in[b])
    BY <1>0, <2>1, <2>2, JoinAssumption
  <2> QED
    BY <1>3, <2>3 DEF compute_block_input
<1> QED
  BY <1>2, <1>3

\* Recording an output that is below the solution keeps the session below it.
LEMMA RecordBelow ==
  ASSUME InterTypeOK, PointsOK, session # NoSession, session' = session, prog' = prog,
         InBlock, NEW d \in Data, RecordOutput(d), NEW s, Leq(d, s.out[CurLoc]), SessionBelow(s),
         UNCHANGED <<binput, wblks>>,
         foutput' = foutput \/ Leq(foutput', s.ret),
         \A w \in marks' : w \in marks \/ w = cur
  PROVE  SessionBelow(s)'
<1>1. /\ cur # None /\ cur \in WorkingBlock /\ cur.block \in Block /\ cur.instr \in Nat
      /\ cur.instr >= 1 /\ CurLoc \in Loc
  BY SessionFacts DEF InBlock
<1>2. /\ output' = [output EXCEPT ![CurLoc] = d]
      /\ cur' # None => cur' = [block |-> cur.block, instr |-> cur.instr + 1, input |-> d]
  BY <1>1, RecordType DEF InterTypeOK
<1>3. \A l \in Loc : l[1] \in prog.blocks[session.wf.func] /\ output'[l] # None => Leq(output'[l], s.out[l])
  BY <1>1, <1>2 DEF SessionBelow, TablesBelow, InterTypeOK, TypeOK
<1>4. cur' # None => WorkBelow(s, cur')
  BY <1>1, <1>2 DEF WorkBelow, Before, CurLoc
<1>5. TablesBelow(s, session.wf.func, binput, output, foutput)'
  BY <1>3 DEF SessionBelow, TablesBelow
<1>6. \A w \in wblks' \union marks' : WorkBelow(s, w)
  BY <1>1 DEF SessionBelow
<1> QED
  BY <1>4, <1>5, <1>6 DEF SessionBelow

\* The solution for the function of the session.
LEMMA SessionSolution ==
  ASSUME InterTypeOK, PointsOK, session # NoSession, NEW t, IsTable(prog, t), Below(t)
  PROVE  /\ SolvesFunc(prog, t, session.wf.func, finput,
                       t.solution[<<session.wf.func, session.wf.input>>])
         /\ SessionBelow(t.solution[<<session.wf.func, session.wf.input>>])
BY SessionFacts DEF IsTable, Below

LEMMA BlockStepBelow ==
  ASSUME InterTypeOK, PointsOK, BlockStep, NEW t, IsTable(prog, t), Below(t)
  PROVE  Below(t)'
<1> USE NoneAssumption
<1> DEFINE f == session.wf.func
<1>0. /\ session # NoSession /\ session' = session /\ prog' = prog /\ fenvs' = fenvs /\ marks' = marks
      /\ summaries' = summaries
  BY DEF BlockStep, funcVars
<1>1. PICK s : s = t.solution[<<session.wf.func, session.wf.input>>]
  OBVIOUS
<1>2. SolvesFunc(prog, t, f, finput, s) /\ SessionBelow(s)
  BY <1>0, <1>1, SessionSolution
<1>3. SUFFICES SessionBelow(s)'
  BY <1>0, <1>1 DEF Below, SummariesBelow, EnvsBelow, TablesBelow
<1>4. TypeOK /\ IsProgram(prog) /\ f \in Func /\ finput \in Data
  BY <1>0, SessionFacts DEF InterTypeOK, TypeOK
<1>5. CASE StartBlock
  <2>1. PICK w \in wblks :
          /\ wblks' = wblks \ {w}
          /\ binput' = IF w.instr = 1 THEN [binput EXCEPT ![w.block] = w.input]
                       ELSE binput
          /\ cur' = w
    BY <1>5 DEF StartBlock
  <2>2. UNCHANGED <<output, foutput>>
    BY <1>5 DEF StartBlock
  <2>3. WorkBelow(s, w) /\ w \in WorkingBlock
    BY <1>2, <1>4 DEF SessionBelow, TypeOK
  <2>4. \A b \in prog.blocks[f] : binput'[b] # None => Leq(binput'[b], s.in[b])
    <3>1. w.instr = 1 => Leq(w.input, s.in[w.block])
      BY <2>3 DEF WorkBelow, Before
    <3>2. \A b \in prog.blocks[f] : b \in Block
      BY <1>4, ProgramFacts
    <3> QED
      BY <1>2, <1>4, <2>1, <3>1, <3>2 DEF SessionBelow, TablesBelow, TypeOK
  <2>5. TablesBelow(s, f, binput, output, foutput)'
    BY <1>0, <1>2, <2>2, <2>4 DEF SessionBelow, TablesBelow
  <2> QED
    BY <1>0, <1>2, <2>1, <2>3, <2>5 DEF SessionBelow
<1>6. CASE ~AtCall /\ analyze_instr
  <2> DEFINE d == Transfer(cur.block, cur.instr, cur.input)
             e == Transfer(cur.block, cur.instr, Before(s, cur.block, cur.instr))
  <2>1. InBlock /\ UNCHANGED <<wblks, binput>> /\ RecordOutput(d)
    BY <1>6 DEF analyze_instr
  <2>2. /\ cur # None /\ cur.block \in Block /\ cur.block \in prog.blocks[f] /\ cur.input \in Data
        /\ CurLoc \in Loc /\ cur.instr \in 1 .. Size[cur.block] + 1
    BY <1>0, <2>1, SessionFacts, LocFacts DEF InBlock
  <2>3. Before(s, cur.block, cur.instr) \in Data /\ s.out[CurLoc] \in Data /\ s.ret \in Data
    BY <1>2, <1>4, <2>2, SolutionFacts
  <2>4. Leq(cur.input, Before(s, cur.block, cur.instr))
    BY <1>2, <2>2 DEF SessionBelow, WorkBelow
  <2>5. d \in Data /\ e \in Data /\ Leq(d, e)
    BY <2>2, <2>3, <2>4, MonotoneAssumption, DataAssumption DEF CurLoc
  <2>6. Leq(e, s.out[CurLoc])
    <3>1. prog.call[CurLoc] = None
      BY <1>6, <2>1 DEF AtCall
    <3> QED
      BY <1>2, <2>2, <3>1 DEF SolvesFunc, CallAwareTransfer, CurLoc
  <2>7. Leq(d, s.out[CurLoc])
    BY <2>3, <2>5, <2>6, OrderAssumption
  <2> HIDE DEF d
  <2>8. foutput' = foutput \/ Leq(foutput', s.ret)
    <3>1. CASE AtRet
      <4>1. Leq(s.out[CurLoc], s.ret)
        BY <1>0, <1>2, <2>2, <3>1, SessionFacts DEF SolvesFunc, AtRet
      <4>2. Leq(d, s.ret)
        BY <2>3, <2>5, <2>7, <4>1, OrderAssumption
      <4>3. foutput' = IF foutput = None THEN d ELSE Join({foutput, d})
        BY <1>6, <3>1 DEF analyze_instr, record_func_output, d
      <4>4. ASSUME foutput # None PROVE Leq(Join({foutput, d}), s.ret)
        <5>1. {foutput, d} \in SUBSET Data /\ {foutput, d} # {}
          BY <1>4, <2>5, <4>4 DEF TypeOK
        <5>2. Leq(foutput, s.ret)
          BY <1>2, <4>4 DEF SessionBelow, TablesBelow
        <5> QED
          BY <2>3, <4>2, <5>1, <5>2, JoinAssumption
      <4> QED
        BY <4>2, <4>3, <4>4
    <3>2. CASE ~AtRet
      BY <1>6, <3>2 DEF analyze_instr
    <3> QED
      BY <3>1, <3>2
  <2> QED
    BY <1>0, <1>2, <2>1, <2>5, <2>7, <2>8, RecordBelow
<1>7. CASE analyze_instr_unreachable
  BY <1>0, <1>2, <1>7 DEF analyze_instr_unreachable, SessionBelow, TablesBelow
<1>8. CASE EnqueueSuccessors
  <2> DEFINE bs == graph.succ[cur.block]
  <2>1. /\ cur # None /\ cur.instr > Size[cur.block] /\ wblks' = EnqueueBlocks(bs) /\ cur' = None
        /\ UNCHANGED <<binput, output, foutput>>
    BY <1>8 DEF EnqueueSuccessors
  <2>2. /\ cur.block \in prog.blocks[f] /\ graph = prog.body[f]
        /\ output[LastLoc(cur.block)] # None
    BY <1>0, <2>1, SessionFacts DEF PointsOK, CurAtPoint
  <2>3. bs \subseteq prog.blocks[f] /\ bs \in SUBSET Block
    BY <1>4, <2>2, ProgramFacts
  <2>4. ASSUME NEW b \in bs PROVE Leq(compute_block_input(b), s.in[b])
    <3>1. b \in prog.blocks[f]
      BY <2>3
    <3>2. CASE cur.block \in graph.pred[b]
      <4>1. RecordedPreds(b) # {}
        BY <2>2, <3>2 DEF RecordedPreds
      <4> QED
        BY <1>2, <1>4, <2>2, <3>1, <4>1, InterInputBelow DEF SessionBelow
    <3>3. CASE cur.block \notin graph.pred[b]
      <4>1. Leq(finput, s.in[b])
        BY <1>2, <2>2, <3>1, <3>3 DEF SolvesFunc
      <4> QED
        BY <1>2, <1>4, <2>2, <3>1, <4>1, InterInputBelow DEF SessionBelow
    <3> QED
      BY <3>2, <3>3
  <2>5. ASSUME NEW w \in wblks' PROVE WorkBelow(s, w)
    <3>1. w \in wblks \/ \E b \in bs : w = FromTheStart(b)
      BY <1>4, <2>1, <2>3, <2>5, EnqueueFacts
    <3>2. \A b \in bs : WorkBelow(s, FromTheStart(b))
      BY <2>4 DEF WorkBelow, Before, FromTheStart
    <3> QED
      BY <1>2, <3>1, <3>2 DEF SessionBelow
  <2> QED
    BY <1>0, <1>2, <2>1, <2>5 DEF SessionBelow, TablesBelow
<1> QED
  BY <1>5, <1>6, <1>7, <1>8 DEF BlockStep

LEMMA CallBelow ==
  ASSUME InterTypeOK, PointsOK, analyze_instr_call_user_func, NEW t, IsTable(prog, t), Below(t)
  PROVE  Below(t)'
<1> USE NoneAssumption
<1> DEFINE f == session.wf.func
           callee == prog.call[CurLoc]
           input == CalleeInput(CurLoc, cur.input)
<1>0. /\ session # NoSession /\ InBlock /\ callee # None
      /\ session' = session /\ prog' = prog /\ fenvs' = fenvs /\ summaries' = summaries
      /\ UNCHANGED <<wblks, binput, foutput>>
  BY DEF analyze_instr_call_user_func, AtCall
<1>1. PICK s : s = t.solution[<<session.wf.func, session.wf.input>>]
  OBVIOUS
<1>2. SolvesFunc(prog, t, f, finput, s) /\ SessionBelow(s)
  BY <1>0, <1>1, SessionSolution
<1>3. SUFFICES SessionBelow(s)'
  BY <1>0, <1>1 DEF Below, SummariesBelow, EnvsBelow, TablesBelow
<1>4. TypeOK /\ IsProgram(prog) /\ f \in Func /\ finput \in Data /\ SummaryTypes
  BY <1>0, SessionFacts DEF InterTypeOK, TypeOK
<1>5. /\ cur # None /\ cur.block \in Block /\ cur.block \in prog.blocks[f] /\ cur.input \in Data
      /\ CurLoc \in Loc /\ cur.instr \in 1 .. Size[cur.block] + 1
  BY <1>0, SessionFacts, LocFacts DEF InBlock
<1>6. callee \in Func /\ input \in Data
  BY <1>0, <1>4, <1>5, CallAssumption DEF IsProgram
<1>7. \A w \in marks' : w \in marks \/ w = cur
  BY DEF analyze_instr_call_user_func, MarkCall
<1>8. CASE cur' = None /\ output' = output
  BY <1>0, <1>2, <1>5, <1>7, <1>8 DEF SessionBelow, TablesBelow
<1>9. ASSUME NEW sum \in get_suitable_func_summary(callee, input),
             RecordOutput(CallOutput(CurLoc, cur.input, sum))
      PROVE  SessionBelow(s)'
  <2> DEFINE at == Before(s, cur.block, cur.instr)
             d == CallOutput(CurLoc, cur.input, sum)
             known == t.summary[<<callee, CalleeInput(CurLoc, at)>>]
             e == CallOutput(CurLoc, at, known)
  <2>1. at \in Data /\ s.out[CurLoc] \in Data
    BY <1>2, <1>4, <1>5, SolutionFacts
  <2>2. Leq(cur.input, at)
    BY <1>2, <1>5 DEF SessionBelow, WorkBelow
  <2>3. CalleeInput(CurLoc, at) \in Data /\ Leq(input, CalleeInput(CurLoc, at))
    BY <1>5, <2>1, <2>2, CallAssumption
  <2>4. /\ <<callee, input>> \in DOMAIN summaries /\ sum = summaries[<<callee, input>>]
        /\ sum \in Data
    BY <1>4, <1>9 DEF get_suitable_func_summary, SummaryTypes
  <2>5. Leq(sum, t.summary[<<callee, input>>]) /\ t.summary[<<callee, input>>] \in Data
    BY <1>6, <2>4 DEF Below, SummariesBelow, IsTable
  <2>6. Leq(t.summary[<<callee, input>>], known) /\ known \in Data
    BY <1>6, <2>3 DEF IsTable
  <2>7. Leq(sum, known)
    BY <2>4, <2>5, <2>6, OrderAssumption
  <2>8. d \in Data /\ e \in Data /\ Leq(d, e)
    BY <1>5, <2>1, <2>2, <2>4, <2>6, <2>7, CallAssumption
  <2>9. Leq(e, s.out[CurLoc])
    BY <1>0, <1>2, <1>5 DEF SolvesFunc, CallAwareTransfer, CurLoc
  <2>10. Leq(d, s.out[CurLoc])
    BY <2>1, <2>8, <2>9, OrderAssumption
  <2> QED
    BY <1>0, <1>2, <1>7, <1>9, <2>8, <2>10, RecordBelow
<1> QED
  BY <1>8, <1>9 DEF analyze_instr_call_user_func

LEMMA StartFuncBelow ==
  ASSUME InterTypeOK, PointsOK, StartFunc, NEW t, IsTable(prog, t), Below(t)
  PROVE  Below(t)'
<1> USE NoneAssumption
<1>1. /\ IsProgram(prog) /\ cur = None
      /\ UNCHANGED <<cur, prog, fenvs, summaries>>
  BY DEF InterTypeOK, SessionTypes, StartFunc
<1> DEFINE Key(wf) == <<wf.func, wf.input>>
           Env(wf) == IF Key(wf) \in DOMAIN fenvs THEN fenvs[Key(wf)] ELSE mk_func_env(wf)
<1>2. PICK i \in DOMAIN wfuncs :
        LET wf == wfuncs[i]
        IN  /\ session' = [wf |-> wf, callsites |-> Env(wf).callsites]
            /\ binput' = Env(wf).binput
            /\ output' = Env(wf).output
            /\ foutput' = Env(wf).foutput
            /\ wblks' = IF Env(wf).marks # {} THEN Env(wf).marks
                        ELSE {[block |-> prog.body[wf.func].entry, instr |-> 1,
                               input |-> wf.input]}
            /\ marks' = {}
  BY DEF StartFunc
<1> DEFINE wf == wfuncs[i]
           fe == Env(wf)
           s == t.solution[Key(wf)]
<1>3. wf.func \in Func /\ wf.input \in Data
  <2>1. PICK U : InterTypes(U)
    BY DEF InterTypeOK
  <2>2. wf \in WorkingFunc(U)
    BY <2>1, RemoveType DEF InterTypes
  <2> QED
    BY <2>2 DEF WorkingFunc
<1>4. SolvesFunc(prog, t, wf.func, wf.input, s)
  BY <1>3 DEF IsTable
<1>5. TablesBelow(s, wf.func, fe.binput, fe.output, fe.foutput) /\ \A w \in fe.marks : WorkBelow(s, w)
  <2>1. CASE Key(wf) \in DOMAIN fenvs
    BY <2>1 DEF Below, EnvsBelow
  <2>2. CASE Key(wf) \notin DOMAIN fenvs
    <3>1. prog.blocks[wf.func] \subseteq Block
      BY <1>1, <1>3, ProgramFacts
    <3> QED
      BY <2>2, <3>1 DEF mk_func_env, TablesBelow
  <2> QED
    BY <2>1, <2>2
<1>6. WorkBelow(s, [block |-> prog.body[wf.func].entry, instr |-> 1, input |-> wf.input])
  BY <1>4 DEF SolvesFunc, WorkBelow, Before
<1>7. PICK v, env, sol : v = wf /\ env = fe /\ sol = s
  OBVIOUS
<1>8. /\ session' = [wf |-> v, callsites |-> env.callsites] /\ marks' = {}
      /\ binput' = env.binput /\ output' = env.output /\ foutput' = env.foutput
      /\ wblks' = IF env.marks # {} THEN env.marks
                  ELSE {[block |-> prog.body[v.func].entry, instr |-> 1, input |-> v.input]}
      /\ sol = t.solution[<<v.func, v.input>>]
  BY <1>2, <1>7
<1>9. /\ TablesBelow(sol, v.func, env.binput, env.output, env.foutput)
      /\ \A w \in env.marks : WorkBelow(sol, w)
      /\ WorkBelow(sol, [block |-> prog.body[v.func].entry, instr |-> 1, input |-> v.input])
  BY <1>5, <1>6, <1>7
<1> HIDE DEF wf, fe, s
<1>10. SessionBelow(sol)'
  <2>1. TablesBelow(sol, session'.wf.func, binput', output', foutput')
    BY <1>8, <1>9
  <2>2. TablesBelow(sol, session.wf.func, binput, output, foutput)'
    BY <1>1, <2>1 DEF TablesBelow
  <2>3. \A w \in wblks' \union marks' : WorkBelow(sol, w)
    BY <1>8, <1>9
  <2> QED
    BY <1>1, <2>2, <2>3 DEF SessionBelow
<1>11. sol = t.solution[<<session'.wf.func, session'.wf.input>>]
  BY <1>8
<1>12. SummariesBelow(t)' /\ EnvsBelow(t)'
  BY <1>1 DEF Below, SummariesBelow, EnvsBelow, TablesBelow
<1> QED
  BY <1>10, <1>11, <1>12 DEF Below

LEMMA FinishFuncBelow ==
  ASSUME InterTypeOK, PointsOK, FinishFunc, NEW t, IsTable(prog, t), Below(t)
  PROVE  Below(t)'
<1> USE NoneAssumption
<1> DEFINE wf == session.wf
           key == <<wf.func, wf.input>>
           completed == EnvCompleted(wf.func, output)
           out == IF completed /\ foutput = None THEN LeastData ELSE foutput
           fe == [binput |-> binput, output |-> output,
                  foutput |-> foutput, marks |-> marks, callsites |-> session.callsites]
           s == t.solution[key]
<1>1. session # NoSession /\ prog' = prog /\ session' = NoSession /\ TypeOK /\ IsProgram(prog)
  BY DEF FinishFunc, InterTypeOK
<1>2. SolvesFunc(prog, t, wf.func, wf.input, s) /\ SessionBelow(s) /\ wf.func \in Func /\ wf.input \in Data
  BY <1>1, SessionSolution, SessionFacts
<1>3. fenvs' = [k \in DOMAIN fenvs \union {key} |-> IF k = key THEN fe ELSE fenvs[k]]
  BY DEF FinishFunc
<1>4. summaries' = IF wf.func # Main /\ out # None
                   THEN [k \in DOMAIN summaries \union {key} |->
                           IF k = key THEN CleanData(wf.func, out) ELSE summaries[k]]
                   ELSE summaries
  BY DEF FinishFunc
<1>5. out # None => Leq(CleanData(wf.func, out), t.summary[key])
  <2>1. SUFFICES ASSUME out # None PROVE Leq(CleanData(wf.func, out), t.summary[key])
    OBVIOUS
  <2>2. out \in Data /\ s.ret \in Data
    BY <1>1, <1>2, <2>1, SolutionFacts, DataAssumption DEF TypeOK
  <2>3. Leq(out, s.ret)
    BY <1>2, <2>1 DEF SolvesFunc, SessionBelow, TablesBelow
  <2>4. /\ CleanData(wf.func, out) \in Data /\ CleanData(wf.func, s.ret) \in Data
        /\ Leq(CleanData(wf.func, out), CleanData(wf.func, s.ret))
    BY <1>2, <2>2, <2>3, CallAssumption
  <2>5. Leq(CleanData(wf.func, s.ret), t.summary[key]) /\ t.summary[key] \in Data
    BY <1>2 DEF IsTable
  <2> QED
    BY <2>4, <2>5, OrderAssumption
<1>6. /\ TablesBelow(s, wf.func, fe.binput, fe.output, fe.foutput)
      /\ \A w \in fe.marks : WorkBelow(s, w)
  BY <1>2 DEF SessionBelow
<1> HIDE DEF wf, out, fe
<1>7. \A k \in DOMAIN summaries' : Leq(summaries'[k], t.summary[k])
  BY <1>4, <1>5 DEF Below, SummariesBelow
<1>8. ASSUME NEW k \in DOMAIN fenvs'
      PROVE  /\ TablesBelow(t.solution[k], k[1], fenvs'[k].binput, fenvs'[k].output, fenvs'[k].foutput)
             /\ \A w \in fenvs'[k].marks : WorkBelow(t.solution[k], w)
  BY <1>3, <1>6, <1>8 DEF Below, EnvsBelow
<1>9. EnvsBelow(t)'
  BY <1>1, <1>8 DEF EnvsBelow, TablesBelow
<1> QED
  BY <1>1, <1>7, <1>9 DEF Below, SummariesBelow

LEMMA BelowStep ==
  ASSUME InterTypeOK, PointsOK, [InterNext]_ivars, NEW t, IsTable(prog, t), Below(t)
  PROVE  Below(t)'
<1>1. CASE WakeCaller \/ UNCHANGED ivars
  <2>1. UNCHANGED <<blockVars, prog, fenvs, summaries, session, marks>>
    BY <1>1 DEF WakeCaller, ivars, funcVars
  <2>2. SummariesBelow(t)' /\ EnvsBelow(t)'
    BY <2>1 DEF Below, SummariesBelow, EnvsBelow, TablesBelow
  <2>3. PICK s : s = t.solution[<<session.wf.func, session.wf.input>>]
    OBVIOUS
  <2>4. UNCHANGED <<wblks, binput, output, foutput, cur, marks, session, prog>>
    BY <2>1 DEF blockVars
  <2>5. SessionBelow(s) => SessionBelow(s)'
    BY <2>4 DEF SessionBelow, TablesBelow
  <2>6. session # NoSession => SessionBelow(s)
    BY <2>3 DEF Below
  <2> QED
    BY <2>2, <2>3, <2>4, <2>5, <2>6 DEF Below
<1> QED
  BY <1>1, BlockStepBelow, CallBelow, StartFuncBelow, FinishFuncBelow DEF InterNext, InterDone

LEMMA ProgramKept ==
  ASSUME [InterNext]_ivars
  PROVE  prog' = prog
<1>1. CASE BlockStep
  BY <1>1 DEF BlockStep, funcVars
<1>2. CASE UNCHANGED ivars
  BY <1>2 DEF ivars, funcVars
<1>3. CASE StartFunc
  BY <1>3 DEF StartFunc
<1>4. CASE analyze_instr_call_user_func
  BY <1>4 DEF analyze_instr_call_user_func
<1>5. CASE FinishFunc \/ WakeCaller
  BY <1>5 DEF FinishFunc, WakeCaller
<1> QED
  BY <1>1, <1>2, <1>3, <1>4, <1>5 DEF InterNext, InterDone

BelowTables == \A t \in Tables(prog) : IsTable(prog, t) => Below(t)

\* Nothing that is published, stored or in progress claims more than any solution of the
\* interprocedural equations, in whatever order functions and blocks are taken,
\* although callers go on with summaries of functions that are not finished.
THEOREM SummariesJustifiedCorrect == InterSpec => []SummariesJustified
<1>1. InterInit => BelowTables
  BY DEF InterInit, BelowTables, Below, SummariesBelow, EnvsBelow
<1>2. ASSUME InterTypeOK, PointsOK, BelowTables, [InterNext]_ivars PROVE BelowTables'
  <2>1. prog' = prog
    BY <1>2, ProgramKept
  <2>2. SUFFICES ASSUME NEW t \in Tables(prog), IsTable(prog, t) PROVE Below(t)'
    BY <2>1 DEF BelowTables
  <2>3. Below(t)
    BY <1>2, <2>2 DEF BelowTables
  <2> QED
    BY <1>2, <2>2, <2>3, BelowStep
<1>3. BelowTables => SummariesJustified
  BY DEF BelowTables, Below, SummariesBelow, SummariesJustified
<1>4. InterSpec => [](InterTypeOK /\ PointsOK /\ BelowTables)
  BY <1>1, <1>2, InterTypeInit, InterTypeStep, PTL DEF InterSpec
<1> QED
  BY <1>3, <1>4, PTL

------------------------------------------------------------------------------
(* The function worklist: every call that waits is resumed *)

\* The one input that function f is analysed with.
ContextOf(f) ==
  IF f = Main THEN MainInput
  ELSE CHOOSE d \in Data : \E l \in Loc, e \in Data : prog.call[l] = f /\ d = CalleeInput(l, e)

InContext(w) == w.input = ContextOf(w.func)

\* Callsites lie in their caller, which has the one input it may have; so do the callsites
\* they hold.
SitesInContext(U) ==
  \A c \in U : /\ c.caller \in Func /\ c.instr[1] \in prog.blocks[c.caller]
               /\ c.caller_input \in Data /\ c.caller_input = ContextOf(c.caller)
               /\ c.caller_callsites \subseteq U

ContextFunc(U) == {w \in WorkingFunc(U) : InContext(w)}

WaitingInContext(U) ==
  /\ wfuncs \in Seq(ContextFunc(U))
  /\ \A k \in DOMAIN fenvs : k[2] = ContextOf(k[1]) /\ fenvs[k].callsites \subseteq U
  /\ waking \subseteq U
  /\ session # NoSession => session.wf \in ContextFunc(U) /\ session.callsites \subseteq U

\* Function and input k wait in the list Q: to be analysed, or for a callee that waits.
AwaitsSite(sites, k) == \E c \in sites : <<c.caller, c.caller_input>> = k
Awaits(Q, k) ==
  \E i \in DOMAIN Q : <<Q[i].func, Q[i].input>> = k \/ AwaitsSite(Q[i].callsites, k)

SessionKey == <<session.wf.func, session.wf.input>>

Pending(k) ==
  \/ Awaits(wfuncs, k)
  \/ AwaitsSite(waking, k)
  \/ session # NoSession /\ AwaitsSite(session.wf.callsites, k)

\* An instruction that was reached and has no output.
Gap(f, in, out, l) ==
  /\ MustHaveOutput(f, l) /\ out[l] = None
  /\ (IF l[2] = 1 THEN in[l[1]] ELSE out[<<l[1], l[2] - 1>>]) # None

StandsAt(W, l) == \E w \in W : <<w.block, w.instr>> = l

EnvsResumable ==
  \A k \in DOMAIN fenvs :
    /\ fenvs[k].binput[prog.body[k[1]].entry] # None
    /\ \A b \in prog.blocks[k[1]] : fenvs[k].output[LastLoc(b)] # None =>
         \A c \in prog.body[k[1]].succ[b] : fenvs[k].binput[c] # None
    /\ \A l \in Loc : Gap(k[1], fenvs[k].binput, fenvs[k].output, l) =>
         /\ StandsAt(fenvs[k].marks, l)
         /\ Pending(k) \/ (session # NoSession /\ k = SessionKey)

SessionResumable ==
  session # NoSession =>
    /\ waking = {}
    /\ StandsAt(wblks, <<graph.entry, 1>>) \/ binput[graph.entry] # None
    /\ \A b \in prog.blocks[session.wf.func] : output[LastLoc(b)] # None =>
         \/ Running(b) /\ cur.instr > Size[b]
         \/ \A c \in graph.succ[b] : StandsAt(wblks, <<c, 1>>) \/ binput[c] # None
    /\ \A l \in Loc : Gap(session.wf.func, binput, output, l) =>
         \/ cur # None /\ CurLoc = l
         \/ StandsAt(wblks, l)
         \/ StandsAt(marks, l) /\ Awaits(wfuncs, SessionKey)

\* An analysed input has a completed environment and a summary.
AnalyzedCompleted ==
  \A k \in analyzed :
    /\ k \in DOMAIN fenvs /\ EnvCompleted(k[1], fenvs[k].output)
    /\ k[1] # Main => k \in DOMAIN summaries
    /\ session # NoSession /\ k = SessionKey => EnvCompleted(k[1], output)

\* Nothing else of the state decides which inputs are possible.
LEMMA ContextFixed ==
  ASSUME prog' = prog
  PROVE  /\ \A f : ContextOf(f)' = ContextOf(f)
         /\ \A U : SitesInContext(U)' = SitesInContext(U)
         /\ OneContext' = OneContext
BY DEF ContextOf, SitesInContext, OneContext

LEMMA CalleeContext ==
  ASSUME IsProgram(prog), OneContext, NEW l \in Loc, prog.call[l] # None, NEW d \in Data
  PROVE  CalleeInput(l, d) = ContextOf(prog.call[l]) /\ prog.call[l] # Main
<1> DEFINE f == prog.call[l]
           P(c) == \E m \in Loc, e \in Data : prog.call[m] = f /\ c = CalleeInput(m, e)
<1>1. f # Main /\ CalleeInput(l, d) \in Data
  BY CallAssumption DEF OneContext
<1>2. P(CalleeInput(l, d))
  OBVIOUS
<1>3. \E c \in Data : P(c)
  BY <1>1, <1>2
<1>4. ContextOf(f) = CHOOSE c \in Data : P(c)
  BY <1>1 DEF ContextOf
<1>5. P(ContextOf(f))
  BY <1>3, <1>4
<1>6. PICK m \in Loc, e \in Data : prog.call[m] = f /\ ContextOf(f) = CalleeInput(m, e)
  BY <1>5
<1> QED
  BY <1>1, <1>6 DEF OneContext

\* Enqueuing leaves what waits waiting, and an entry that is not skipped waits.
LEMMA RecordContext ==
  ASSUME NEW U, SitesInContext(U), NEW Q \in Seq(ContextFunc(U)), NEW wf \in ContextFunc(U)
  PROVE  /\ record_working_func(Q, wf) \in Seq(ContextFunc(U))
         /\ \A k : Awaits(Q, k) => Awaits(record_working_func(Q, wf), k)
         /\ Awaits(record_working_func(Q, wf), <<wf.func, wf.input>>)
         /\ \A k : AwaitsSite(wf.callsites, k) => Awaits(record_working_func(Q, wf), k)
<1> DEFINE same(v) == v.func = wf.func /\ v.input = wf.input
           superseded(v) == /\ v.func = wf.func /\ v.input # wf.input
                            /\ \A c \in wf.callsites : \E d \in v.callsites : c.instr = d.instr
           updated(v) == IF same(v) THEN [v EXCEPT !.callsites = concat_callsites(wf.callsites, @)]
                         ELSE IF superseded(v) THEN wf ELSE v
           changed == [i \in DOMAIN Q |-> updated(Q[i])]
           more == IF \E v \in Range(Q) : same(v) \/ superseded(v) THEN <<>> ELSE <<wf>>
           R == record_working_func(Q, wf)
<1>1. R = changed \o more
  BY DEF record_working_func
<1>2. DOMAIN Q = 1 .. Len(Q) /\ Len(Q) \in Nat /\ \A i \in DOMAIN Q : Q[i] \in ContextFunc(U)
  OBVIOUS
<1>3. ASSUME NEW v \in ContextFunc(U) PROVE ~ superseded(v)
  BY DEF ContextFunc, InContext
<1>4. ASSUME NEW v \in ContextFunc(U), same(v)
      PROVE  /\ updated(v) \in ContextFunc(U)
             /\ updated(v).func = v.func /\ updated(v).input = v.input
             /\ updated(v).callsites = concat_callsites(wf.callsites, v.callsites)
  <2>1. v \in WorkingFunc(U) /\ wf \in WorkingFunc(U) /\ v.input = ContextOf(v.func)
    BY DEF ContextFunc, InContext
  <2>2. concat_callsites(wf.callsites, v.callsites) \subseteq U
    BY <2>1 DEF concat_callsites, WorkingFunc
  <2>3. updated(v) = [v EXCEPT !.callsites = concat_callsites(wf.callsites, v.callsites)]
    BY <1>4
  <2>4. updated(v) = [func |-> v.func, input |-> v.input,
                      callsites |-> concat_callsites(wf.callsites, v.callsites)]
    BY <2>1, <2>3 DEF WorkingFunc
  <2>5. updated(v) \in WorkingFunc(U)
    BY <2>1, <2>2, <2>4 DEF WorkingFunc
  <2> QED
    BY <2>1, <2>4, <2>5 DEF ContextFunc, InContext
<1>5. ASSUME NEW v \in ContextFunc(U) PROVE updated(v) \in ContextFunc(U)
  BY <1>3, <1>4
<1>6. \A c \in wf.callsites : c \in U
  BY DEF ContextFunc, WorkingFunc
<1>7. ASSUME NEW v \in ContextFunc(U), NEW k, <<v.func, v.input>> = k \/ AwaitsSite(v.callsites, k)
      PROVE  <<updated(v).func, updated(v).input>> = k \/ AwaitsSite(updated(v).callsites, k)
  <2>1. CASE same(v)
    <3>1. \A c \in v.callsites : c \in U
      BY DEF ContextFunc, WorkingFunc
    <3>2. ASSUME NEW c \in v.callsites, <<c.caller, c.caller_input>> = k
          PROVE  AwaitsSite(concat_callsites(wf.callsites, v.callsites), k)
      <4>1. CASE c \in concat_callsites(wf.callsites, v.callsites)
        BY <3>2, <4>1 DEF AwaitsSite
      <4>2. CASE c \notin concat_callsites(wf.callsites, v.callsites)
        <5>1. PICK d \in wf.callsites : equal_callsite(d, c)
          BY <4>2 DEF concat_callsites
        <5>2. d \in concat_callsites(wf.callsites, v.callsites) /\ d.caller = c.caller
          BY <5>1 DEF concat_callsites, equal_callsite
        <5>3. d.caller_input = c.caller_input
          BY <1>6, <3>1, <5>2 DEF SitesInContext
        <5> QED
          BY <3>2, <5>2, <5>3 DEF AwaitsSite
      <4> QED
        BY <4>1, <4>2
    <3> QED
      BY <1>4, <1>7, <2>1, <3>2 DEF AwaitsSite
  <2>2. CASE ~ same(v)
    BY <1>3, <1>7, <2>2
  <2> QED
    BY <2>1, <2>2
<1>8. ASSUME NEW v \in ContextFunc(U), same(v)
      PROVE  /\ <<updated(v).func, updated(v).input>> = <<wf.func, wf.input>>
             /\ wf.callsites \subseteq updated(v).callsites
  BY <1>4, <1>8 DEF concat_callsites
<1>9. changed \in Seq(ContextFunc(U)) /\ Len(changed) = Len(Q)
      /\ \A i \in DOMAIN Q : changed[i] = updated(Q[i])
  <2>1. \A i \in DOMAIN Q : updated(Q[i]) \in ContextFunc(U)
    BY <1>2, <1>5
  <2> HIDE DEF updated
  <2> QED
    BY <1>2, <2>1
<1>10. more \in Seq(ContextFunc(U))
  BY DEF more
<1>11. (\E i \in DOMAIN Q : same(Q[i])) \/ more = <<wf>>
  BY <1>2, <1>3 DEF Range
<1> HIDE DEF updated, changed, more, same, superseded, R
<1>12. R \in Seq(ContextFunc(U))
  BY <1>1, <1>9, <1>10
<1>13. ASSUME NEW i \in DOMAIN Q PROVE i \in DOMAIN R /\ R[i] = updated(Q[i])
  <2>1. i \in 1 .. Len(changed) /\ DOMAIN R = 1 .. Len(R) /\ Len(R) = Len(changed) + Len(more)
    <3>1. DOMAIN R = 1 .. Len(R)
      BY <1>12
    <3>2. Len(R) = Len(changed) + Len(more)
      BY <1>1, <1>9, <1>10, ConcatProperties
    <3> QED
      BY <1>2, <1>9, <3>1, <3>2
  <2>2. R[i] = changed[i]
    BY <1>1, <1>9, <1>10, <2>1
  <2> QED
    BY <1>9, <1>10, <2>1, <2>2
<1>14. ASSUME more = <<wf>> PROVE \E i \in DOMAIN R : R[i] = wf
  <2>1. Len(R) = Len(changed) + 1 /\ R[Len(R)] = wf /\ Len(R) \in DOMAIN R
    BY <1>1, <1>9, <1>14
  <2> QED
    BY <2>1
<1>15. ASSUME NEW k, Awaits(Q, k) PROVE Awaits(R, k)
  BY <1>2, <1>7, <1>13, <1>15 DEF Awaits
<1>16. \E i \in DOMAIN R : /\ <<R[i].func, R[i].input>> = <<wf.func, wf.input>>
                           /\ wf.callsites \subseteq R[i].callsites
  <2>1. CASE more = <<wf>>
    BY <1>14, <2>1
  <2>2. CASE \E i \in DOMAIN Q : same(Q[i])
    BY <1>2, <1>8, <1>13, <2>2
  <2> QED
    BY <1>11, <2>1, <2>2
<1>17. Awaits(R, <<wf.func, wf.input>>) /\ \A k : AwaitsSite(wf.callsites, k) => Awaits(R, k)
  BY <1>16 DEF Awaits, AwaitsSite
<1> QED
  BY <1>12, <1>15, <1>17 DEF R

LEMMA EnqueueContext ==
  ASSUME NEW U, SitesInContext(U), NEW Q \in Seq(ContextFunc(U)), NEW wf \in ContextFunc(U), NEW done
  PROVE  LET R == enqueue_to_analyze_func(Q, done, wf)
         IN  /\ R \in Seq(ContextFunc(U))
             /\ \A k : Awaits(Q, k) => Awaits(R, k)
             /\ <<wf.func, wf.input>> \in done \/ Awaits(R, <<wf.func, wf.input>>)
<1> DEFINE R == enqueue_to_analyze_func(Q, done, wf)
           key == <<wf.func, wf.input>>
<1>1. CASE R = record_working_func(Q, wf)
  BY <1>1, RecordContext
<1>2. CASE R = Q /\ key \in done
  BY <1>2
<1>3. ASSUME R = Q, NEW v \in Range(Q), v.func = wf.func PROVE Awaits(R, key)
  <2>1. PICK i \in DOMAIN Q : Q[i] = v
    BY <1>3 DEF Range
  <2>2. Q[i] \in ContextFunc(U)
    OBVIOUS
  <2>3. v.input = wf.input
    BY <1>3, <2>1, <2>2 DEF ContextFunc, InContext
  <2> QED
    BY <1>3, <2>1, <2>3 DEF Awaits
<1>4. \/ R = record_working_func(Q, wf)
      \/ R = Q /\ key \in done
      \/ R = Q /\ \E v \in Range(Q) : v.func = wf.func
  BY DEF enqueue_to_analyze_func
<1> QED
  BY <1>1, <1>2, <1>3, <1>4

\* A call whose callee was not analysed yet makes its caller wait.
LEMMA CallAwaits ==
  ASSUME NEW U, SitesInContext(U), NEW Q \in Seq(ContextFunc(U)), NEW wf \in ContextFunc(U), NEW done,
         <<wf.func, wf.input>> \notin done, NEW c, wf.callsites = {c}, IsProgram(prog)
  PROVE  Awaits(enqueue_to_analyze_func(Q, done, wf), <<c.caller, c.caller_input>>)
<1> DEFINE R == enqueue_to_analyze_func(Q, done, wf)
           k == <<c.caller, c.caller_input>>
<1>1. c \in U /\ AwaitsSite(wf.callsites, k)
  BY DEF ContextFunc, WorkingFunc, AwaitsSite
<1>2. CASE R = record_working_func(Q, wf)
  <2> HIDE DEF R, k
  <2>1. Awaits(record_working_func(Q, wf), k)
    BY <1>1, RecordContext
  <2> QED
    BY <1>2, <2>1 DEF R, k
<1>3. ASSUME R = Q, NEW v \in Range(Q), NEW d \in v.callsites, c.instr = d.instr PROVE Awaits(R, k)
  <2>1. PICK i \in DOMAIN Q : Q[i] = v
    BY <1>3 DEF Range
  <2>2. d \in U
    BY <2>1 DEF ContextFunc, WorkingFunc
  <2>3. d.caller = c.caller /\ d.caller_input = c.caller_input
    BY <1>1, <1>3, <2>2 DEF SitesInContext, IsProgram
  <2> QED
    BY <1>3, <2>1, <2>3 DEF Awaits, AwaitsSite
<1>4. \/ R = record_working_func(Q, wf)
      \/ R = Q /\ \E v \in Range(Q) : \E d \in v.callsites : c.instr = d.instr
  BY DEF enqueue_to_analyze_func
<1> QED
  BY <1>2, <1>3, <1>4

ContextInv == \E U : SitesInContext(U) /\ WaitingInContext(U)

ResumeInv == ContextInv /\ EnvsResumable /\ SessionResumable /\ AnalyzedCompleted

\* Steps of a session keep what they find in the tables and in the list.
LEMMA OutsideKept ==
  ASSUME UNCHANGED <<prog, fenvs, summaries, analyzed, waking, session>>,
         \A k : Awaits(wfuncs, k) => Awaits(wfuncs', k),
         \A l \in Loc : output[l] # None => output'[l] # None
  PROVE  (EnvsResumable => EnvsResumable') /\ (AnalyzedCompleted => AnalyzedCompleted')
<1>1. \A k : Pending(k) => Pending(k)'
  BY DEF Pending, AwaitsSite, Awaits
<1>2. SessionKey' = SessionKey
  BY DEF SessionKey
<1>3. \A f, in, out, l : Gap(f, in, out, l)' = Gap(f, in, out, l)
  BY DEF Gap, MustHaveOutput
<1>4. ASSUME EnvsResumable PROVE EnvsResumable'
  BY <1>1, <1>2, <1>3, <1>4 DEF EnvsResumable
<1>5. ASSUME AnalyzedCompleted PROVE AnalyzedCompleted'
  <2>1. ASSUME NEW f, EnvCompleted(f, output) PROVE EnvCompleted(f, output)'
    BY <2>1 DEF EnvCompleted, MustHaveOutput
  <2>2. \A f, out : EnvCompleted(f, out) => \A l \in Loc : MustHaveOutput(f, l)' => out[l] # None
    BY DEF EnvCompleted, MustHaveOutput
  <2>3. \A k \in analyzed : EnvCompleted(k[1], fenvs[k].output)'
    BY <1>5, <2>2 DEF AnalyzedCompleted, EnvCompleted
  <2> QED
    BY <1>2, <1>5, <2>1, <2>3 DEF AnalyzedCompleted
<1> QED
  BY <1>4, <1>5

\* Recording an output, and going on with the block when it is new, forgets nothing.
LEMMA RecordResumes ==
  ASSUME InterTypeOK, PointsOK, session # NoSession, SessionResumable, InBlock,
         NEW d \in Data, RecordOutput(d), UNCHANGED <<graph, wblks, binput, prog, session, waking>>,
         \A l : StandsAt(marks, l) => StandsAt(marks', l),
         \A k : Awaits(wfuncs, k) => Awaits(wfuncs', k)
  PROVE  SessionResumable' /\ \A l \in Loc : output[l] # None => output'[l] # None
<1> USE NoneAssumption
<1> DEFINE f == session.wf.func
<1>1. /\ cur # None /\ cur \in WorkingBlock /\ cur.block \in Block /\ cur.instr \in Nat
      /\ cur.instr >= 1 /\ cur.instr <= Size[cur.block] /\ CurLoc \in Loc
      /\ cur.block \in prog.blocks[f] /\ Size[cur.block] \in Nat /\ f \in Func
      /\ prog.blocks[f] \subseteq Block /\ graph = prog.body[f]
  BY SessionFacts, LocFacts DEF InBlock
<1>2. /\ output' = [output EXCEPT ![CurLoc] = d] /\ output'[CurLoc] = d
      /\ cur' # None => cur' = [block |-> cur.block, instr |-> cur.instr + 1, input |-> d]
      /\ cur' = None => output[CurLoc] # None
  <2>1. cur' = None => output[CurLoc] # None
    BY <1>1 DEF RecordOutput, WorkingBlock
  <2> QED
    BY <1>1, <2>1, RecordType DEF InterTypeOK
<1>3. output'[CurLoc] # None /\ \A l \in Loc : l # CurLoc => output'[l] = output[l]
  BY <1>1, <1>2 DEF InterTypeOK, TypeOK
<1>4. SessionKey' = SessionKey
  BY DEF SessionKey
<1>5. ASSUME NEW l \in Loc, Gap(f, binput, output, l)', ~ (cur' # None /\ CurLoc' = l)
      PROVE  StandsAt(wblks, l) \/ (StandsAt(marks', l) /\ Awaits(wfuncs', SessionKey))
  <2>1. l # CurLoc /\ output[l] = None /\ MustHaveOutput(f, l)
    BY <1>3, <1>5 DEF Gap, MustHaveOutput
  <2>2. Gap(f, binput, output, l)
    <3>1. CASE l[2] = 1
      BY <1>5, <2>1, <3>1 DEF Gap
    <3>2. CASE l[2] # 1
      <4>1. <<l[1], l[2] - 1>> \in Loc /\ output'[<<l[1], l[2] - 1>>] # None
        BY <1>5, <3>2, LocFacts DEF Gap
      <4>2. CASE <<l[1], l[2] - 1>> # CurLoc
        BY <1>3, <2>1, <3>2, <4>1, <4>2 DEF Gap
      <4>3. CASE <<l[1], l[2] - 1>> = CurLoc
        <5>1. l = <<cur.block, cur.instr + 1>>
          BY <1>1, <4>3, LocFacts DEF CurLoc
        <5>2. cur' = None
          BY <1>2, <1>5, <5>1 DEF CurLoc
        <5> QED
          BY <1>2, <2>1, <3>2, <4>3, <5>2 DEF Gap
      <4> QED
        BY <4>2, <4>3
    <3> QED
      BY <3>1, <3>2
  <2> QED
    BY <2>1, <2>2 DEF SessionResumable
<1>6. ASSUME NEW b \in prog.blocks[f], output'[LastLoc(b)] # None
      PROVE  \/ Running(b)' /\ cur'.instr > Size[b]
             \/ \A c \in graph.succ[b] : StandsAt(wblks, <<c, 1>>) \/ binput[c] # None
  <2>1. LastLoc(b) \in Loc /\ b \in Block
    BY <1>1, LocFacts
  <2>2. ~ (Running(b) /\ cur.instr > Size[b])
    BY <1>1 DEF Running
  <2>3. CASE output[LastLoc(b)] # None
    BY <2>2, <2>3 DEF SessionResumable
  <2>4. CASE output[LastLoc(b)] = None
    <3>1. LastLoc(b) = CurLoc
      BY <1>3, <1>6, <2>1, <2>4
    <3>2. cur' # None /\ cur.block = b /\ cur.instr = Size[b]
      BY <1>2, <2>4, <3>1 DEF LastLoc, CurLoc
    <3> QED
      BY <1>1, <1>2, <3>2 DEF Running
  <2> QED
    BY <2>3, <2>4
<1>7. StandsAt(wblks, <<graph.entry, 1>>) \/ binput[graph.entry] # None
  BY DEF SessionResumable
<1>8. \A l : StandsAt(wblks', l) = StandsAt(wblks, l)
  BY DEF StandsAt
<1>9. SessionResumable'
  BY <1>4, <1>5, <1>6, <1>7, <1>8 DEF SessionResumable
<1> QED
  BY <1>3, <1>9

LEMMA BlockStepResumes ==
  ASSUME InterTypeOK, PointsOK, ResumeInv, BlockStep
  PROVE  ResumeInv'
<1> USE NoneAssumption
<1> DEFINE f == session.wf.func
<1>1. /\ session # NoSession /\ session' = session /\ prog' = prog /\ fenvs' = fenvs /\ marks' = marks
      /\ wfuncs' = wfuncs /\ summaries' = summaries /\ waking' = waking /\ analyzed' = analyzed
  BY DEF BlockStep, funcVars
<1>2. /\ f \in Func /\ graph = prog.body[f] /\ prog.blocks[f] \subseteq Block /\ TypeOK
      /\ prog.body[f].entry \in prog.blocks[f]
  BY <1>1, SessionFacts, ProgramFacts DEF InterTypeOK
<1>3. ContextInv'
  <2>1. PICK U : SitesInContext(U) /\ WaitingInContext(U)
    BY DEF ResumeInv, ContextInv
  <2>2. SitesInContext(U)' /\ WaitingInContext(U)'
    BY <1>1, <2>1, ContextFixed DEF WaitingInContext, ContextFunc, InContext
  <2> QED
    BY <2>2 DEF ContextInv
<1>4. \A k : Awaits(wfuncs, k) => Awaits(wfuncs', k)
  BY <1>1
<1>5. ASSUME \A l \in Loc : output[l] # None => output'[l] # None, SessionResumable' PROVE ResumeInv'
  BY <1>1, <1>3, <1>4, <1>5, OutsideKept DEF ResumeInv
<1>6. SessionKey' = SessionKey /\ \A g, in, out, l : Gap(g, in, out, l)' = Gap(g, in, out, l)
  BY <1>1 DEF SessionKey, Gap, MustHaveOutput
<1>7. CASE StartBlock
  <2>1. PICK w \in wblks :
          /\ wblks' = wblks \ {w}
          /\ binput' = IF w.instr = 1 THEN [binput EXCEPT ![w.block] = w.input] ELSE binput
          /\ cur' = w
    BY <1>7 DEF StartBlock
  <2>2. cur = None /\ UNCHANGED <<graph, output>>
    BY <1>7 DEF StartBlock
  <2>3. w \in WorkingBlock /\ w.block \in Block /\ w.input \in Data /\ w # None
    BY <1>2 DEF TypeOK, WorkingBlock
  <2>4. \A b \in Block : /\ binput[b] # None => binput'[b] # None
                         /\ b # w.block \/ w.instr # 1 => binput'[b] = binput[b]
                         /\ b = w.block /\ w.instr = 1 => binput'[b] # None
    BY <1>2, <2>1, <2>3 DEF TypeOK
  <2>5. ASSUME NEW l, StandsAt(wblks, l) PROVE StandsAt(wblks', l) \/ l = <<w.block, w.instr>>
    BY <2>1, <2>5 DEF StandsAt
  <2>6. CurLoc' = <<w.block, w.instr>> /\ cur' # None
    BY <2>1, <2>3 DEF CurLoc
  <2>7. ASSUME NEW b \in Block, StandsAt(wblks, <<b, 1>>) \/ binput[b] # None
        PROVE  StandsAt(wblks', <<b, 1>>) \/ binput'[b] # None
    BY <2>4, <2>5, <2>7
  <2>8. ASSUME NEW l \in Loc, Gap(f, binput', output', l), CurLoc' # l
        PROVE  StandsAt(wblks', l) \/ (StandsAt(marks, l) /\ Awaits(wfuncs, SessionKey))
    <3>1. Gap(f, binput, output, l)
      <4>1. l[1] \in Block /\ l = <<l[1], l[2]>>
        BY LocFacts
      <4> QED
        BY <2>2, <2>4, <2>6, <2>8, <4>1 DEF Gap
    <3> QED
      BY <1>1, <2>2, <2>5, <2>6, <2>8, <3>1 DEF ResumeInv, SessionResumable
  <2>9. ASSUME NEW b \in prog.blocks[f], output[LastLoc(b)] # None, NEW c \in graph.succ[b]
        PROVE  StandsAt(wblks', <<c, 1>>) \/ binput'[c] # None
    <3>1. c \in Block
      BY <1>2 DEF TypeOK, IsGraph
    <3>2. ~ Running(b)
      BY <2>2 DEF Running
    <3> QED
      BY <1>1, <2>7, <2>9, <3>1, <3>2 DEF ResumeInv, SessionResumable
  <2>10. StandsAt(wblks', <<graph.entry, 1>>) \/ binput'[graph.entry] # None
    BY <1>1, <1>2, <2>7 DEF ResumeInv, SessionResumable
  <2>11. SessionResumable'
    BY <1>1, <1>6, <2>2, <2>6, <2>8, <2>9, <2>10 DEF ResumeInv, SessionResumable
  <2> QED
    BY <1>5, <2>2, <2>11
<1>8. CASE analyze_instr
  <2> DEFINE d == Transfer(cur.block, cur.instr, cur.input)
  <2>1. InBlock /\ UNCHANGED <<graph, wblks, binput>> /\ RecordOutput(d)
    BY <1>8 DEF analyze_instr
  <2>2. d \in Data
    BY <1>1, <2>1, SessionFacts, DataAssumption DEF InBlock, CurLoc
  <2> HIDE DEF d
  <2> QED
    BY <1>1, <1>4, <1>5, <2>1, <2>2, RecordResumes DEF ResumeInv
<1>9. CASE analyze_instr_unreachable
  <2>1. /\ InBlock /\ AtUnreachable /\ cur' = None
        /\ UNCHANGED <<graph, wblks, binput, output>>
    BY <1>9 DEF analyze_instr_unreachable
  <2>2. ASSUME NEW l \in Loc, Gap(f, binput, output, l) PROVE CurLoc # l
    BY <1>2, <2>1, <2>2 DEF Gap, MustHaveOutput, AtUnreachable, CurLoc
  <2>3. \A b : ~ (Running(b) /\ cur.instr > Size[b])
    BY <1>1, <2>1, SessionFacts, LocFacts DEF Running, InBlock
  <2>4. \A l : StandsAt(wblks', l) = StandsAt(wblks, l) /\ StandsAt(marks', l) = StandsAt(marks, l)
    BY <1>1, <2>1 DEF StandsAt
  <2>5. SessionResumable'
    BY <1>1, <1>4, <1>6, <2>1, <2>2, <2>3, <2>4 DEF ResumeInv, SessionResumable
  <2> QED
    BY <1>5, <2>1, <2>5
<1>10. CASE EnqueueSuccessors
  <2> DEFINE bs == graph.succ[cur.block]
  <2>1. /\ cur # None /\ cur.instr > Size[cur.block] /\ wblks' = EnqueueBlocks(bs) /\ cur' = None
        /\ UNCHANGED <<graph, finput, times, binput, output, foutput>>
    BY <1>10 DEF EnqueueSuccessors
  <2>2. cur.block \in Block /\ bs \in SUBSET Block /\ CurLoc \notin Loc
    <3>1. cur.block \in Block /\ cur.instr \in Nat
      BY <1>1, <2>1, SessionFacts
    <3>2. CurLoc \notin Loc
      BY <2>1, <3>1, LocFacts DEF CurLoc
    <3> QED
      BY <1>2, <3>1, <3>2 DEF TypeOK, IsGraph
  <2>3. wblks \subseteq wblks' /\ \A b \in bs : StandsAt(wblks', <<b, 1>>)
    BY <1>2, <2>1, <2>2, EnqueueFacts DEF StandsAt
  <2>4. \A l : StandsAt(wblks, l) => StandsAt(wblks', l)
    BY <2>3 DEF StandsAt
  <2>5. ASSUME NEW b \in prog.blocks[f], output[LastLoc(b)] # None, NEW c \in graph.succ[b]
        PROVE  StandsAt(wblks', <<c, 1>>) \/ binput[c] # None
    <3>1. CASE b = cur.block
      BY <2>3, <2>5, <3>1
    <3>2. CASE b # cur.block
      BY <1>1, <2>4, <2>5, <3>2 DEF ResumeInv, SessionResumable, Running
    <3> QED
      BY <3>1, <3>2
  <2>6. SessionResumable'
    BY <1>1, <1>4, <1>6, <2>1, <2>2, <2>4, <2>5 DEF ResumeInv, SessionResumable
  <2> QED
    BY <1>5, <2>1, <2>6
<1> QED
  BY <1>7, <1>8, <1>9, <1>10 DEF BlockStep

LEMMA CallResumes ==
  ASSUME InterTypeOK, PointsOK, OneContext, ResumeInv, analyze_instr_call_user_func
  PROVE  ResumeInv'
<1> USE NoneAssumption
<1> DEFINE f == session.wf.func
           callee == prog.call[CurLoc]
           input == CalleeInput(CurLoc, cur.input)
           callsite == [instr |-> CurLoc, caller |-> f,
                        caller_input |-> finput, caller_callsites |-> session.callsites,
                        callee |-> callee, callee_input |-> input]
           wf == [func |-> callee, input |-> input, callsites |-> {callsite}]
           key == <<callee, input>>
<1>1. /\ session # NoSession /\ InBlock /\ callee # None
      /\ UNCHANGED <<graph, finput, wblks, times, binput, foutput>>
      /\ UNCHANGED <<prog, fenvs, summaries, analyzed, ftimes, top, waking, session>>
  BY DEF analyze_instr_call_user_func, AtCall
<1>2. /\ cur # None /\ cur.input \in Data /\ CurLoc \in Loc /\ f \in Func /\ finput = session.wf.input
      /\ cur.block \in prog.blocks[f] /\ finput \in Data /\ IsProgram(prog)
  BY <1>1, SessionFacts DEF InBlock, InterTypeOK, TypeOK
<1>3. callee \in Func /\ input \in Data /\ input = ContextOf(callee) /\ callee # Main
  BY <1>1, <1>2, CallAssumption, CalleeContext DEF IsProgram
<1>4. PICK U : SitesInContext(U) /\ WaitingInContext(U)
  BY DEF ResumeInv, ContextInv
<1>v. PICK V : V = U \union {callsite}
  OBVIOUS
<1>5. SitesInContext(V)
  <2>1. session.callsites \subseteq U /\ finput = ContextOf(f)
    BY <1>1, <1>2, <1>4 DEF WaitingInContext, ContextFunc, InContext
  <2> QED
    BY <1>v, <1>2, <1>4, <2>1 DEF SitesInContext, CurLoc
<1>6. WaitingInContext(V) /\ wf \in ContextFunc(V)
  <2>1. ContextFunc(U) \subseteq ContextFunc(V)
    BY <1>v DEF ContextFunc, WorkingFunc
  <2>2. wf \in ContextFunc(V)
    BY <1>v, <1>3 DEF ContextFunc, WorkingFunc, InContext
  <2> HIDE DEF wf
  <2>3. wfuncs \in Seq(ContextFunc(V))
    BY <1>4, <2>1 DEF WaitingInContext
  <2>4. U \subseteq V
    BY <1>v
  <2> QED
    BY <1>4, <2>1, <2>2, <2>3, <2>4 DEF WaitingInContext
<1>7. /\ IF ftimes[callee] = 0 \/ key \notin analyzed
         THEN wfuncs' = enqueue_to_analyze_func(wfuncs, analyzed, wf) /\ marks' = MarkCall
         ELSE wfuncs' = wfuncs /\ marks' = marks
      /\ \/ \E sum \in get_suitable_func_summary(callee, input) :
              RecordOutput(CallOutput(CurLoc, cur.input, sum))
         \/ get_suitable_func_summary(callee, input) = {} /\ cur' = None /\ output' = output
  BY DEF analyze_instr_call_user_func
<1>8. ASSUME key \notin analyzed PROVE Awaits(wfuncs', SessionKey) /\ StandsAt(marks', CurLoc)
  <2>1. wfuncs' = enqueue_to_analyze_func(wfuncs, analyzed, wf) /\ marks' = MarkCall
    BY <1>7, <1>8
  <2>2. StandsAt(marks', CurLoc)
    BY <2>1 DEF MarkCall, StandsAt, equal_working_block, CurLoc
  <2>3. /\ wf.callsites = {callsite} /\ <<wf.func, wf.input>> = key
        /\ SessionKey = <<callsite.caller, callsite.caller_input>>
    BY <1>2 DEF SessionKey
  <2>4. wfuncs \in Seq(ContextFunc(V))
    BY <1>6 DEF WaitingInContext
  <2> HIDE DEF wf, callsite, key
  <2>5. Awaits(wfuncs', <<callsite.caller, callsite.caller_input>>)
    BY <1>2, <1>5, <1>6, <1>8, <2>1, <2>3, <2>4, CallAwaits
  <2> QED
    BY <2>2, <2>3, <2>5
<1>9. ASSUME get_suitable_func_summary(callee, input) = {} PROVE key \notin analyzed
  BY <1>3, <1>9 DEF get_suitable_func_summary, ResumeInv, AnalyzedCompleted
<1>10. ASSUME NEW sum \in get_suitable_func_summary(callee, input)
       PROVE  CallOutput(CurLoc, cur.input, sum) \in Data
  <2>1. sum \in Data
    BY DEF get_suitable_func_summary, InterTypeOK, SummaryTypes
  <2> QED
    BY <1>2, <2>1, CallAssumption
<1>11. wfuncs' \in Seq(ContextFunc(V)) /\ \A k : Awaits(wfuncs, k) => Awaits(wfuncs', k)
  <2>1. wfuncs \in Seq(ContextFunc(V))
    BY <1>6 DEF WaitingInContext
  <2> HIDE DEF wf, key
  <2> QED
    BY <1>5, <1>6, <1>7, <2>1, EnqueueContext
<1>12. \A l : StandsAt(marks, l) => StandsAt(marks', l)
  BY <1>7 DEF MarkCall, StandsAt
<1> HIDE DEF wf, callsite
<1>13. ContextInv'
  <2>1. SitesInContext(V)'
    BY <1>1, <1>5, ContextFixed
  <2>2. ContextFunc(V)' = ContextFunc(V)
    BY <1>1, ContextFixed DEF ContextFunc, InContext
  <2>3. WaitingInContext(V)'
    BY <1>1, <1>6, <1>11, <2>2, ContextFixed DEF WaitingInContext
  <2> QED
    BY <2>1, <2>3 DEF ContextInv
<1>14. SessionResumable' /\ \A l \in Loc : output[l] # None => output'[l] # None
  <2>1. CASE \E d \in Data : RecordOutput(d)
    BY <1>1, <1>11, <1>12, <2>1, RecordResumes DEF ResumeInv
  <2>2. CASE get_suitable_func_summary(callee, input) = {} /\ cur' = None /\ output' = output
    <3>1. Awaits(wfuncs', SessionKey) /\ StandsAt(marks', CurLoc)
      BY <1>8, <1>9, <2>2
    <3>2. SessionKey' = SessionKey /\ \A g, in, out, l : Gap(g, in, out, l)' = Gap(g, in, out, l)
      BY <1>1 DEF SessionKey, Gap, MustHaveOutput
    <3>3. \A b : ~ (Running(b) /\ cur.instr > Size[b])
      BY <1>1, SessionFacts, LocFacts DEF Running, InBlock
    <3>4. SessionResumable'
      BY <1>1, <1>11, <1>12, <2>2, <3>1, <3>2, <3>3 DEF ResumeInv, SessionResumable
    <3> QED
      BY <2>2, <3>4
  <2> QED
    BY <1>7, <1>10, <2>1, <2>2
<1> QED
  BY <1>1, <1>11, <1>13, <1>14, OutsideKept DEF ResumeInv

LEMMA RemoveKeeps ==
  ASSUME NEW S, NEW Q \in Seq(S), NEW i \in DOMAIN Q, NEW j \in DOMAIN Q, i # j
  PROVE  \E m \in DOMAIN RemoveAt(Q, i) : RemoveAt(Q, i)[m] = Q[j]
<1> DEFINE A == SubSeq(Q, 1, i - 1)
           B == SubSeq(Q, i + 1, Len(Q))
<1>1. i \in 1 .. Len(Q) /\ j \in 1 .. Len(Q) /\ Len(Q) \in Nat
  OBVIOUS
<1>2. /\ A \in Seq(S) /\ Len(A) = i - 1 /\ \A n \in 1 .. i - 1 : A[n] = Q[n]
      /\ B \in Seq(S) /\ Len(B) = Len(Q) - i /\ \A n \in 1 .. Len(Q) - i : B[n] = Q[n + i]
  BY <1>1
<1> HIDE DEF A, B
<1>3. /\ A \o B \in Seq(S) /\ Len(A \o B) = Len(Q) - 1
      /\ \A n \in 1 .. Len(Q) - 1 : (A \o B)[n] = IF n <= i - 1 THEN A[n] ELSE B[n - (i - 1)]
  <2>1. /\ A \o B \in Seq(S) /\ Len(A \o B) = Len(A) + Len(B)
        /\ \A n \in 1 .. Len(A) + Len(B) : (A \o B)[n] = IF n <= Len(A) THEN A[n] ELSE B[n - Len(A)]
    BY <1>2, ConcatProperties
  <2>2. Len(A) + Len(B) = Len(Q) - 1 /\ Len(A) = i - 1
    BY <1>1, <1>2
  <2> QED
    BY <2>1, <2>2
<1>4. RemoveAt(Q, i) = A \o B
  BY DEF RemoveAt, A, B
<1>5. CASE j < i
  <2>1. j \in 1 .. Len(Q) - 1 /\ (A \o B)[j] = Q[j]
    BY <1>1, <1>2, <1>3, <1>5
  <2> QED
    BY <1>3, <1>4, <2>1
<1>6. CASE j > i
  <2>1. j - 1 \in 1 .. Len(Q) - 1 /\ (A \o B)[j - 1] = B[j - i]
    BY <1>1, <1>2, <1>3, <1>6
  <2>2. B[j - i] = Q[j]
    BY <1>1, <1>2, <1>6
  <2> QED
    BY <1>3, <1>4, <2>1, <2>2
<1> QED
  BY <1>1, <1>5, <1>6

LEMMA StartFuncResumes ==
  ASSUME InterTypeOK, PointsOK, ResumeInv, StartFunc
  PROVE  ResumeInv'
<1> USE NoneAssumption
<1> DEFINE Key(wf) == <<wf.func, wf.input>>
           Env(wf) == IF Key(wf) \in DOMAIN fenvs THEN fenvs[Key(wf)] ELSE mk_func_env(wf)
<1>1. /\ session = NoSession /\ waking = {} /\ cur = None
      /\ UNCHANGED <<cur, prog, fenvs, summaries, analyzed, waking>>
  BY DEF InterTypeOK, SessionTypes, StartFunc
<1>2. PICK i \in DOMAIN wfuncs :
        LET wf == wfuncs[i]
        IN  /\ wfuncs' = RemoveAt(wfuncs, i)
            /\ session' = [wf |-> wf, callsites |-> Env(wf).callsites]
            /\ graph' = prog.body[wf.func]
            /\ binput' = Env(wf).binput
            /\ output' = Env(wf).output
            /\ wblks' = IF Env(wf).marks # {} THEN Env(wf).marks
                        ELSE {[block |-> prog.body[wf.func].entry, instr |-> 1,
                               input |-> wf.input]}
  BY DEF StartFunc
<1> DEFINE wf == wfuncs[i]
           fe == Env(wf)
           key == Key(wf)
<1>3. PICK U : SitesInContext(U) /\ WaitingInContext(U)
  BY DEF ResumeInv, ContextInv
<1>4. wf \in ContextFunc(U) /\ wfuncs' \in Seq(ContextFunc(U))
  BY <1>2, <1>3, RemoveType DEF WaitingInContext
<1>5. wf.callsites \subseteq U /\ fe.callsites \subseteq U /\ wf.func \in Func
  BY <1>3, <1>4 DEF ContextFunc, WorkingFunc, WaitingInContext, mk_func_env
<1>6. session' # NoSession /\ session'.wf = wf /\ session'.callsites = fe.callsites /\ SessionKey' = key
  <2>1. session' = [wf |-> wf, callsites |-> fe.callsites]
    BY <1>2
  <2>2. session' # NoSession
    BY <1>5, <2>1, ProgramAssumption DEF NoSession
  <2> QED
    BY <2>1, <2>2 DEF SessionKey
<1>7. ContextInv'
  <2>1. SitesInContext(U)' /\ ContextFunc(U)' = ContextFunc(U)
    BY <1>1, <1>3, ContextFixed DEF ContextFunc, InContext
  <2> HIDE DEF wf, fe
  <2>2. WaitingInContext(U)'
    BY <1>1, <1>3, <1>4, <1>5, <1>6, <2>1, ContextFixed DEF WaitingInContext
  <2> QED
    BY <2>1, <2>2 DEF ContextInv
<1>8. ASSUME NEW k, Pending(k) PROVE Pending(k)' \/ k = key
  <2>1. PICK j \in DOMAIN wfuncs : <<wfuncs[j].func, wfuncs[j].input>> = k \/ AwaitsSite(wfuncs[j].callsites, k)
    BY <1>1, <1>8 DEF Pending, Awaits, AwaitsSite
  <2>2. CASE j = i
    BY <1>6, <2>1, <2>2 DEF Pending, AwaitsSite
  <2>3. CASE j # i
    <3>1. wfuncs \in Seq(ContextFunc(U))
      BY <1>3 DEF WaitingInContext
    <3>2. PICK m \in DOMAIN wfuncs' : wfuncs'[m] = wfuncs[j]
      BY <1>2, <2>3, <3>1, RemoveKeeps
    <3>3. Awaits(wfuncs', k)
      BY <2>1, <3>2 DEF Awaits
    <3> QED
      BY <3>3 DEF Pending, Awaits, AwaitsSite
  <2> QED
    BY <2>2, <2>3
<1>9. \A g, in, out, l : Gap(g, in, out, l)' = Gap(g, in, out, l)
  BY <1>1 DEF Gap, MustHaveOutput
<1>10. graph' = prog.body[wf.func] /\ binput' = fe.binput /\ output' = fe.output
       /\ wblks' = IF fe.marks # {} THEN fe.marks
                   ELSE {[block |-> prog.body[wf.func].entry, instr |-> 1, input |-> wf.input]}
  BY <1>2
<1>11. ASSUME key \in DOMAIN fenvs PROVE fe = fenvs[key]
  BY <1>11
<1>12. ASSUME key \notin DOMAIN fenvs PROVE fe = mk_func_env(wf)
  BY <1>12
<1>13. key[1] = wf.func
  OBVIOUS
<1> HIDE DEF wf, fe, key
<1>14. EnvsResumable'
  BY <1>1, <1>6, <1>8, <1>9 DEF ResumeInv, EnvsResumable
<1>15. AnalyzedCompleted'
  <2>1. ASSUME NEW k \in analyzed, k = key PROVE EnvCompleted(k[1], output)'
    <3>1. key \in DOMAIN fenvs /\ EnvCompleted(k[1], fenvs[k].output)
      BY <2>1 DEF ResumeInv, AnalyzedCompleted
    <3>2. output' = fenvs[k].output
      BY <1>10, <1>11, <2>1, <3>1
    <3> QED
      BY <1>1, <3>1, <3>2 DEF EnvCompleted, MustHaveOutput
  <2>2. \A k \in analyzed : EnvCompleted(k[1], fenvs[k].output)'
    BY <1>1 DEF ResumeInv, AnalyzedCompleted, EnvCompleted, MustHaveOutput
  <2> QED
    BY <1>1, <1>6, <2>1, <2>2 DEF ResumeInv, AnalyzedCompleted
<1>16. SessionResumable'
  <2>1. CASE key \in DOMAIN fenvs
    <3>1. /\ binput'[prog.body[wf.func].entry] # None
          /\ \A b \in prog.blocks[wf.func] : output'[LastLoc(b)] # None =>
               \A c \in prog.body[wf.func].succ[b] : binput'[c] # None
          /\ \A l \in Loc : Gap(wf.func, binput', output', l) => StandsAt(fe.marks, l)
      BY <1>10, <1>11, <1>13, <2>1 DEF ResumeInv, EnvsResumable
    <3>2. \A l : StandsAt(fe.marks, l) => StandsAt(wblks', l)
      BY <1>10 DEF StandsAt
    <3> QED
      BY <1>1, <1>6, <1>9, <1>10, <3>1, <3>2 DEF SessionResumable
  <2>2. CASE key \notin DOMAIN fenvs
    <3>1. /\ \A l \in Loc : output'[l] = None
          /\ \A b \in Block : binput'[b] = None
          /\ fe.marks = {}
      BY <1>10, <1>12, <2>2 DEF mk_func_env
    <3>2. StandsAt(wblks', <<prog.body[wf.func].entry, 1>>)
      BY <1>10, <3>1 DEF StandsAt
    <3>3. \A l \in Loc : ~ Gap(wf.func, binput', output', l)
      BY <3>1, LocFacts DEF Gap
    <3>4. \A b \in prog.blocks[wf.func] : output'[LastLoc(b)] = None
      BY <1>5, <3>1, LocFacts, ProgramFacts DEF InterTypeOK
    <3> QED
      BY <1>1, <1>6, <1>9, <1>10, <3>2, <3>3, <3>4 DEF SessionResumable
  <2> QED
    BY <2>1, <2>2
<1> QED
  BY <1>7, <1>14, <1>15, <1>16 DEF ResumeInv

LEMMA FinishFuncResumes ==
  ASSUME InterTypeOK, PointsOK, ResumeInv, FinishFunc
  PROVE  ResumeInv'
<1> USE NoneAssumption
<1> DEFINE wf == session.wf
           key == <<wf.func, wf.input>>
           completed == EnvCompleted(wf.func, output)
           out == IF completed /\ foutput = None THEN LeastData ELSE foutput
           fe == [binput |-> binput, output |-> output,
                  foutput |-> foutput, marks |-> marks, callsites |-> session.callsites]
           done == IF completed THEN analyzed \union {key} ELSE analyzed
<1>1. /\ session # NoSession /\ cur = None /\ wblks = {} /\ session' = NoSession
      /\ prog' = prog /\ UNCHANGED blockVars
  BY DEF FinishFunc, Finished
<1>2. /\ fenvs' = [k \in DOMAIN fenvs \union {key} |-> IF k = key THEN fe ELSE fenvs[k]]
      /\ analyzed' = done
      /\ summaries' = IF wf.func # Main /\ out # None
                      THEN [k \in DOMAIN summaries \union {key} |->
                              IF k = key THEN CleanData(wf.func, out) ELSE summaries[k]]
                      ELSE summaries
      /\ wfuncs' \in {wfuncs, enqueue_to_analyze_func(wfuncs, done, wf)}
      /\ waking' = wf.callsites
  BY DEF FinishFunc
<1>3. PICK U : SitesInContext(U) /\ WaitingInContext(U)
  BY DEF ResumeInv, ContextInv
<1>4. wf \in ContextFunc(U) /\ wfuncs \in Seq(ContextFunc(U)) /\ session.callsites \subseteq U
  BY <1>1, <1>3 DEF WaitingInContext
<1>5. wf.callsites \subseteq U /\ wf.func \in Func /\ wf.input = ContextOf(wf.func)
  BY <1>4 DEF ContextFunc, WorkingFunc, InContext
<1>6. key = SessionKey /\ key[1] = wf.func /\ key[2] = wf.input
  BY DEF SessionKey
<1>7. /\ fe.binput = binput /\ fe.output = output /\ fe.marks = marks
      /\ fe.callsites = session.callsites
  OBVIOUS
<1>8. completed => out # None
  BY DataAssumption
<1>9. completed = EnvCompleted(wf.func, output)
  OBVIOUS
<1>10. done = IF completed THEN analyzed \union {key} ELSE analyzed
  OBVIOUS
<1> HIDE DEF wf, key, fe, done, out, completed
<1>11. wfuncs' \in Seq(ContextFunc(U)) /\ \A k : Awaits(wfuncs, k) => Awaits(wfuncs', k)
  BY <1>2, <1>3, <1>4, EnqueueContext
<1>12. ContextInv'
  <2>1. SitesInContext(U)' /\ ContextFunc(U)' = ContextFunc(U)
    BY <1>1, <1>3, ContextFixed DEF ContextFunc, InContext
  <2>2. \A k \in DOMAIN fenvs' : k[2] = ContextOf(k[1]) /\ fenvs'[k].callsites \subseteq U
    BY <1>2, <1>3, <1>4, <1>5, <1>6, <1>7 DEF WaitingInContext
  <2>3. WaitingInContext(U)'
    BY <1>1, <1>2, <1>5, <1>11, <2>1, <2>2, ContextFixed DEF WaitingInContext
  <2> QED
    BY <2>1, <2>3 DEF ContextInv
<1>13. ASSUME NEW k, Pending(k) PROVE Pending(k)'
  <2>1. waking = {}
    BY <1>1 DEF ResumeInv, SessionResumable
  <2>2. Awaits(wfuncs, k) \/ AwaitsSite(wf.callsites, k)
    BY <1>13, <2>1 DEF Pending, AwaitsSite, wf
  <2> QED
    BY <1>2, <1>11, <2>2 DEF Pending, Awaits, AwaitsSite
<1>14. \A g, in, o, l : Gap(g, in, o, l)' = Gap(g, in, o, l)
  BY <1>1 DEF Gap, MustHaveOutput
<1>15. /\ binput[prog.body[wf.func].entry] # None
       /\ \A b \in prog.blocks[wf.func] : output[LastLoc(b)] # None =>
            \A c \in prog.body[wf.func].succ[b] : binput[c] # None
       /\ \A l \in Loc : Gap(wf.func, binput, output, l) => StandsAt(marks, l) /\ Awaits(wfuncs, key)
  <2>1. graph = prog.body[wf.func]
    BY <1>1, SessionFacts DEF wf
  <2>2. \A l : ~ StandsAt(wblks, l)
    BY <1>1 DEF StandsAt
  <2>3. \A b : ~ Running(b)
    BY <1>1 DEF Running
  <2> QED
    BY <1>1, <1>6, <2>1, <2>2, <2>3 DEF ResumeInv, SessionResumable, wf
<1>16. EnvsResumable'
  <2> SUFFICES ASSUME NEW k \in DOMAIN fenvs'
               PROVE  /\ fenvs'[k].binput[prog.body[k[1]].entry] # None
                      /\ \A b \in prog.blocks[k[1]] : fenvs'[k].output[LastLoc(b)] # None =>
                           \A c \in prog.body[k[1]].succ[b] : fenvs'[k].binput[c] # None
                      /\ \A l \in Loc : Gap(k[1], fenvs'[k].binput, fenvs'[k].output, l) =>
                           StandsAt(fenvs'[k].marks, l) /\ Pending(k)'
    BY <1>1, <1>14 DEF EnvsResumable
  <2>1. CASE k = key
    <3>1. fenvs'[k] = fe
      BY <1>2, <2>1
    <3>2. Awaits(wfuncs, k) => Pending(k)'
      BY <1>11 DEF Pending, Awaits, AwaitsSite
    <3> QED
      BY <1>6, <1>7, <1>15, <2>1, <3>1, <3>2
  <2>2. CASE k # key
    <3>1. k \in DOMAIN fenvs /\ fenvs'[k] = fenvs[k]
      BY <1>2, <2>2
    <3> QED
      BY <1>6, <1>13, <2>2, <3>1 DEF ResumeInv, EnvsResumable
  <2> QED
    BY <2>1, <2>2
<1>17. AnalyzedCompleted'
  <2> SUFFICES ASSUME NEW k \in analyzed'
               PROVE  /\ k \in DOMAIN fenvs' /\ EnvCompleted(k[1], fenvs'[k].output)
                      /\ k[1] # Main => k \in DOMAIN summaries'
    BY <1>1 DEF AnalyzedCompleted, EnvCompleted, MustHaveOutput
  <2>1. CASE k = key
    <3>1. completed
      <4>1. CASE k \in analyzed
        BY <1>1, <1>6, <1>9, <2>1, <4>1 DEF ResumeInv, AnalyzedCompleted
      <4>2. CASE k \notin analyzed
        BY <1>2, <1>10, <4>2
      <4> QED
        BY <4>1, <4>2
    <3>2. k \in DOMAIN fenvs' /\ fenvs'[k].output = output
      BY <1>2, <1>7, <2>1
    <3> QED
      BY <1>2, <1>6, <1>8, <1>9, <2>1, <3>1, <3>2
  <2>2. CASE k # key
    <3>1. k \in analyzed
      BY <1>2, <1>10, <2>2
    <3>2. /\ k \in DOMAIN fenvs /\ EnvCompleted(k[1], fenvs[k].output)
          /\ k[1] # Main => k \in DOMAIN summaries
      BY <3>1 DEF ResumeInv, AnalyzedCompleted
    <3> QED
      BY <1>2, <2>2, <3>2
  <2> QED
    BY <2>1, <2>2
<1>18. SessionResumable'
  BY <1>1 DEF SessionResumable
<1> QED
  BY <1>12, <1>16, <1>17, <1>18 DEF ResumeInv

LEMMA WakeCallerResumes ==
  ASSUME InterTypeOK, PointsOK, ResumeInv, WakeCaller
  PROVE  ResumeInv'
<1>1. UNCHANGED <<blockVars, prog, fenvs, summaries, analyzed, ftimes, top, session, marks>>
  BY DEF WakeCaller
<1>2. PICK c \in waking : wfuncs' = EnqueueCaller(c) /\ waking' = waking \ {c}
  BY DEF WakeCaller
<1>3. session = NoSession
  BY <1>2 DEF ResumeInv, SessionResumable
<1>4. PICK U : SitesInContext(U) /\ WaitingInContext(U)
  BY DEF ResumeInv, ContextInv
<1> DEFINE wf == [func |-> c.caller, input |-> c.caller_input, callsites |-> c.caller_callsites]
<1>5. wf \in ContextFunc(U) /\ wfuncs \in Seq(ContextFunc(U))
  BY <1>2, <1>4 DEF WaitingInContext, SitesInContext, ContextFunc, WorkingFunc, InContext
<1>6. <<wf.func, wf.input>> = <<c.caller, c.caller_input>>
  OBVIOUS
<1>7. wfuncs' = enqueue_to_analyze_func(wfuncs, analyzed, wf)
  BY <1>2 DEF EnqueueCaller
<1> HIDE DEF wf
<1>8. /\ wfuncs' \in Seq(ContextFunc(U))
      /\ \A k : Awaits(wfuncs, k) => Awaits(wfuncs', k)
      /\ <<c.caller, c.caller_input>> \in analyzed \/ Awaits(wfuncs', <<c.caller, c.caller_input>>)
  BY <1>4, <1>5, <1>6, <1>7, EnqueueContext
<1>9. ContextInv'
  <2>1. SitesInContext(U)' /\ ContextFunc(U)' = ContextFunc(U)
    BY <1>1, <1>4, ContextFixed DEF ContextFunc, InContext
  <2>2. WaitingInContext(U)'
    BY <1>1, <1>2, <1>4, <1>8, <2>1, ContextFixed DEF WaitingInContext
  <2> QED
    BY <2>1, <2>2 DEF ContextInv
<1>10. ASSUME NEW k, Pending(k) PROVE Pending(k)' \/ k \in analyzed
  <2>1. CASE Awaits(wfuncs, k)
    BY <1>8, <2>1 DEF Pending, Awaits, AwaitsSite
  <2>2. ASSUME NEW d \in waking, <<d.caller, d.caller_input>> = k PROVE Pending(k)' \/ k \in analyzed
    <3>1. CASE d = c
      BY <1>8, <2>2, <3>1 DEF Pending, Awaits, AwaitsSite
    <3>2. CASE d # c
      BY <1>2, <2>2, <3>2 DEF Pending, AwaitsSite
    <3> QED
      BY <3>1, <3>2
  <2> QED
    BY <1>3, <1>10, <2>1, <2>2 DEF Pending, AwaitsSite
<1>11. ASSUME NEW k \in DOMAIN fenvs, NEW l \in Loc, Gap(k[1], fenvs[k].binput, fenvs[k].output, l)
       PROVE  k \notin analyzed
  BY <1>11 DEF ResumeInv, AnalyzedCompleted, EnvCompleted, Gap
<1>12. \A g, in, o, l : Gap(g, in, o, l)' = Gap(g, in, o, l)
  BY <1>1 DEF Gap, MustHaveOutput
<1>13. EnvsResumable'
  <2> SUFFICES ASSUME NEW k \in DOMAIN fenvs
               PROVE  /\ fenvs[k].binput[prog.body[k[1]].entry] # None
                      /\ \A b \in prog.blocks[k[1]] : fenvs[k].output[LastLoc(b)] # None =>
                           \A d \in prog.body[k[1]].succ[b] : fenvs[k].binput[d] # None
                      /\ \A l \in Loc : Gap(k[1], fenvs[k].binput, fenvs[k].output, l) =>
                           StandsAt(fenvs[k].marks, l) /\ Pending(k)'
    BY <1>1, <1>12 DEF EnvsResumable
  <2>1. ASSUME NEW l \in Loc, Gap(k[1], fenvs[k].binput, fenvs[k].output, l)
        PROVE  StandsAt(fenvs[k].marks, l) /\ Pending(k)'
    <3>1. StandsAt(fenvs[k].marks, l) /\ Pending(k)
      BY <1>3, <2>1 DEF ResumeInv, EnvsResumable
    <3> QED
      BY <1>10, <1>11, <2>1, <3>1
  <2> QED
    BY <2>1 DEF ResumeInv, EnvsResumable
<1>14. AnalyzedCompleted' /\ SessionResumable'
  BY <1>1, <1>3 DEF ResumeInv, AnalyzedCompleted, SessionResumable, EnvCompleted, MustHaveOutput
<1> QED
  BY <1>9, <1>13, <1>14 DEF ResumeInv

LEMMA ResumeStep ==
  ASSUME InterTypeOK, PointsOK, OneContext, ResumeInv, [InterNext]_ivars
  PROVE  ResumeInv'
<1>1. CASE UNCHANGED ivars
  <2>1. /\ UNCHANGED <<prog, wfuncs, fenvs, summaries, analyzed, waking, session, marks>>
        /\ UNCHANGED <<graph, wblks, binput, output, cur>>
    BY <1>1 DEF ivars, blockVars, funcVars
  <2>2. ContextInv'
    <3>1. PICK U : SitesInContext(U) /\ WaitingInContext(U)
      BY DEF ResumeInv, ContextInv
    <3>2. SitesInContext(U)' /\ WaitingInContext(U)'
      BY <2>1, <3>1, ContextFixed DEF WaitingInContext, ContextFunc, InContext
    <3> QED
      BY <3>2 DEF ContextInv
  <2>3. EnvsResumable' /\ AnalyzedCompleted'
    BY <2>1, OutsideKept DEF ResumeInv
  <2>4. SessionResumable'
    BY <2>1 DEF ResumeInv, SessionResumable, Gap, MustHaveOutput, StandsAt, Awaits, AwaitsSite, SessionKey,
       Running, CurLoc
  <2> QED
    BY <2>2, <2>3, <2>4 DEF ResumeInv
<1> QED
  BY <1>1, BlockStepResumes, CallResumes, StartFuncResumes, FinishFuncResumes, WakeCallerResumes
     DEF InterNext, InterDone

LEMMA ResumeInit == InterInit => ResumeInv
<1> SUFFICES ASSUME InterInit PROVE ResumeInv
  OBVIOUS
<1>1. SitesInContext({}) /\ WaitingInContext({})
  <2>1. [func |-> Main, input |-> MainInput, callsites |-> {}] \in ContextFunc({})
    BY ProgramAssumption DEF ContextFunc, WorkingFunc, InContext, ContextOf
  <2> QED
    BY <2>1 DEF InterInit, WaitingInContext, SitesInContext
<1>2. EnvsResumable /\ SessionResumable /\ AnalyzedCompleted
  BY DEF InterInit, EnvsResumable, SessionResumable, AnalyzedCompleted
<1> QED
  BY <1>1, <1>2 DEF ResumeInv, ContextInv

\* When no function waits any more, no call waits either: a function that stopped at a
\* call whose callee had no summary has been resumed, however functions call each other.
THEOREM EveryCallResumedCorrect == InterSpec => []EveryCallResumed
<1> DEFINE I == OneContext => ResumeInv
<1>1. InterInit => I
  BY ResumeInit
<1>2. ASSUME InterTypeOK, PointsOK, I, [InterNext]_ivars PROVE I'
  BY <1>2, ProgramKept, ContextFixed, ResumeStep
<1>3. InterTypeOK /\ I => EveryCallResumed
  <2> SUFFICES ASSUME InterTypeOK, ResumeInv, AllDone, NEW k \in DOMAIN fenvs
               PROVE  /\ fenvs[k].binput[prog.body[k[1]].entry] # None
                      /\ \A l \in Loc : MustHaveOutput(k[1], l) /\ InputOf(k, l) # None =>
                           fenvs[k].output[l] # None
                      /\ \A b \in prog.blocks[k[1]] : fenvs[k].output[LastLoc(b)] # None =>
                           \A c \in prog.body[k[1]].succ[b] : fenvs[k].binput[c] # None
    BY DEF EveryCallResumed
  <2>1. ~ Pending(k) /\ session = NoSession
    BY DEF AllDone, Pending, Awaits, AwaitsSite
  <2>2. ASSUME NEW l \in Loc PROVE ~ Gap(k[1], fenvs[k].binput, fenvs[k].output, l)
    BY <2>1 DEF ResumeInv, EnvsResumable
  <2> QED
    BY <2>2 DEF ResumeInv, EnvsResumable, Gap, InputOf
<1> HIDE DEF I
<1>4. InterSpec => [](InterTypeOK /\ PointsOK /\ I)
  BY <1>1, <1>2, InterTypeInit, InterTypeStep, PTL DEF InterSpec
<1> QED
  BY <1>3, <1>4, PTL
=============================================================================
