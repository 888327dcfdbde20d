--------------------------- MODULE MCBlockAnalysis ---------------------------
(***************************************************************************)
(* Instance of BlockAnalysis for TLC: every control-flow graph over an     *)
(* entry block and three more blocks, and data that is a set of two facts. *)
(* The transfer functions generate, derive and kill facts; one edge is     *)
(* conditional.                                                            *)
(***************************************************************************)
EXTENDS BlockAnalysis, FiniteSets, TLC

CONSTANTS e, b1, b2, b3, f, g

MCBlock == {e, b1, b2, b3}
MCInputs == {{}, {g}}
MCSize == (e :> 1) @@ (b1 :> 2) @@ (b2 :> 1) @@ (b3 :> 1)
MCData == {{}, {f}, {g}, {f, g}}
MCLeq(c, d) == c \subseteq d
MCJoin(S) == UNION S

\* b1 generates f, b2 derives g from f, b3 kills f.
MCTransfer(b, i, d) ==
  CASE b = b1 /\ i = 2 -> d \union {f}
    [] b = b2 /\ f \in d -> d \union {g}
    [] b = b3 -> d \ {f}
    [] OTHER -> d

\* The edge from b2 to b1 is taken only by data without g.
MCRefine(p, b, d) == IF p = b2 /\ b = b1 THEN d \ {g} ELSE d
MCSat(p, b, d) == MCRefine(p, b, d) = d

\* Graphs in which every block is reachable from the entry block, with at most two
\* successors per block.
MCSuccs ==
  {s \in [MCBlock -> {t \in SUBSET {b1, b2, b3} : Cardinality(t) <= 2}] :
     \A R \in SUBSET MCBlock :
       e \in R /\ (\A b \in R : s[b] \subseteq R) => R = MCBlock}

\* The assignment in which the outputs follow from the inputs i of the blocks.
MCOutputs(i) ==
  [l \in Loc |-> IF l[2] = 1 THEN MCTransfer(l[1], 1, i[l[1]])
                 ELSE MCTransfer(l[1], 2, MCTransfer(l[1], 1, i[l[1]]))]

\* The inputs that follow from the function input d and the inputs i of the blocks by
\* one round over all edges.
MCRound(gr, d, i) ==
  LET out == MCOutputs(i)
  IN  [b \in MCBlock |->
         (UNION {Refine(p, b, out[LastLoc(p)]) : p \in gr.pred[b]})
         \union IF b = e \/ (\E p \in MCBlock : b \in gr.succ[p] /\ p \notin gr.pred[b])
                 THEN d ELSE {}]

\* The least solution, by Kleene iteration from no facts: no chain of inputs of four
\* blocks and two facts is longer than 8.
MCLeast(gr, d) ==
  LET it[n \in 0 .. 8] == IF n = 0 THEN [b \in MCBlock |-> {}]
                          ELSE MCRound(gr, d, it[n - 1])
  IN  [in |-> it[8], out |-> MCOutputs(it[8])]

\* The graph with successors s.  The blocks of lost are not seen by those that look back
\* to them; where those of switch are, the block sees itself instead.
MCGraph(s, unr, lost, switch) ==
  [entry |-> e, succ |-> s, unreachable |-> unr,
   ret |-> {b \in MCBlock : s[b] = {}} \ unr,
   pred |-> [b \in MCBlock |->
     {p \in MCBlock \ (lost \union switch) : b \in s[p]}
       \union (IF \E q \in switch : b \in s[q] THEN {b} ELSE {})]]

\* All edges seen; an entry block that is passed over; a switch in b1; an exit block
\* that ends in an unreachable instruction.
MCShapes ==
  {MCGraph(s, {}, lost, {}) : s \in MCSuccs, lost \in {{}, {e}}}
  \union {MCGraph(s, {}, {}, {b1}) : s \in {t \in MCSuccs : t[b1] # {}}}
  \union {MCGraph(s, {b3}, {}, {}) : s \in {t \in MCSuccs : t[b3] = {}}}

\* Each graph carries its least solution per input, so that it is computed once.
MCGraphs == {gr @@ [mfp |-> [d \in MCInputs |-> MCLeast(gr, d)]] : gr \in MCShapes}

MCSolutions(gr, d) == {gr.mfp[d]}

ASSUME LeastSolutions == \A gr \in MCGraphs, d \in MCInputs : IsSolution(gr, d, gr.mfp[d])
=============================================================================
