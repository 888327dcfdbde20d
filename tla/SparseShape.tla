----------------------------- MODULE SparseShape -----------------------------
(***************************************************************************)
(* What the search for sparse neighbours sees of a function: its control   *)
(* flow, and for each block whether its sparse instructions are none, only *)
(* branches and switches, or others too.                                   *)
(***************************************************************************)
EXTENDS Naturals, FiniteSets

CONSTANT Block    \* the blocks of the function

ASSUME BlockAssumption == IsFiniteSet(Block)

Kinds == {"empty", "branch", "code"}

\* The blocks of switch end in a switch.  No edge leads to the entry block.
IsShape(s) ==
  /\ s.succ \in [Block -> SUBSET Block]
  /\ s.switch \subseteq Block
  /\ s.kind \in [Block -> Kinds]
  /\ s.entry \in Block
  /\ \A b \in Block : s.entry \notin s.succ[b]

\* The blocks that a walk from the entry block meets in n steps when blocks without
\* sparse instructions end the walk.
Walk(s) ==
  LET walk[n \in Nat] ==
        IF n = 0 THEN {s.entry}
        ELSE LET before == walk[n - 1]
             IN  before \union
                   {c \in UNION {s.succ[b] : b \in before} : s.kind[c] # "empty"}
  IN  walk[Cardinality(Block)]

\* Of these, the blocks that the engine analyses: the entry block and those that are not
\* passed over.
Analysed(s) == {b \in Walk(s) : b = s.entry \/ s.kind[b] = "code" \/ s.succ[b] = {}}
==============================================================================
