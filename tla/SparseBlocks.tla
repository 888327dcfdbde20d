----------------------------- MODULE SparseBlocks -----------------------------
(***************************************************************************)
(* get_sparse_preceding_blocks and get_sparse_succeeding_blocks of         *)
(* src/dataflow/dataflow.ml: the neighbours of a block in the sparse       *)
(* program.  A block whose sparse instructions are branches only is passed *)
(* over, one without sparse instructions ends the path, any other is a     *)
(* neighbour.  The edges come from get_preceding_blocks and                *)
(* get_succeeding_blocks of src/llvm/llutils.ml.  BlockAnalysis works on   *)
(* the graph that these compute (its IsGraph), block by block and each in  *)
(* its own search.                                                         *)
(***************************************************************************)
EXTENDS SparseShape

CONSTANT Shapes    \* the functions: edges, kinds of blocks, entry block

ASSUME ShapeAssumption == \A s \in Shapes : IsShape(s)

VARIABLES
  shape,    \* the function
  forward,  \* whether succeeding or preceding blocks are collected
  start,    \* the block whose neighbours are collected
  blks,     \* blks: blocks whose neighbours are still to be classified
  visited,  \* visited
  found     \* res

searchVars == <<shape, forward, start, blks, visited, found>>

get_succeeding_blocks(b) == shape.succ[b]

\* The target of a switch is listed as its own preceding block, the block with the switch
\* is not listed.
get_preceding_blocks(b) ==
  {p \in Block \ shape.switch : b \in shape.succ[p]}
    \union {c \in {b} : \E p \in shape.switch : c \in shape.succ[p]}

Adjacent(fwd, b) == IF fwd THEN get_succeeding_blocks(b) ELSE get_preceding_blocks(b)

\* Faulty variant: the search backwards does not pass over branch blocks.
TransferForwardOnly(fwd, b) ==
  {n \in Adjacent(fwd, b) : fwd /\ shape.kind[n] = "branch" /\ shape.succ[n] # {}}

\* The two lists that the fold over the adjacent blocks builds.
TransferBlocks(fwd, b) ==
  {n \in Adjacent(fwd, b) : shape.kind[n] = "branch" /\ (fwd => shape.succ[n] # {})}

TargetBlocks(fwd, b) ==
  {n \in Adjacent(fwd, b) : shape.kind[n] # "empty"} \ TransferBlocks(fwd, b)

SearchInit ==
  /\ shape \in Shapes
  /\ forward \in BOOLEAN
  /\ start \in Block
  /\ blks = {start}
  /\ visited = {}
  /\ found = {}

\* Faulty variant: blocks are queued whether or not they were visited.
QueueAll(b) == (blks \ {b}) \union TransferBlocks(forward, b)

\* Faulty variant: the blocks that are passed over are not followed.
QueueNone(b) == blks \ {b}

\* concat_dedup of the unvisited blocks to pass over.  The block at hand is not yet in
\* the list it is compared with.
Queue(b) == (blks \ {b}) \union (TransferBlocks(forward, b) \ visited)

\* One round of compute_blocks.  The list blks is taken as a set: the order in which
\* blocks are looked at is left open.
compute_blocks ==
  /\ \E b \in blks :
       /\ blks' = Queue(b)
       /\ visited' = visited \union {b}
       /\ found' = found \union TargetBlocks(forward, b)
  /\ UNCHANGED <<shape, forward, start>>

Finished == blks = {}

SearchDone == Finished /\ UNCHANGED searchVars

SearchNext == compute_blocks \/ SearchDone

SearchSpec == SearchInit /\ [][SearchNext]_searchVars

\* compute_blocks is a sequential recursion: it takes the next step it can take.
FairSearchSpec == SearchSpec /\ WF_searchVars(SearchNext)

\* A block is no neighbour of itself.
Result == found \ {start}

------------------------------------------------------------------------------
SearchTypeOK ==
  /\ IsShape(shape)
  /\ forward \in BOOLEAN
  /\ start \in Block
  /\ blks \subseteq Block
  /\ visited \subseteq Block
  /\ found \subseteq Block

\* R holds b and is closed under passing over branch blocks.
Closed(fwd, b, R) == b \in R /\ \A c \in R : TransferBlocks(fwd, c) \subseteq R

\* The blocks from which the search from b collects: b and what can be reached from b
\* through branch blocks only, as the least closed set.
Through(fwd, b) ==
  {c \in Block : \A R \in SUBSET Block : Closed(fwd, b, R) => c \in R}

Neighbours(fwd, b) ==
  (UNION {TargetBlocks(fwd, c) : c \in Through(fwd, b)}) \ {b}

\* The search returns exactly the blocks with code that paths of branch blocks lead to,
\* in loops of branch blocks too, where its list of visited blocks lags behind
\* by one.
Exact == Finished => Result = Neighbours(forward, start)

\* Whoever follows the search from block to block, as analyze_blocks and
\* refine_sparse_blocks do from the entry block, meets the blocks that Analysed names:
\* passing over blocks cuts nothing off, in cycles of branch blocks either.
SearchReachesAnalysed ==
  Finished /\ forward /\ start = shape.entry =>
    LET next == [b \in Block |-> IF b = start THEN Result ELSE Neighbours(TRUE, b)]
    IN  Analysed(shape) = {c \in Block : \A R \in SUBSET Block :
          start \in R /\ (\A b \in R : next[b] \subseteq R) => c \in R}

\* Among the blocks with code, those found are those whose search in the other direction
\* finds the block at hand.
Agree ==
  Finished /\ shape.kind[start] = "code" =>
    \A b \in Block : shape.kind[b] = "code" =>
      (b \in Result <=> start \in Neighbours(~forward, b))

\* The two searches agree in a function without a switch: the block at hand is among the
\* sparse successors of each of its sparse predecessors, and of no other block.
\* analyze_blocks follows the one relation and compute_block_input reads the other.
Mirrored == shape.switch = {} => Agree

\* The search ends, whatever cycles of branch blocks there are.
Terminates == <>Finished
=============================================================================
