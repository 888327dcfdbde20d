------------------------------ MODULE SparseProof ------------------------------
(***************************************************************************)
(* Proofs about the sparse program.  SparseBlocks: the search for sparse   *)
(* neighbours is exact for every function.  SparseProgram: the preparation *)
(* settles, for every program, every order of visits and every number of   *)
(* entry functions.                                                        *)
(***************************************************************************)
EXTENDS SparseBlocks, SparseProgram, NatRecursion, FiniteSetTheorems, TLAPS

------------------------------------------------------------------------------
(* The walk through a function *)

\* One more step of the walk from the entry block.
Further(s, W) == W \union {c \in UNION {s.succ[b] : b \in W} : s.kind[c] # "empty"}

\* A set of blocks with the entry block that no edge leaves.
Holds(B, s) == s.entry \in B /\ \A b \in B : s.succ[b] \subseteq B

IsWalk(w, s, B) ==
  /\ w[0] = {s.entry}
  /\ \A n \in Nat : w[n] \subseteq B /\ w[n + 1] = Further(s, w[n])
  /\ Walk(s) = w[Cardinality(Block)]

\* The recursion of Walk is well-defined, and the walk stays in such a set.
LEMMA WalkRecursion ==
  ASSUME NEW s, NEW B, Holds(B, s)
  PROVE  \E w : IsWalk(w, s, B)
<1> DEFINE S == SUBSET B
           base == {s.entry}
           step == [p \in Nat \X S |-> Further(s, p[2])]
           Def(w) == [n \in Nat |->
                        IF n = 0 THEN {s.entry}
                        ELSE w[n - 1] \union
                               {c \in UNION {s.succ[b] : b \in w[n - 1]} : s.kind[c] # "empty"}]
           walk == CHOOSE w : w = Def(w)
<1>1. \A W \in S : Further(s, W) \in S
  BY DEF Further, Holds
<1>2. step \in [Nat \X S -> S] /\ base \in S
  BY <1>1 DEF Holds
<1>3. PICK w : IsRecursive(w, S, base, step)
  <2> HIDE DEF step, S, base
  <2> QED
    BY <1>2, SetRecursion
<1>4. w \in [Nat -> S] /\ w[0] = {s.entry}
  BY <1>3 DEF IsRecursive
<1>5. \A n \in Nat : w[n + 1] = Further(s, w[n])
  <2>1. ASSUME NEW n \in Nat PROVE w[n + 1] = Further(s, w[n])
    <3>1. w[n + 1] = step[<<n, w[n]>>] /\ <<n, w[n]>> \in Nat \X S
      <4> HIDE DEF step, base
      <4> QED
        BY <1>3 DEF IsRecursive
    <3> QED
      BY <3>1
  <2> QED
    BY <2>1
<1>6. w = Def(w)
  <2>1. ASSUME NEW n \in Nat PROVE w[n] = Def(w)[n]
    <3>1. CASE n = 0
      BY <1>4, <3>1
    <3>2. CASE n # 0
      <4>1. n - 1 \in Nat /\ (n - 1) + 1 = n
        BY <3>2
      <4>2. w[n] = Further(s, w[n - 1])
        BY <1>5, <4>1
      <4> QED
        BY <3>2, <4>2 DEF Further
    <3> QED
      BY <3>1, <3>2
  <2> QED
    BY <1>4, <2>1
<1>7. walk = Def(walk)
  <2> HIDE DEF Def
  <2> QED
    BY <1>6
<1>8. walk[0] = {s.entry}
  BY <1>7
<1>9. ASSUME NEW n \in Nat PROVE walk[n + 1] = Further(s, walk[n])
  <2>1. walk[n + 1] = Def(walk)[n + 1]
    <3> HIDE DEF walk, Def
    <3> QED
      BY <1>7
  <2>2. (n + 1) - 1 = n /\ n + 1 # 0 /\ n + 1 \in Nat
    OBVIOUS
  <2> HIDE DEF walk
  <2> QED
    BY <2>1, <2>2 DEF Further
<1>10. \A n \in Nat : walk[n] \in S
  <2> DEFINE P == {n \in Nat : walk[n] \in S}
  <2>1. 0 \in P
    BY <1>2, <1>8
  <2>2. \A n \in Nat : n \in P => n + 1 \in P
    <3> HIDE DEF walk, S
    <3> QED
      BY <1>1, <1>9
  <2> HIDE DEF P
  <2>3. Nat \subseteq P
    BY <2>1, <2>2, SetInduction
  <2> QED
    BY <2>3 DEF P
<1>11. Walk(s) = walk[Cardinality(Block)]
  BY DEF Walk
<1> HIDE DEF walk
<1> QED
  BY <1>8, <1>9, <1>10, <1>11 DEF IsWalk

------------------------------------------------------------------------------
(* SparseBlocks *)

\* The blocks at hand can be reached, what was looked at is queued or done, and what was
\* found belongs to the blocks that were looked at.
SearchInv ==
  /\ SearchTypeOK
  /\ blks \subseteq Through(forward, start)
  /\ visited \subseteq Through(forward, start)
  /\ start \in visited \union blks
  /\ \A b \in visited : TransferBlocks(forward, b) \subseteq visited \union blks
  /\ found = UNION {TargetBlocks(forward, b) : b \in visited}

LEMMA AdjacentFacts ==
  ASSUME SearchTypeOK, NEW fwd \in BOOLEAN, NEW b \in Block
  PROVE  /\ TransferBlocks(fwd, b) \subseteq Block
         /\ TargetBlocks(fwd, b) \subseteq Block
BY DEF SearchTypeOK, IsShape, Adjacent, get_succeeding_blocks, get_preceding_blocks, TransferBlocks, TargetBlocks

\* Through is closed itself.
LEMMA ThroughClosed ==
  ASSUME SearchTypeOK, NEW fwd \in BOOLEAN, NEW b \in Block
  PROVE  /\ b \in Through(fwd, b)
         /\ \A c \in Through(fwd, b) : TransferBlocks(fwd, c) \subseteq Through(fwd, b)
<1>1. b \in Through(fwd, b)
  BY DEF Through, Closed
<1>2. ASSUME NEW c \in Through(fwd, b), NEW d \in TransferBlocks(fwd, c)
      PROVE  d \in Through(fwd, b)
  <2>1. c \in Block /\ d \in Block
    BY <1>2, AdjacentFacts DEF Through
  <2>2. ASSUME NEW R \in SUBSET Block, Closed(fwd, b, R)
        PROVE  d \in R
    <3>1. c \in R
      BY <1>2, <2>2 DEF Through
    <3> QED BY <1>2, <2>2, <3>1 DEF Closed
  <2> QED BY <2>1, <2>2 DEF Through
<1> QED BY <1>1, <1>2

\* The type invariant of the search.
THEOREM TypeCorrect == SearchSpec => []SearchTypeOK
<1>1. SearchInit => SearchTypeOK
  BY ShapeAssumption DEF SearchInit, SearchTypeOK
<1>2. SearchTypeOK /\ [SearchNext]_searchVars => SearchTypeOK'
  <2> SUFFICES ASSUME SearchTypeOK, [SearchNext]_searchVars PROVE SearchTypeOK'
    OBVIOUS
  <2>1. CASE compute_blocks
    <3>1. PICK b \in blks :
            /\ blks' = Queue(b)
            /\ visited' = visited \union {b}
            /\ found' = found \union TargetBlocks(forward, b)
      BY <2>1 DEF compute_blocks
    <3>2. b \in Block /\ TransferBlocks(forward, b) \subseteq Block
          /\ TargetBlocks(forward, b) \subseteq Block
      BY AdjacentFacts DEF SearchTypeOK
    <3> QED BY <2>1, <3>1, <3>2 DEF compute_blocks, Queue, SearchTypeOK
  <2>2. CASE UNCHANGED searchVars
    BY <2>2 DEF searchVars, SearchTypeOK
  <2> QED BY <2>1, <2>2 DEF SearchNext, SearchDone
<1> QED BY <1>1, <1>2, PTL DEF SearchSpec

LEMMA SearchInvHolds == SearchSpec => []SearchInv
<1>1. SearchInit => SearchInv
  <2> SUFFICES ASSUME SearchInit PROVE SearchInv
    OBVIOUS
  <2>1. SearchTypeOK
    BY ShapeAssumption DEF SearchInit, SearchTypeOK
  <2>2. start \in Through(forward, start)
    BY <2>1, ThroughClosed DEF SearchTypeOK
  <2> QED BY <2>1, <2>2 DEF SearchInit, SearchInv
<1>2. SearchInv /\ SearchTypeOK' /\ [SearchNext]_searchVars => SearchInv'
  <2> SUFFICES ASSUME SearchInv, SearchTypeOK', [SearchNext]_searchVars PROVE SearchInv'
    OBVIOUS
  <2>1. CASE compute_blocks
    <3>1. PICK b \in blks :
            /\ blks' = Queue(b)
            /\ visited' = visited \union {b}
            /\ found' = found \union TargetBlocks(forward, b)
      BY <2>1 DEF compute_blocks
    <3>2. UNCHANGED <<shape, forward, start>>
      BY <2>1 DEF compute_blocks
    <3>3. /\ \A c : TransferBlocks(forward, c)' = TransferBlocks(forward, c)
          /\ \A c : TargetBlocks(forward, c)' = TargetBlocks(forward, c)
          /\ Through(forward, start)' = Through(forward, start)
      BY <3>2 DEF TransferBlocks, TargetBlocks, Adjacent, get_succeeding_blocks, get_preceding_blocks,
         Through, Closed
    <3>4. TransferBlocks(forward, b) \subseteq Through(forward, start)
      BY ThroughClosed DEF SearchInv, SearchTypeOK
    <3>5. blks' \subseteq Through(forward, start)' /\ visited' \subseteq Through(forward, start)'
      BY <3>1, <3>3, <3>4 DEF SearchInv, Queue
    <3>6. (start \in visited \union blks)'
      BY <3>1, <3>2 DEF SearchInv, Queue
    <3>7. \A c \in visited' : TransferBlocks(forward, c)' \subseteq visited' \union blks'
      BY <3>1, <3>3 DEF SearchInv, Queue
    <3>8. found' = UNION {TargetBlocks(forward, c)' : c \in visited'}
      BY <3>1, <3>3 DEF SearchInv
    <3> QED BY <3>5, <3>6, <3>7, <3>8 DEF SearchInv
  <2>2. CASE UNCHANGED searchVars
    BY <2>2 DEF searchVars, SearchInv, TransferBlocks, TargetBlocks, Adjacent,
       get_succeeding_blocks, get_preceding_blocks, Through, Closed
  <2> QED BY <2>1, <2>2 DEF SearchNext, SearchDone
<1> QED BY <1>1, <1>2, TypeCorrect, PTL DEF SearchSpec

\* get_sparse_preceding_blocks and get_sparse_succeeding_blocks return exactly the blocks
\* with code that paths of branch blocks lead to, for every function and
\* every order of the search.
THEOREM ExactCorrect == SearchSpec => []Exact
<1>1. SearchInv => Exact
  <2> SUFFICES ASSUME SearchInv, blks = {}
               PROVE  Result = Neighbours(forward, start)
    BY DEF Exact, Finished
  <2>1. Closed(forward, start, visited)
    BY DEF SearchInv, Closed
  <2>2. visited = Through(forward, start)
    BY <2>1 DEF SearchInv, SearchTypeOK, Through
  <2> QED BY <2>2 DEF SearchInv, Result, Neighbours
<1> QED BY <1>1, SearchInvHolds, PTL
------------------------------------------------------------------------------
(* The two directions *)

\* Without a switch, the predecessors are the blocks that the edges come from.
LEMMA AdjacentMirrored ==
  ASSUME SearchTypeOK, shape.switch = {}, NEW fwd \in BOOLEAN, NEW b \in Block, NEW c \in Block
  PROVE  c \in Adjacent(fwd, b) <=> b \in Adjacent(~fwd, c)
BY DEF SearchTypeOK, IsShape, Adjacent, get_succeeding_blocks, get_preceding_blocks

\* A search that starts at a block that another one passes over finds no more.
LEMMA NeighboursOfTransfer ==
  ASSUME SearchTypeOK, NEW fwd \in BOOLEAN, NEW b \in Block, NEW c \in TransferBlocks(fwd, b)
  PROVE  Through(fwd, c) \subseteq Through(fwd, b)
<1>1. c \in Block /\ Through(fwd, b) \in SUBSET Block
  BY AdjacentFacts DEF Through
<1>2. Closed(fwd, c, Through(fwd, b))
  BY ThroughClosed DEF Closed
<1> QED
  BY <1>1, <1>2 DEF Through

\* What is found in one direction finds its origin in the other.
LEMMA FoundBack ==
  ASSUME SearchTypeOK, shape.switch = {}, NEW fwd \in BOOLEAN, NEW s \in Block, NEW b \in Block,
         shape.kind[s] = "code", shape.kind[b] = "code", b \in Neighbours(fwd, s)
  PROVE  s \in Neighbours(~fwd, b)
<1> DEFINE Finds(c) == \E d \in Through(~fwd, c) : s \in TargetBlocks(~fwd, d)
           R == {c \in Block : c = s \/ (shape.kind[c] = "branch" /\ Finds(c))}
<1>b. (~fwd) \in BOOLEAN
  OBVIOUS
<1>1. ASSUME NEW c \in Block, NEW d \in R, d \in Adjacent(~fwd, c)
      PROVE  Finds(c)
  <2>1. CASE d = s
    <3>1. s \in TargetBlocks(~fwd, c)
      BY <1>1, <2>1 DEF TargetBlocks, TransferBlocks
    <3>2. c \in Through(~fwd, c)
      BY <1>b, ThroughClosed
    <3> QED
      BY <3>1, <3>2
  <2>2. CASE d # s
    <3>1. d \in Block /\ shape.kind[d] = "branch"
      BY <1>1, <2>2
    <3>2. c \in Adjacent(fwd, d)
      BY <1>1, <1>b, <3>1, AdjacentMirrored
    <3>4. PICK e \in Through(~fwd, d) : s \in TargetBlocks(~fwd, e)
      BY <1>1, <2>2
    <3>5. shape.succ[d] # {}
      <4>1. CASE fwd
        BY <3>2, <4>1 DEF Adjacent, get_succeeding_blocks
      <4>2. CASE ~fwd
        <5>1. CASE e = d
          BY <3>4, <4>2, <5>1 DEF TargetBlocks, Adjacent, get_succeeding_blocks
        <5>2. CASE e # d
          <6>1. ASSUME shape.succ[d] = {} PROVE Closed(~fwd, d, {d})
            BY <4>2, <6>1 DEF Closed, TransferBlocks, Adjacent, get_succeeding_blocks
          <6> QED
            BY <3>1, <3>4, <5>2, <6>1 DEF Through
        <5> QED
          BY <5>1, <5>2
      <4> QED
        BY <4>1, <4>2
    <3>6. d \in TransferBlocks(~fwd, c)
      BY <1>1, <3>1, <3>5 DEF TransferBlocks
    <3> QED
      BY <1>b, <3>4, <3>6, NeighboursOfTransfer
  <2> QED
    BY <2>1, <2>2
<1>2. Closed(fwd, s, R)
  <2> SUFFICES ASSUME NEW d \in R, NEW c \in TransferBlocks(fwd, d) PROVE c \in R
    BY DEF Closed
  <2>1. c \in Block /\ c \in Adjacent(fwd, d) /\ shape.kind[c] = "branch"
    BY AdjacentFacts DEF TransferBlocks
  <2>2. d \in Adjacent(~fwd, c)
    BY <2>1, AdjacentMirrored
  <2>3. Finds(c)
    BY <1>1, <2>1, <2>2
  <2> QED
    BY <2>1, <2>3
<1>3. PICK d \in Through(fwd, s) : b \in TargetBlocks(fwd, d)
  BY DEF Neighbours
<1>4. d \in R
  <2>1. R \in SUBSET Block
    OBVIOUS
  <2> HIDE DEF R
  <2> QED
    BY <1>2, <1>3, <2>1 DEF Through
<1>5. d \in Adjacent(~fwd, b)
  BY <1>3, <1>4, AdjacentMirrored DEF TargetBlocks
<1>6. Finds(b)
  BY <1>1, <1>4, <1>5
<1>7. b # s
  BY DEF Neighbours
<1> QED
  BY <1>6, <1>7 DEF Neighbours

\* In a function without a switch, get_sparse_succeeding_blocks and
\* get_sparse_preceding_blocks are each other's converse, for every function and every
\* order of the searches: the block that analyze_blocks enqueues from a block is one that
\* compute_block_input reads it for.
THEOREM MirroredCorrect == SearchSpec => []Mirrored
<1>1. SearchTypeOK /\ Exact => Mirrored
  <2> SUFFICES ASSUME SearchTypeOK, Exact, shape.switch = {}, Finished, shape.kind[start] = "code",
                      NEW b \in Block, shape.kind[b] = "code"
               PROVE  b \in Result <=> start \in Neighbours(~forward, b)
    BY DEF Mirrored, Agree
  <2>1. Result = Neighbours(forward, start)
    BY DEF Exact
  <2>2. forward \in BOOLEAN /\ (~forward) \in BOOLEAN /\ start \in Block
    BY DEF SearchTypeOK
  <2>3. b \in Neighbours(forward, start) => start \in Neighbours(~forward, b)
    BY <2>2, FoundBack
  <2>4. start \in Neighbours(~forward, b) => b \in Neighbours(forward, start)
    <3>1. start \in Neighbours(~forward, b) => b \in Neighbours(~(~forward), start)
      BY <2>2, FoundBack
    <3> QED
      BY <2>2, <3>1
  <2> QED
    BY <2>1, <2>2, <2>3, <2>4
<1> QED
  BY <1>1, ExactCorrect, TypeCorrect, PTL
------------------------------------------------------------------------------
(* The walk from the entry block *)

\* W contains the entry block and what the blocks of W lead to.
WalkClosed(s, W) == s.entry \in W /\ Further(s, W) \subseteq W

\* The walk of a whole function.
LEMMA ShapeWalk ==
  ASSUME NEW s, IsShape(s)
  PROVE  \E w \in [Nat -> SUBSET Block] :
           /\ w[0] = {s.entry}
           /\ \A n \in Nat : w[n + 1] = Further(s, w[n])
           /\ Walk(s) = w[Cardinality(Block)]
<1>1. Holds(Block, s)
  BY DEF IsShape, Holds
<1>2. PICK w : IsWalk(w, s, Block)
  BY <1>1, WalkRecursion
<1> DEFINE v == [n \in Nat |-> w[n]]
<1>3. v \in [Nat -> SUBSET Block]
  BY <1>2 DEF IsWalk
<1>4. v[0] = {s.entry} /\ \A n \in Nat : v[n + 1] = Further(s, v[n])
  BY <1>2 DEF IsWalk
<1>5. Walk(s) = v[Cardinality(Block)]
  BY <1>2, BlockAssumption, FS_CardinalityType DEF IsWalk
<1> HIDE DEF v
<1> QED
  BY <1>3, <1>4, <1>5

\* The walk has covered everything it can reach after as many steps as there are blocks:
\* each step before adds a block.
LEMMA WalkIsClosed ==
  ASSUME NEW s, IsShape(s)
  PROVE  WalkClosed(s, Walk(s)) /\ Walk(s) \subseteq Block
<1>1. PICK w \in [Nat -> SUBSET Block] :
        /\ w[0] = {s.entry}
        /\ \A n \in Nat : w[n + 1] = Further(s, w[n])
        /\ Walk(s) = w[Cardinality(Block)]
  BY ShapeWalk
<1> DEFINE size == Cardinality(Block)
           Stays(n) == Further(s, w[n]) = w[n]
           P == {n \in Nat : s.entry \in w[n] /\ (Stays(n) \/ Cardinality(w[n]) >= n + 1)}
<1>2. size \in Nat
  BY BlockAssumption, FS_CardinalityType
<1>3. \A W \in SUBSET Block : IsFiniteSet(W) /\ Cardinality(W) \in Nat /\ Cardinality(W) <= size
  BY BlockAssumption, FS_Subset, FS_CardinalityType
<1>4. 0 \in P
  <2>1. Cardinality({s.entry}) = 1
    BY FS_Singleton
  <2> QED
    BY <1>1, <2>1
<1>5. ASSUME NEW n \in Nat, n \in P PROVE n + 1 \in P
  <2>1. w[n + 1] = Further(s, w[n]) /\ w[n] \subseteq w[n + 1] /\ w[n] \in SUBSET Block /\ w[n + 1] \in SUBSET Block
    BY <1>1 DEF Further
  <2>2. CASE Stays(n)
    BY <1>5, <2>1, <2>2
  <2>3. CASE ~Stays(n)
    <3>1. w[n] # w[n + 1]
      BY <2>1, <2>3
    <3>2. Cardinality(w[n]) < Cardinality(w[n + 1])
      BY <1>3, <2>1, <3>1, FS_Subset
    <3>3. Cardinality(w[n + 1]) >= (n + 1) + 1
      BY <1>3, <1>5, <2>1, <2>3, <3>2
    <3> QED
      BY <1>5, <2>1, <3>3
  <2> QED
    BY <2>2, <2>3
<1>6. size \in P
  <2> HIDE DEF P
  <2> QED
    BY <1>2, <1>4, <1>5, SetInduction
<1>7. Stays(size)
  <2>1. w[size] \in SUBSET Block
    BY <1>2
  <2> HIDE DEF size
  <2>2. Cardinality(w[size]) <= size /\ Cardinality(w[size]) \in Nat
    BY <1>3, <2>1
  <2> QED
    BY <1>2, <1>6, <2>2
<1> QED
  BY <1>1, <1>2, <1>6, <1>7 DEF WalkClosed

\* The walk stays inside every set that is closed under its steps.
LEMMA WalkIsLeast ==
  ASSUME NEW s, IsShape(s), NEW R, WalkClosed(s, R)
  PROVE  Walk(s) \subseteq R
<1>1. PICK w \in [Nat -> SUBSET Block] :
        /\ w[0] = {s.entry}
        /\ \A n \in Nat : w[n + 1] = Further(s, w[n])
        /\ Walk(s) = w[Cardinality(Block)]
  BY ShapeWalk
<1> DEFINE P == {n \in Nat : w[n] \subseteq R}
<1>2. 0 \in P
  BY <1>1 DEF WalkClosed
<1>3. ASSUME NEW n \in Nat, n \in P PROVE n + 1 \in P
  BY <1>1, <1>3 DEF WalkClosed, Further
<1> HIDE DEF P
<1>4. Cardinality(Block) \in P
  BY <1>2, <1>3, SetInduction, BlockAssumption, FS_CardinalityType
<1> QED
  BY <1>1, <1>4 DEF P

\* What a search passes over is a branch with successors.
LEMMA ThroughKinds ==
  ASSUME SearchTypeOK, NEW b \in Block, NEW c \in Through(TRUE, b), c # b
  PROVE  shape.kind[c] = "branch" /\ shape.succ[c] # {}
<1> DEFINE R == {d \in Block : d = b \/ (shape.kind[d] = "branch" /\ shape.succ[d] # {})}
<1>1. Closed(TRUE, b, R)
  BY AdjacentFacts DEF Closed, TransferBlocks
<1>2. R \in SUBSET Block
  OBVIOUS
<1> HIDE DEF R
<1>3. c \in R
  BY <1>1, <1>2 DEF Through
<1> QED
  BY <1>3 DEF R

\* The walk does not leave what the search finds from block to block.
LEMMA AnalysedInClosed ==
  ASSUME SearchTypeOK, NEW R \in SUBSET Block, shape.entry \in R,
         \A b \in R : Neighbours(TRUE, b) \subseteq R
  PROVE  Analysed(shape) \subseteq R
<1> DEFINE Q == UNION {Through(TRUE, d) : d \in R}
<1>1. WalkClosed(shape, Q)
  <2>1. shape.entry \in Q
    BY ThroughClosed
  <2>2. ASSUME NEW c \in Q, NEW e \in shape.succ[c], shape.kind[e] # "empty" PROVE e \in Q
    <3>1. PICK d \in R : c \in Through(TRUE, d)
      OBVIOUS
    <3>2. c \in Block /\ e \in Block /\ e \in Adjacent(TRUE, c)
      BY <2>2, <3>1 DEF Through, SearchTypeOK, IsShape, Adjacent, get_succeeding_blocks
    <3>3. CASE e \in TransferBlocks(TRUE, c)
      BY <3>1, <3>3, ThroughClosed
    <3>4. CASE e \notin TransferBlocks(TRUE, c)
      <4>1. e \in TargetBlocks(TRUE, c)
        BY <2>2, <3>2, <3>4 DEF TargetBlocks
      <4>2. e \in R
        BY <3>1, <4>1 DEF Neighbours
      <4> QED
        BY <4>2, ThroughClosed
    <3> QED
      BY <3>3, <3>4
  <2> HIDE DEF Q
  <2> QED
    BY <2>1, <2>2 DEF WalkClosed, Further
<1>2. ASSUME NEW c \in Analysed(shape) PROVE c \in R
  <2>1. c \in Walk(shape) /\ (c = shape.entry \/ shape.kind[c] = "code" \/ shape.succ[c] = {})
    BY DEF Analysed
  <2>2. c \in Q
    <3> HIDE DEF Q
    <3> QED
      BY <1>1, <2>1, WalkIsLeast DEF SearchTypeOK
  <2>3. PICK d \in R : c \in Through(TRUE, d)
    BY <2>2
  <2>4. CASE c = d
    BY <2>4
  <2>5. CASE c # d
    BY <2>1, <2>3, <2>5, ThroughKinds
  <2> QED
    BY <2>4, <2>5
<1> QED
  BY <1>2

\* The search leads from analysed blocks to analysed blocks only.
LEMMA AnalysedClosed ==
  ASSUME SearchTypeOK
  PROVE  /\ Analysed(shape) \in SUBSET Block
         /\ shape.entry \in Analysed(shape)
         /\ \A b \in Analysed(shape) : Neighbours(TRUE, b) \subseteq Analysed(shape)
<1> DEFINE W == Walk(shape)
<1>1. W \in SUBSET Block /\ shape.entry \in W
      /\ \A b \in W : \A c \in shape.succ[b] : shape.kind[c] # "empty" => c \in W
  BY WalkIsClosed DEF SearchTypeOK, WalkClosed, Further
<1>2. ASSUME NEW b \in Analysed(shape), NEW c \in Neighbours(TRUE, b) PROVE c \in Analysed(shape)
  <2>1. b \in W /\ b \in Block
    BY <1>1 DEF Analysed
  <2>2. PICK d \in Through(TRUE, b) : c \in TargetBlocks(TRUE, d)
    BY <1>2 DEF Neighbours
  <2>3. Closed(TRUE, b, W)
    BY <1>1, <2>1 DEF Closed, TransferBlocks, Adjacent, get_succeeding_blocks
  <2>4. d \in W
    BY <1>1, <2>2, <2>3 DEF Through
  <2>5. c \in shape.succ[d] /\ shape.kind[c] # "empty"
        /\ ~(shape.kind[c] = "branch" /\ shape.succ[c] # {}) /\ c \in Block
    BY <1>1, <2>2, <2>4, AdjacentFacts
       DEF TargetBlocks, TransferBlocks, Adjacent, get_succeeding_blocks
  <2>6. shape.kind[c] \in Kinds
    BY <2>5 DEF SearchTypeOK, IsShape
  <2> QED
    BY <1>1, <2>4, <2>5, <2>6 DEF Analysed, Kinds
<1> QED
  BY <1>1, <1>2 DEF Analysed

\* Whoever follows get_sparse_succeeding_blocks from the entry block meets exactly the
\* blocks that Analysed names, the ones that analyze_blocks works on and
\* refine_sparse_blocks keeps: for every function, whatever cycles of branch
\* blocks it has.
THEOREM SearchReachesAnalysedCorrect == SearchSpec => []SearchReachesAnalysed
<1>1. SearchTypeOK /\ Exact => SearchReachesAnalysed
  <2> SUFFICES ASSUME SearchTypeOK, Exact, Finished, forward, start = shape.entry PROVE SearchReachesAnalysed
    BY DEF SearchReachesAnalysed
  <2> DEFINE next == [b \in Block |-> IF b = start THEN Result ELSE Neighbours(TRUE, b)]
             Leads(R) == start \in R /\ \A b \in R : next[b] \subseteq R
             Least == {c \in Block : \A R \in SUBSET Block : Leads(R) => c \in R}
  <2>1. \A b \in Block : next[b] = Neighbours(TRUE, b)
    <3>1. forward = TRUE
      BY DEF SearchTypeOK
    <3> QED
      BY <3>1 DEF Exact
  <2>2. \A R \in SUBSET Block :
          Leads(R) <=> shape.entry \in R /\ \A b \in R : Neighbours(TRUE, b) \subseteq R
    BY <2>1
  <2> HIDE DEF next
  <2>3. Analysed(shape) \in SUBSET Block /\ Leads(Analysed(shape))
    BY <2>2, AnalysedClosed
  <2>4. \A R \in SUBSET Block : Leads(R) => Analysed(shape) \subseteq R
    BY <2>2, AnalysedInClosed
  <2> HIDE DEF Leads
  <2>5. Analysed(shape) = Least
    BY <2>3, <2>4
  <2> QED
    BY <2>5 DEF SearchReachesAnalysed, Leads, next
<1> QED
  BY <1>1, ExactCorrect, TypeCorrect, PTL

------------------------------------------------------------------------------
(* SparseProgram *)

Marks == [Value -> BOOLEAN]

FuncPasses == {"first_funcs", "init_funcs", "refine_funcs", "refine_instrs"}

Passes == {"values", "init_blocks", "refine_blocks", "refine_globals", "ready", "done"}
            \union FuncPasses

TypeOK ==
  /\ IsProgram(prog)
  /\ sparse \in Marks
  /\ bsparse \in [Block -> BOOLEAN \union {None}]
  /\ fsparse \in [Func -> BOOLEAN \union {None}]
  /\ pass \in Passes
  /\ pass \in FuncPasses => todo \subseteq Func
  /\ pass = "refine_globals" => todo \subseteq Global
  /\ again \in BOOLEAN /\ inner \in BOOLEAN /\ outer \in BOOLEAN

------------------------------------------------------------------------------
(* One visit of a function *)

LEMMA VisitInstrType ==
  ASSUME NEW m \in Marks, NEW i
  PROVE  VisitInstr(m, i) \in Marks
BY DEF VisitInstr, Marks

\* The recursion of VisitInstrs is well-defined.
LEMMA VisitRecursion ==
  ASSUME NEW f, NEW m \in Marks
  PROVE  \E v \in [Nat -> Marks] :
           /\ v[0] = m
           /\ \A n \in Nat : v[n + 1] = VisitInstr(v[n], prog.instrs[f][n + 1])
           /\ VisitInstrs(f, m) = v[Len(prog.instrs[f])]
<1> DEFINE is == prog.instrs[f]
           step == [p \in Nat \X Marks |-> VisitInstr(p[2], is[p[1] + 1])]
           Def(v) == [n \in Nat |-> IF n = 0 THEN m ELSE VisitInstr(v[n - 1], prog.instrs[f][n])]
           visit == CHOOSE v : v = Def(v)
<1>1. step \in [Nat \X Marks -> Marks]
  BY VisitInstrType
<1>2. PICK v : IsRecursive(v, Marks, m, step)
  <2> HIDE DEF step
  <2> QED
    BY <1>1, SetRecursion
<1>3. v \in [Nat -> Marks] /\ v[0] = m /\ \A n \in Nat : v[n + 1] = VisitInstr(v[n], is[n + 1])
  <2>1. ASSUME NEW n \in Nat PROVE v[n + 1] = VisitInstr(v[n], is[n + 1])
    <3>1. v[n + 1] = step[<<n, v[n]>>] /\ <<n, v[n]>> \in Nat \X Marks
      <4> HIDE DEF step
      <4> QED
        BY <1>2 DEF IsRecursive
    <3> QED
      BY <3>1
  <2> QED
    BY <1>2, <2>1 DEF IsRecursive
<1>4. v = Def(v)
  <2>1. ASSUME NEW n \in Nat PROVE v[n] = Def(v)[n]
    <3>1. CASE n = 0
      BY <1>3, <3>1
    <3>2. CASE n # 0
      <4>1. n - 1 \in Nat /\ (n - 1) + 1 = n
        BY <3>2
      <4>2. v[n] = VisitInstr(v[n - 1], is[n])
        BY <1>3, <4>1
      <4> QED
        BY <3>2, <4>2
    <3> QED
      BY <3>1, <3>2
  <2> QED
    BY <1>3, <2>1
<1>5. visit = Def(visit)
  <2> HIDE DEF Def
  <2> QED
    BY <1>4
<1>6. visit[0] = m
  BY <1>5
<1>7. ASSUME NEW n \in Nat PROVE visit[n + 1] = VisitInstr(visit[n], is[n + 1])
  <2>1. visit[n + 1] = Def(visit)[n + 1]
    <3> HIDE DEF visit, Def
    <3> QED
      BY <1>5
  <2>2. (n + 1) - 1 = n /\ n + 1 # 0 /\ n + 1 \in Nat
    OBVIOUS
  <2> HIDE DEF visit
  <2> QED
    BY <2>1, <2>2
<1>8. visit \in [Nat -> Marks]
  <2> DEFINE P == {n \in Nat : visit[n] \in Marks}
  <2>1. 0 \in P
    BY <1>6
  <2>2. \A n \in Nat : n \in P => n + 1 \in P
    <3> HIDE DEF visit
    <3> QED
      BY <1>7, VisitInstrType
  <2> HIDE DEF P
  <2>3. Nat \subseteq P
    BY <2>1, <2>2, SetInduction
  <2>4. visit = [n \in Nat |-> Def(visit)[n]]
    <3> HIDE DEF visit
    <3> QED
      BY <1>5
  <2> HIDE DEF visit
  <2> QED
    BY <2>3, <2>4 DEF P
<1>9. VisitInstrs(f, m) = visit[Len(is)]
  BY DEF VisitInstrs
<1> HIDE DEF visit
<1> QED
  BY <1>6, <1>7, <1>8, <1>9

\* What no visit of an instruction of f undoes, the visit of f does not undo.
LEMMA VisitKeeps ==
  ASSUME TypeOK, NEW f \in Func, NEW m \in Marks, NEW P, P \subseteq Marks, m \in P,
         \A h \in P : \A i \in InstrsOf(f) : VisitInstr(h, i) \in P
  PROVE  VisitInstrs(f, m) \in P
<1> DEFINE is == prog.instrs[f]
<1>1. is \in Seq(Instr) /\ InstrsOf(f) = {is[n] : n \in 1 .. Len(is)}
  BY DEF TypeOK, IsProgram, InstrsOf, ToSet
<1>2. Len(is) \in Nat
  BY <1>1
<1>3. PICK v \in [Nat -> Marks] :
        /\ v[0] = m
        /\ \A n \in Nat : v[n + 1] = VisitInstr(v[n], is[n + 1])
        /\ VisitInstrs(f, m) = v[Len(is)]
  BY VisitRecursion
<1> DEFINE K == {n \in Nat : n <= Len(is) => v[n] \in P}
<1>4. 0 \in K
  BY <1>3
<1>5. ASSUME NEW n \in Nat, n \in K PROVE n + 1 \in K
  <2>1. ASSUME n + 1 <= Len(is) PROVE v[n + 1] \in P
    <3>1. v[n] \in P /\ n + 1 \in 1 .. Len(is)
      BY <1>2, <1>5, <2>1
    <3>2. is[n + 1] \in InstrsOf(f)
      BY <1>1, <3>1
    <3> QED
      BY <1>3, <3>1, <3>2
  <2> QED
    BY <2>1
<1> HIDE DEF K
<1>6. Nat \subseteq K
  BY <1>4, <1>5, SetInduction
<1>7. v[Len(is)] \in P
  <2>1. Len(is) \in K /\ Len(is) <= Len(is)
    BY <1>2, <1>6
  <2> QED
    BY <2>1 DEF K
<1> QED
  BY <1>3, <1>7

\* The visit takes marks away only.
Fewer(m, n) == \A v \in Value : n[v] => m[v]

LEMMA VisitInstrTakes ==
  ASSUME NEW m \in Marks, NEW i
  PROVE  Fewer(m, VisitInstr(m, i))
<1>1. VisitInstr(m, i) = m \/ VisitInstr(m, i) = [m EXCEPT ![i] = FALSE]
  BY DEF VisitInstr
<1>2. Fewer(m, m)
  BY DEF Fewer
<1>3. Fewer(m, [m EXCEPT ![i] = FALSE])
  <2>1. ASSUME NEW v \in Value PROVE [m EXCEPT ![i] = FALSE][v] = IF v = i THEN FALSE ELSE m[v]
    BY DEF Marks
  <2> QED
    BY <2>1, Zenon DEF Fewer
<1> QED
  BY <1>1, <1>2, <1>3

LEMMA FewerBoth ==
  ASSUME NEW m \in Marks, NEW n \in Marks, Fewer(m, n), Fewer(n, m)
  PROVE  m = n
<1>1. \A v \in Value : m[v] \in BOOLEAN /\ n[v] \in BOOLEAN
  BY DEF Marks
<1>2. \A v \in Value : m[v] = n[v]
  BY <1>1 DEF Fewer
<1> QED
  BY <1>2 DEF Marks

LEMMA VisitTakes ==
  ASSUME TypeOK, NEW f \in Func, NEW m \in Marks
  PROVE  VisitInstrs(f, m) \in Marks /\ Fewer(m, VisitInstrs(f, m))
<1> DEFINE P == {h \in Marks : Fewer(m, h)}
<1>1. m \in P
  BY DEF Fewer
<1>2. ASSUME NEW h \in P, NEW i \in InstrsOf(f) PROVE VisitInstr(h, i) \in P
  <2>1. h \in Marks /\ Fewer(m, h)
    BY <1>2
  <2>2. VisitInstr(h, i) \in Marks /\ Fewer(h, VisitInstr(h, i))
    BY <2>1, VisitInstrType, VisitInstrTakes
  <2> QED
    BY <2>1, <2>2 DEF Fewer
<1>3. P \subseteq Marks
  OBVIOUS
<1> HIDE DEF P
<1>4. VisitInstrs(f, m) \in P
  BY <1>1, <1>2, <1>3, VisitKeeps
<1> QED
  BY <1>4 DEF P

\* A visit that takes no mark away found no instruction to take it from.
LEMMA VisitStable ==
  ASSUME TypeOK, NEW f \in Func, NEW m \in Marks, VisitInstrs(f, m) = m,
         NEW i \in InstrsOf(f), m[i]
  PROVE  ~can_mark_non_sparse_instr(m, i)
<1> DEFINE is == prog.instrs[f]
<1>1. is \in Seq(Instr) /\ InstrsOf(f) = {is[n] : n \in 1 .. Len(is)}
  BY DEF TypeOK, IsProgram, InstrsOf, ToSet
<1>2. Len(is) \in Nat
  BY <1>1
<1>3. PICK v \in [Nat -> Marks] :
        /\ v[0] = m
        /\ \A n \in Nat : v[n + 1] = VisitInstr(v[n], is[n + 1])
        /\ VisitInstrs(f, m) = v[Len(is)]
  BY VisitRecursion
<1>4. PICK k \in 1 .. Len(is) : is[k] = i
  BY <1>1
<1>5. \A n \in Nat : v[n] \in Marks /\ Fewer(v[n], v[n + 1])
  BY <1>3, VisitInstrTakes
<1>6. \A n \in Nat : Fewer(m, v[n])
  <2> DEFINE K == {n \in Nat : Fewer(m, v[n])}
  <2>1. 0 \in K
    BY <1>3 DEF Fewer
  <2>2. \A n \in Nat : n \in K => n + 1 \in K
    BY <1>5 DEF Fewer
  <2> HIDE DEF K
  <2>3. Nat \subseteq K
    BY <2>1, <2>2, SetInduction
  <2> QED
    BY <2>3 DEF K
<1>7. \A n \in Nat : Fewer(v[k], v[k + n])
  <2> DEFINE K == {n \in Nat : Fewer(v[k], v[k + n])}
  <2>1. 0 \in K
    BY <1>4 DEF Fewer
  <2>2. ASSUME NEW n \in Nat, n \in K PROVE n + 1 \in K
    <3>1. k + n \in Nat /\ (k + n) + 1 = k + (n + 1)
      BY <1>4
    <3> QED
      BY <1>5, <2>2, <3>1 DEF Fewer
  <2> HIDE DEF K
  <2>3. Nat \subseteq K
    BY <2>1, <2>2, SetInduction
  <2> QED
    BY <2>3 DEF K
<1>8. k - 1 \in Nat /\ (k - 1) + 1 = k /\ Len(is) - k \in Nat /\ k + (Len(is) - k) = Len(is)
  BY <1>2, <1>4
<1>9. Fewer(v[k], m)
  BY <1>3, <1>7, <1>8
<1>10. v[k] = m /\ v[k - 1] = m
  <2>1. Fewer(m, v[k - 1]) /\ Fewer(v[k - 1], v[k]) /\ v[k - 1] \in Marks /\ v[k] \in Marks
    <3> DEFINE j == k - 1
    <3>1. j \in Nat /\ k \in Nat /\ j + 1 = k
      BY <1>4, <1>8
    <3> HIDE DEF j
    <3>2. Fewer(m, v[j]) /\ Fewer(v[j], v[k]) /\ v[j] \in Marks /\ v[k] \in Marks
      BY <1>5, <1>6, <3>1
    <3> QED
      BY <3>2 DEF j
  <2> QED
    <3>1. Fewer(m, v[k]) /\ Fewer(v[k - 1], m)
      BY <1>9, <2>1, Zenon DEF Fewer
    <3> QED
      BY <1>9, <2>1, <3>1, FewerBoth
<1>11. m = VisitInstr(m, i)
  BY <1>3, <1>4, <1>8, <1>10
<1>12. i \in Value
  BY <1>1, <1>4 DEF Value
<1> QED
  BY <1>11, <1>12 DEF VisitInstr, Marks

------------------------------------------------------------------------------
(* Types *)

LEMMA InitType ==
  ASSUME Init
  PROVE  TypeOK
<1>1. IsProgram(prog)
  BY SparseAssumption DEF Init
<1>2. sparse \in Marks
  BY DEF Init, Marks
<1> QED
  BY <1>1, <1>2 DEF Init, TypeOK, Passes, FuncPasses

\* What stays typed when a function loses its mark.
LEMMA UnmarkFuncType ==
  ASSUME TypeOK, NEW f \in Func, UnmarkFunc(f)
  PROVE  /\ sparse' \in Marks /\ Fewer(sparse, sparse')
         /\ fsparse' \in [Func -> BOOLEAN \union {None}]
         /\ \A h \in Func : fsparse'[h] = IF h = f THEN FALSE ELSE fsparse[h]
<1>1. sparse' = [v \in Value |-> sparse[v] /\ v \notin Users(f)]
  BY DEF UnmarkFunc
<1>2. \A v \in Value : (sparse[v] /\ v \notin Users(f)) \in BOOLEAN
  OBVIOUS
<1>3. sparse' \in Marks
  BY <1>1, <1>2, Zenon DEF Marks
<1>4. ASSUME NEW v \in Value PROVE sparse'[v] = (sparse[v] /\ v \notin Users(f))
  BY <1>1
<1>5. Fewer(sparse, sparse')
  BY <1>4, Zenon DEF Fewer
<1> QED
  BY <1>3, <1>5 DEF UnmarkFunc, TypeOK

LEMMA UnmarkGlobalType ==
  ASSUME TypeOK, NEW g \in Global, sparse[g], sparse' = UnmarkGlobal(g)
  PROVE  sparse' \in Marks /\ Fewer(sparse, sparse') /\ sparse' # sparse
<1>1. \A v \in Value : (sparse[v] /\ v # g /\ v \notin Users(g)) \in BOOLEAN
  OBVIOUS
<1>2. sparse' \in Marks
  BY <1>1, Zenon DEF Marks, UnmarkGlobal
<1>3. ASSUME NEW v \in Value PROVE sparse'[v] = (sparse[v] /\ v # g /\ v \notin Users(g))
  BY DEF UnmarkGlobal
<1>4. Fewer(sparse, sparse')
  BY <1>3, Zenon DEF Fewer
<1>5. g \in Value
  BY DEF Value
<1>6. ~sparse'[g]
  BY <1>3, <1>5
<1> QED
  BY <1>2, <1>4, <1>6

LEMMA TypeStep ==
  ASSUME TypeOK, [Next]_vars
  PROVE  TypeOK'
<1>1. CASE init_sparse_globals_instrs
  <2>1. \A v \in Value : (IF v \in Global THEN v \notin prog.strings
                          ELSE is_candidate_sparse_instr(v)) \in BOOLEAN
    BY DEF is_candidate_sparse_instr
  <2>2. sparse' \in Marks
    BY <1>1, <2>1, Zenon DEF init_sparse_globals_instrs, Marks
  <2> QED
    BY <1>1, <2>2 DEF init_sparse_globals_instrs, TypeOK, Passes, FuncPasses
<1>2. CASE init_sparse_funcs
  <2>1. PICK f \in todo :
          /\ todo' = todo \ {f}
          /\ \/ fsparse[f] = FALSE /\ UNCHANGED <<fsparse, sparse>>
             \/ fsparse[f] # FALSE /\ ~IsCandidate(f) /\ UnmarkFunc(f)
             \/ /\ fsparse[f] # FALSE /\ IsCandidate(f)
                /\ fsparse' = [fsparse EXCEPT ![f] = TRUE]
                /\ UNCHANGED sparse
    BY <1>2 DEF init_sparse_funcs
  <2>2. f \in Func
    BY <1>2, <2>1 DEF init_sparse_funcs, TypeOK, FuncPasses
  <2>3. sparse' \in Marks /\ fsparse' \in [Func -> BOOLEAN \union {None}]
    BY <2>1, <2>2, UnmarkFuncType DEF TypeOK
  <2> QED
    BY <1>2, <2>1, <2>3 DEF init_sparse_funcs, TypeOK, Passes, FuncPasses
<1>3. CASE init_sparse_blocks
  <2>1. \A b \in Block : (bsparse[b] # FALSE /\ IsSparseBlock(b)) \in BOOLEAN
    OBVIOUS
  <2>2. bsparse' \in [Block -> BOOLEAN \union {None}]
    BY <1>3, <2>1, Zenon DEF init_sparse_blocks, MarkBlocks
  <2> QED
    BY <1>3, <2>2 DEF init_sparse_blocks, TypeOK, Passes, FuncPasses
<1>4. CASE refine_sparse_blocks
  BY <1>4 DEF refine_sparse_blocks, TypeOK, Passes, FuncPasses
<1>5. CASE refine_sparse_funcs
  <2>1. PICK f \in todo :
          /\ todo' = todo \ {f}
          /\ IF fsparse[f] = TRUE /\ ~HasPointerInstr(f)
             THEN UnmarkFunc(f) /\ again' = TRUE /\ outer' = TRUE
             ELSE UNCHANGED <<fsparse, sparse, again, outer>>
    BY <1>5 DEF refine_sparse_funcs
  <2>2. f \in Func
    BY <1>5, <2>1 DEF refine_sparse_funcs, TypeOK, FuncPasses
  <2>3. sparse' \in Marks /\ fsparse' \in [Func -> BOOLEAN \union {None}]
    BY <2>1, <2>2, UnmarkFuncType DEF TypeOK
  <2> QED
    BY <1>5, <2>1, <2>3 DEF refine_sparse_funcs, TypeOK, Passes, FuncPasses
<1>6. CASE refine_func
  <2>1. PICK f \in todo :
          /\ sparse' = VisitInstrs(f, sparse)
          /\ todo' = IF sparse' # sparse THEN todo ELSE todo \ {f}
          /\ inner' = (inner \/ sparse' # sparse)
    BY <1>6 DEF refine_func
  <2>2. f \in Func
    BY <1>6, <2>1 DEF refine_func, TypeOK, FuncPasses
  <2>3. sparse' \in Marks
    BY <2>1, <2>2, VisitTakes DEF TypeOK
  <2>4. inner' \in BOOLEAN
    BY <2>1
  <2> QED
    BY <1>6, <2>1, <2>3, <2>4 DEF refine_func, TypeOK, Passes, FuncPasses
<1>7. CASE refine_candidate_sparse_globals
  <2>1. PICK g \in todo :
          /\ todo' = todo \ {g}
          /\ IF sparse[g] /\ (~IsUsed(g) \/ OnlyStoredTo(g))
             THEN sparse' = UnmarkGlobal(g) /\ inner' = TRUE
             ELSE UNCHANGED <<sparse, inner>>
    BY <1>7 DEF refine_candidate_sparse_globals
  <2>2. g \in Global
    BY <1>7, <2>1 DEF refine_candidate_sparse_globals, TypeOK
  <2>3. sparse' \in Marks /\ inner' \in BOOLEAN
    BY <2>1, <2>2, UnmarkGlobalType DEF TypeOK
  <2> QED
    BY <1>7, <2>1, <2>3 DEF refine_candidate_sparse_globals, TypeOK, Passes, FuncPasses
<1>8. CASE EndOfPass
  BY <1>8 DEF EndOfPass, NextRound, Visit, TypeOK, Passes, FuncPasses
<1>9. CASE analyze_program_interproc
  BY <1>9 DEF analyze_program_interproc, NextPass, TypeOK, Passes, FuncPasses
<1>10. CASE Done \/ UNCHANGED vars
  BY <1>10 DEF Done, vars, TypeOK
<1> QED
  BY <1>1, <1>2, <1>3, <1>4, <1>5, <1>6, <1>7, <1>8, <1>9, <1>10 DEF Next

LEMMA TypeInvariant == Spec => []TypeOK
BY InitType, TypeStep, PTL DEF Spec

------------------------------------------------------------------------------
(* Marks only fall *)

LEMMA StepTakesMarks ==
  ASSUME TypeOK, Next, pass # "values"
  PROVE  TakesMarks
<1> DEFINE Less == /\ Fewer(sparse, sparse')
                   /\ \A b \in Block : bsparse[b] = FALSE => bsparse'[b] = FALSE
                   /\ \A f \in Func : fsparse[f] = FALSE => fsparse'[f] = FALSE
           Changed == <<sparse, bsparse, fsparse>>' # <<sparse, bsparse, fsparse>>
<1>1. SUFFICES Less /\ (AsksAgain => Changed)
  BY DEF TakesMarks, Fewer
<1>2. Fewer(sparse, sparse)
  BY DEF Fewer
<1>3. CASE init_sparse_funcs
  <2>1. PICK f \in todo :
             \/ fsparse[f] = FALSE /\ UNCHANGED <<fsparse, sparse>>
             \/ fsparse[f] # FALSE /\ ~IsCandidate(f) /\ UnmarkFunc(f)
             \/ /\ fsparse[f] # FALSE /\ IsCandidate(f)
                /\ fsparse' = [fsparse EXCEPT ![f] = TRUE]
                /\ UNCHANGED sparse
    BY <1>3 DEF init_sparse_funcs
  <2>2. f \in Func
    BY <1>3, <2>1 DEF init_sparse_funcs, TypeOK, FuncPasses
  <2>3. Less
    BY <1>2, <1>3, <2>1, <2>2, UnmarkFuncType DEF init_sparse_funcs, TypeOK
  <2>4. ~AsksAgain
    BY <1>3 DEF init_sparse_funcs, AsksAgain
  <2> QED
    BY <2>3, <2>4
<1>4. CASE init_sparse_blocks
  BY <1>2, <1>4 DEF init_sparse_blocks, MarkBlocks, AsksAgain
<1>5. CASE refine_sparse_blocks
  <2> DEFINE lost == {b \in Block : bsparse[b] = TRUE} \ UNION {Reached(f) : f \in Func}
  <2>1. /\ bsparse' = [b \in Block |-> IF b \in lost THEN FALSE ELSE bsparse[b]]
        /\ outer' = (lost # {}) /\ lost \subseteq {b \in Block : bsparse[b] = TRUE}
        /\ UNCHANGED <<sparse, fsparse, again, inner>>
    BY <1>5 DEF refine_sparse_blocks
  <2> HIDE DEF lost
  <2>2. Less
    BY <1>2, <2>1
  <2>3. ASSUME AsksAgain PROVE Changed
    <3>1. PICK b \in lost : TRUE
      BY <2>1, <2>3 DEF AsksAgain
    <3>2. bsparse[b] = TRUE /\ bsparse'[b] = FALSE
      BY <2>1, <3>1
    <3> QED
      BY <3>2
  <2> QED
    BY <2>2, <2>3
<1>6. CASE refine_sparse_funcs
  <2>1. PICK f \in todo :
          IF fsparse[f] = TRUE /\ ~HasPointerInstr(f)
          THEN UnmarkFunc(f) /\ again' = TRUE /\ outer' = TRUE
          ELSE UNCHANGED <<fsparse, sparse, again, outer>>
    BY <1>6 DEF refine_sparse_funcs
  <2>2. f \in Func
    BY <1>6, <2>1 DEF refine_sparse_funcs, TypeOK, FuncPasses
  <2>3. bsparse' = bsparse /\ inner' = inner /\ pass = "refine_funcs"
    BY <1>6 DEF refine_sparse_funcs
  <2>4. CASE fsparse[f] = TRUE /\ ~HasPointerInstr(f)
    BY <2>1, <2>2, <2>3, <2>4, UnmarkFuncType
  <2>5. CASE ~(fsparse[f] = TRUE /\ ~HasPointerInstr(f))
    BY <1>2, <2>1, <2>3, <2>5 DEF AsksAgain
  <2> QED
    BY <2>4, <2>5
<1>7. CASE refine_func
  <2>1. PICK f \in todo :
          sparse' = VisitInstrs(f, sparse) /\ inner' = (inner \/ sparse' # sparse)
    BY <1>7 DEF refine_func
  <2>2. f \in Func
    BY <1>7, <2>1 DEF refine_func, TypeOK, FuncPasses
  <2>3. Fewer(sparse, sparse')
    BY <2>1, <2>2, VisitTakes DEF TypeOK
  <2>4. bsparse' = bsparse /\ fsparse' = fsparse /\ again' = again /\ pass = "refine_instrs"
    BY <1>7 DEF refine_func
  <2> QED
    BY <2>1, <2>3, <2>4 DEF AsksAgain
<1>8. CASE refine_candidate_sparse_globals
  <2>1. PICK g \in todo :
          IF sparse[g] /\ (~IsUsed(g) \/ OnlyStoredTo(g))
          THEN sparse' = UnmarkGlobal(g) /\ inner' = TRUE
          ELSE UNCHANGED <<sparse, inner>>
    BY <1>8 DEF refine_candidate_sparse_globals
  <2>2. g \in Global
    BY <1>8, <2>1 DEF refine_candidate_sparse_globals, TypeOK
  <2>3. bsparse' = bsparse /\ fsparse' = fsparse /\ again' = again /\ pass = "refine_globals"
    BY <1>8 DEF refine_candidate_sparse_globals
  <2> QED
    BY <1>2, <2>1, <2>2, <2>3, UnmarkGlobalType DEF AsksAgain
<1>9. CASE EndOfPass \/ analyze_program_interproc \/ Done
  <2>1. UNCHANGED <<sparse, bsparse, fsparse>>
    BY <1>9 DEF EndOfPass, analyze_program_interproc, Done, vars
  <2>2. ~AsksAgain
    BY <1>9 DEF EndOfPass, NextRound, Visit, analyze_program_interproc, Done, vars, AsksAgain
  <2> QED
    BY <1>2, <2>1, <2>2
<1>10. ~init_sparse_globals_instrs
  BY DEF init_sparse_globals_instrs
<1> QED
  BY <1>3, <1>4, <1>5, <1>6, <1>7, <1>8, <1>9, <1>10 DEF Next

\* The loops of initialize_analysis run again only after a mark was taken away, and between
\* two entry functions no mark comes back: for every program, whose marks are finite in
\* number, the loops end.
THEOREM RoundsTakeMarksCorrect == Spec => RoundsTakeMarks
<1>1. TypeOK /\ [Next]_vars => [pass # "values" => TakesMarks]_vars
  BY StepTakesMarks
<1> QED
  BY <1>1, TypeInvariant, PTL DEF Spec, RoundsTakeMarks

------------------------------------------------------------------------------
(* No refinement is left *)

FuncKept(f) == fsparse[f] = TRUE => HasPointerInstr(f)
InstrKept(i) == sparse[i] => ~can_mark_non_sparse_instr(sparse, i)
GlobalKept(g) == sparse[g] => IsUsed(g) /\ ~OnlyStoredTo(g)

\* What a pass has established for what it visited, as long as no mark was taken since.
SettledInv ==
  /\ pass = "refine_funcs" /\ ~again => \A f \in Func \ todo : FuncKept(f)
  /\ pass \in {"refine_instrs", "refine_globals"} /\ ~inner /\ ~outer => \A f \in Func : FuncKept(f)
  /\ pass = "refine_instrs" /\ ~inner => \A f \in Func \ todo : \A i \in InstrsOf(f) : InstrKept(i)
  /\ pass = "refine_globals" /\ ~inner =>
       (\A i \in Instr : InstrKept(i)) /\ \A g \in Global \ todo : GlobalKept(g)
  /\ Ready => /\ \A f \in Func : FuncKept(f)
              /\ \A i \in Instr : InstrKept(i)
              /\ \A g \in Global : GlobalKept(g)

\* The passes that do not read the marks that SettledInv is about.
LEMMA SettledSame ==
  ASSUME UNCHANGED <<prog, sparse, fsparse>>
  PROVE  /\ \A f : FuncKept(f)' = FuncKept(f) /\ InstrsOf(f)' = InstrsOf(f)
         /\ \A i : InstrKept(i)' = InstrKept(i)
         /\ \A g : GlobalKept(g)' = GlobalKept(g)
BY DEF FuncKept, InstrKept, GlobalKept, HasPointerInstr, InstrsOf, IsPointerRelated,
   can_mark_non_sparse_instr, Users, IsUsed, OnlyStoredTo

LEMMA SettledStep ==
  ASSUME TypeOK, SettledInv, [Next]_vars
  PROVE  SettledInv'
<1>1. CASE init_sparse_globals_instrs \/ init_sparse_funcs \/ init_sparse_blocks
           \/ refine_sparse_blocks \/ analyze_program_interproc
  <2>1. pass' \notin {"refine_funcs", "refine_instrs", "refine_globals", "ready"}
    BY <1>1 DEF init_sparse_globals_instrs, init_sparse_funcs, init_sparse_blocks,
       refine_sparse_blocks, analyze_program_interproc, NextPass
  <2> QED
    BY <2>1 DEF SettledInv, Ready
<1>2. CASE refine_sparse_funcs
  <2>1. PICK f \in todo :
          /\ todo' = todo \ {f}
          /\ IF fsparse[f] = TRUE /\ ~HasPointerInstr(f)
             THEN UnmarkFunc(f) /\ again' = TRUE /\ outer' = TRUE
             ELSE UNCHANGED <<fsparse, sparse, again, outer>>
    BY <1>2 DEF refine_sparse_funcs
  <2>2. pass = "refine_funcs" /\ pass' = "refine_funcs" /\ prog' = prog
    BY <1>2 DEF refine_sparse_funcs
  <2>3. CASE fsparse[f] = TRUE /\ ~HasPointerInstr(f)
    BY <2>1, <2>2, <2>3 DEF SettledInv, Ready
  <2>4. CASE ~(fsparse[f] = TRUE /\ ~HasPointerInstr(f))
    <3>1. UNCHANGED <<prog, sparse, fsparse>> /\ again' = again
      BY <2>1, <2>2, <2>4
    <3>2. \A h : FuncKept(h)' = FuncKept(h)
      BY <3>1, SettledSame
    <3>3. FuncKept(f)
      BY <2>4 DEF FuncKept
    <3>4. ~again => \A h \in Func \ todo' : FuncKept(h)
      BY <2>1, <2>2, <3>3 DEF SettledInv
    <3> QED
      BY <2>2, <3>1, <3>2, <3>4 DEF SettledInv, Ready
  <2> QED
    BY <2>3, <2>4
<1>3. CASE refine_func
  <2>1. PICK f \in todo :
          /\ sparse' = VisitInstrs(f, sparse)
          /\ todo' = IF sparse' # sparse THEN todo ELSE todo \ {f}
          /\ inner' = (inner \/ sparse' # sparse)
    BY <1>3 DEF refine_func
  <2>2. f \in Func
    BY <1>3, <2>1 DEF refine_func, TypeOK, FuncPasses
  <2>3. pass = "refine_instrs" /\ pass' = "refine_instrs" /\ UNCHANGED <<prog, fsparse, outer>>
    BY <1>3 DEF refine_func
  <2>4. CASE inner \/ sparse' # sparse
    BY <2>1, <2>3, <2>4 DEF SettledInv, Ready
  <2>5. CASE ~inner /\ sparse' = sparse
    <3>1. ASSUME NEW i \in InstrsOf(f) PROVE InstrKept(i)
      BY <2>1, <2>2, <2>5, <3>1, VisitStable DEF InstrKept, TypeOK
    <3>2. \A h \in Func \ todo' : \A i \in InstrsOf(h) : InstrKept(i)
      BY <2>1, <2>3, <2>5, <3>1 DEF SettledInv
    <3>3. /\ \A h : FuncKept(h)' = FuncKept(h) /\ InstrsOf(h)' = InstrsOf(h)
          /\ \A i : InstrKept(i)' = InstrKept(i)
      BY <2>3, <2>5, SettledSame
    <3>4. inner' = FALSE
      BY <2>1, <2>5
    <3> QED
      BY <2>3, <2>5, <3>2, <3>3, <3>4 DEF SettledInv, Ready
  <2> QED
    BY <2>4, <2>5
<1>4. CASE refine_candidate_sparse_globals
  <2>1. PICK g \in todo :
          /\ todo' = todo \ {g}
          /\ IF sparse[g] /\ (~IsUsed(g) \/ OnlyStoredTo(g))
             THEN sparse' = UnmarkGlobal(g) /\ inner' = TRUE
             ELSE UNCHANGED <<sparse, inner>>
    BY <1>4 DEF refine_candidate_sparse_globals
  <2>2. pass = "refine_globals" /\ pass' = "refine_globals" /\ UNCHANGED <<prog, fsparse, outer>>
    BY <1>4 DEF refine_candidate_sparse_globals
  <2>3. CASE sparse[g] /\ (~IsUsed(g) \/ OnlyStoredTo(g))
    BY <2>1, <2>2, <2>3 DEF SettledInv, Ready
  <2>4. CASE ~(sparse[g] /\ (~IsUsed(g) \/ OnlyStoredTo(g)))
    <3>1. UNCHANGED <<prog, sparse, fsparse>> /\ inner' = inner
      BY <2>1, <2>2, <2>4
    <3>2. /\ \A h : FuncKept(h)' = FuncKept(h)
          /\ \A i : InstrKept(i)' = InstrKept(i)
          /\ \A h : GlobalKept(h)' = GlobalKept(h)
      BY <3>1, SettledSame
    <3>3. GlobalKept(g)
      BY <2>4 DEF GlobalKept
    <3>4. ~inner => \A h \in Global \ todo' : GlobalKept(h)
      BY <2>1, <2>2, <3>3 DEF SettledInv
    <3> QED
      BY <2>2, <3>1, <3>2, <3>4 DEF SettledInv, Ready
  <2> QED
    BY <2>3, <2>4
<1>5. CASE EndOfPass
  <2>1. UNCHANGED <<prog, sparse, fsparse>> /\ todo = {}
    BY <1>5 DEF EndOfPass
  <2>2. /\ \A f : FuncKept(f)' = FuncKept(f) /\ InstrsOf(f)' = InstrsOf(f)
        /\ \A i : InstrKept(i)' = InstrKept(i)
        /\ \A g : GlobalKept(g)' = GlobalKept(g)
    BY <2>1, SettledSame
  <2>3. CASE pass \in {"first_funcs", "init_funcs"}
    BY <1>5, <2>3 DEF EndOfPass, Visit, SettledInv, Ready
  <2>4. CASE pass = "refine_funcs"
    <3>1. CASE again
      BY <1>5, <2>4, <3>1 DEF EndOfPass, Visit, SettledInv, Ready
    <3>2. CASE ~again
      <4>1. \A f \in Func : FuncKept(f)
        BY <2>1, <2>4, <3>2 DEF SettledInv
      <4>2. pass' = "refine_instrs" /\ todo' = Func
        BY <1>5, <2>4, <3>2 DEF EndOfPass, Visit
      <4> QED
        BY <2>2, <4>1, <4>2 DEF SettledInv, Ready
    <3> QED
      BY <3>1, <3>2
  <2>5. CASE pass = "refine_instrs"
    <3>1. pass' = "refine_globals" /\ todo' = Global /\ UNCHANGED <<inner, outer>>
      BY <1>5, <2>5 DEF EndOfPass, Visit
    <3>2. ASSUME ~inner, NEW i \in Instr PROVE InstrKept(i)
      <4>1. PICK f \in Func : i \in InstrsOf(f)
        BY DEF TypeOK, IsProgram, InstrsOf
      <4> QED
        BY <2>1, <2>5, <3>2, <4>1 DEF SettledInv
    <3> QED
      BY <2>2, <2>5, <3>1, <3>2 DEF SettledInv, Ready
  <2>6. CASE pass = "refine_globals"
    <3>1. NextRound
      BY <1>5, <2>6 DEF EndOfPass
    <3>2. CASE inner
      <4>1. pass' = "refine_instrs" /\ outer' = TRUE /\ todo' = Func
        BY <3>1, <3>2 DEF NextRound, Visit
      <4> QED
        BY <4>1 DEF SettledInv, Ready
    <3>3. CASE ~inner /\ outer
      <4>1. pass' = "init_blocks"
        BY <3>1, <3>3 DEF NextRound, Visit
      <4> QED
        BY <4>1 DEF SettledInv, Ready
    <3>4. CASE ~inner /\ ~outer
      <4>1. pass' = "ready"
        BY <3>1, <3>4 DEF NextRound, Visit
      <4>2. /\ \A f \in Func : FuncKept(f)
            /\ \A i \in Instr : InstrKept(i)
            /\ \A g \in Global : GlobalKept(g)
        BY <2>1, <2>6, <3>4 DEF SettledInv
      <4> QED
        BY <2>2, <4>1, <4>2 DEF SettledInv, Ready
    <3> QED
      BY <3>2, <3>3, <3>4
  <2> QED
    BY <1>5, <2>3, <2>4, <2>5, <2>6 DEF EndOfPass
<1>6. CASE Done \/ UNCHANGED vars
  <2>1. UNCHANGED <<prog, sparse, fsparse>> /\ UNCHANGED <<pass, todo, again, inner, outer>>
    BY <1>6 DEF Done, vars
  <2>2. /\ \A f : FuncKept(f)' = FuncKept(f) /\ InstrsOf(f)' = InstrsOf(f)
        /\ \A i : InstrKept(i)' = InstrKept(i)
        /\ \A g : GlobalKept(g)' = GlobalKept(g)
    BY <2>1, SettledSame
  <2> QED
    BY <2>1, <2>2 DEF SettledInv, Ready
<1> QED
  BY <1>1, <1>2, <1>3, <1>4, <1>5, <1>6 DEF Next

LEMMA SettledInvariant == Spec => []SettledInv
<1>1. Init => SettledInv
  BY DEF Init, SettledInv, Ready
<1> QED
  BY <1>1, TypeInvariant, SettledStep, PTL DEF Spec

\* When initialize_analysis ends, no pass of it would take another mark: for every program
\* and every order in which the passes visit functions and globals.
THEOREM SettledCorrect == Spec => []Settled
<1>1. SettledInv => Settled
  BY DEF SettledInv, Settled, FuncKept, InstrKept, GlobalKept
<1> QED
  BY <1>1, SettledInvariant, PTL

------------------------------------------------------------------------------
(* Operands *)

\* Why instruction j may lose its mark under its users.
Excused(m, j) == (\E g \in prog.oprs[j] \intersect Global : ~m[g]) \/ UsesNonSparseFunc(j)

\* At any time, for the instructions other than stores: a store may keep its mark until the
\* next visit when the variable that it writes has lost its own.
OperandsHold(m) ==
  \A i \in Instr : m[i] /\ prog.op[i] # "store" =>
    \A j \in prog.oprs[i] \intersect Instr :
      is_candidate_sparse_instr(j) /\ ~m[j] => Excused(m, j)

LEMMA ExcusedStays ==
  ASSUME TypeOK, NEW m, NEW n, Fewer(m, n), NEW j, Excused(m, j)
  PROVE  Excused(n, j)
<1>1. Global \subseteq Value
  BY DEF Value
<1> QED
  BY <1>1 DEF Excused, Fewer

LEMMA VisitInstrOperands ==
  ASSUME TypeOK, NEW h \in Marks, OperandsHold(h), NEW k \in Instr
  PROVE  OperandsHold(VisitInstr(h, k))
<1> DEFINE n == VisitInstr(h, k)
<1>1. Fewer(h, n)
  BY VisitInstrTakes
<1>2. SUFFICES ASSUME NEW i \in Instr, n[i], prog.op[i] # "store",
                      NEW j \in prog.oprs[i] \intersect Instr, is_candidate_sparse_instr(j), ~n[j]
               PROVE  Excused(n, j)
  BY DEF OperandsHold
<1>3. i \in Value /\ j \in Value /\ k \in Value
  BY DEF Value
<1>4. h[i]
  BY <1>1, <1>2, <1>3 DEF Fewer
<1>5. CASE ~h[j]
  <2>1. Excused(h, j)
    BY <1>2, <1>4, <1>5 DEF OperandsHold
  <2> QED
    BY <1>1, <2>1, ExcusedStays
<1>6. CASE h[j]
  <2>1. n # h
    BY <1>2, <1>6
  <2>2. can_mark_non_sparse_instr(h, k) /\ n = [h EXCEPT ![k] = FALSE]
    BY <2>1 DEF VisitInstr
  <2>3. j = k
    <3>1. j # k => n[j] = h[j]
      BY <1>3, <2>2 DEF Marks
    <3> QED
      BY <1>2, <1>6, <3>1
  <2>4. i \in Users(k) /\ i \in {u \in Users(k) \intersect Instr : h[u]}
    BY <1>2, <1>3, <1>4, <2>3 DEF Users
  <2>5. prog.op[k] # "store"
    BY <1>2, <1>3, <2>3 DEF TypeOK, IsProgram
  <2>6. prog.op[k] # "alloca"
    BY <1>2, <2>2, <2>4 DEF can_mark_non_sparse_instr
  <2>7. \E g \in prog.oprs[k] \intersect Global : ~h[g]
    BY <2>2, <2>4, <2>5, <2>6 DEF can_mark_non_sparse_instr
  <2>8. Excused(h, j)
    BY <2>3, <2>7 DEF Excused
  <2> QED
    BY <1>1, <2>8, ExcusedStays
<1> QED
  BY <1>5, <1>6

\* A step that takes marks away with an excuse.
LEMMA OperandsFall ==
  ASSUME TypeOK, TypeOK', OperandsHold(sparse), prog' = prog, Fewer(sparse, sparse'),
         \A f \in Func : fsparse[f] = FALSE => fsparse'[f] = FALSE,
         \A j \in Instr : sparse[j] /\ ~sparse'[j] => Excused(sparse, j)'
  PROVE  OperandsHold(sparse)'
<1>1. SUFFICES ASSUME NEW i \in Instr, sparse'[i], prog.op[i] # "store",
                      NEW j \in prog.oprs[i] \intersect Instr, is_candidate_sparse_instr(j), ~sparse'[j]
               PROVE  Excused(sparse, j)'
  BY DEF OperandsHold, is_candidate_sparse_instr
<1>2. CASE sparse[j]
  BY <1>1, <1>2
<1>3. CASE ~sparse[j]
  <2>1. sparse[i]
    BY <1>1 DEF Fewer, Value
  <2>2. Excused(sparse, j)
    BY <1>1, <1>3, <2>1 DEF OperandsHold
  <2>3. (\E g \in prog.oprs[j] \intersect Global : ~sparse[g]) =>
           \E g \in prog.oprs[j] \intersect Global : ~sparse'[g]
    BY DEF Fewer, Value
  <2>4. UsesNonSparseFunc(j) => UsesNonSparseFunc(j)'
    BY DEF UsesNonSparseFunc
  <2> QED
    BY <2>2, <2>3, <2>4 DEF Excused
<1> QED
  BY <1>2, <1>3

LEMMA UnmarkFuncExcuses ==
  ASSUME TypeOK, NEW f \in Func, UnmarkFunc(f), prog' = prog, NEW j \in Instr, sparse[j], ~sparse'[j]
  PROVE  Excused(sparse, j)'
<1>1. j \in Users(f)
  BY DEF UnmarkFunc, Value
<1>2. f \in prog'.oprs[j] \intersect Func /\ fsparse'[f] = FALSE
  BY <1>1, UnmarkFuncType DEF Users
<1> QED
  BY <1>2 DEF Excused, UsesNonSparseFunc

LEMMA OperandsStep ==
  ASSUME TypeOK, TypeOK', OperandsHold(sparse), [Next]_vars
  PROVE  OperandsHold(sparse)'
<1>1. CASE init_sparse_globals_instrs
  <2>1. ASSUME NEW j \in Instr PROVE sparse'[j] = is_candidate_sparse_instr(j)
    BY <1>1, SparseAssumption DEF init_sparse_globals_instrs, Value
  <2>2. prog' = prog
    BY <1>1 DEF init_sparse_globals_instrs
  <2> QED
    BY <2>1, <2>2 DEF OperandsHold, is_candidate_sparse_instr
<1>2. CASE refine_func
  <2>1. PICK f \in todo : sparse' = VisitInstrs(f, sparse)
    BY <1>2 DEF refine_func
  <2>2. f \in Func
    BY <1>2, <2>1 DEF refine_func, TypeOK, FuncPasses
  <2> DEFINE P == {h \in Marks : OperandsHold(h)}
  <2>3. sparse \in P /\ P \subseteq Marks
    BY DEF TypeOK
  <2>4. ASSUME NEW h \in P, NEW i \in InstrsOf(f) PROVE VisitInstr(h, i) \in P
    <3>1. i \in Instr
      BY <2>2 DEF InstrsOf, TypeOK, IsProgram
    <3> QED
      BY <2>4, <3>1, VisitInstrType, VisitInstrOperands
  <2> HIDE DEF P
  <2>5. sparse' \in P
    BY <2>1, <2>2, <2>3, <2>4, VisitKeeps
  <2>6. OperandsHold(sparse')
    BY <2>5 DEF P
  <2>7. prog' = prog /\ fsparse' = fsparse
    BY <1>2 DEF refine_func
  <2> QED
    BY <2>6, <2>7 DEF OperandsHold, is_candidate_sparse_instr, Excused, UsesNonSparseFunc
<1>3. CASE init_sparse_funcs
  <2>1. PICK f \in todo :
             \/ fsparse[f] = FALSE /\ UNCHANGED <<fsparse, sparse>>
             \/ fsparse[f] # FALSE /\ ~IsCandidate(f) /\ UnmarkFunc(f)
             \/ /\ fsparse[f] # FALSE /\ IsCandidate(f)
                /\ fsparse' = [fsparse EXCEPT ![f] = TRUE]
                /\ UNCHANGED sparse
    BY <1>3 DEF init_sparse_funcs
  <2>2. f \in Func /\ prog' = prog
    BY <1>3, <2>1 DEF init_sparse_funcs, TypeOK, FuncPasses
  <2>3. CASE UnmarkFunc(f)
    <3>1. Fewer(sparse, sparse') /\ \A h \in Func : fsparse[h] = FALSE => fsparse'[h] = FALSE
      BY <2>2, <2>3, UnmarkFuncType
    <3> QED
      BY <2>2, <2>3, <3>1, UnmarkFuncExcuses, OperandsFall
  <2>4. CASE sparse' = sparse
    <3>1. Fewer(sparse, sparse') /\ \A h \in Func : fsparse[h] = FALSE => fsparse'[h] = FALSE
      BY <2>1, <2>2, <2>4, UnmarkFuncType DEF Fewer, TypeOK
    <3> QED
      BY <2>2, <2>4, <3>1, OperandsFall
  <2> QED
    BY <2>1, <2>3, <2>4
<1>4. CASE refine_sparse_funcs
  <2>1. PICK f \in todo : UnmarkFunc(f) \/ UNCHANGED <<fsparse, sparse>>
    BY <1>4 DEF refine_sparse_funcs
  <2>2. f \in Func /\ prog' = prog
    BY <1>4, <2>1 DEF refine_sparse_funcs, TypeOK, FuncPasses
  <2>3. CASE UnmarkFunc(f)
    <3>1. Fewer(sparse, sparse') /\ \A h \in Func : fsparse[h] = FALSE => fsparse'[h] = FALSE
      BY <2>2, <2>3, UnmarkFuncType
    <3> QED
      BY <2>2, <2>3, <3>1, UnmarkFuncExcuses, OperandsFall
  <2>4. CASE UNCHANGED <<fsparse, sparse>>
    <3>1. Fewer(sparse, sparse')
      BY <2>4 DEF Fewer
    <3> QED
      BY <2>2, <2>4, <3>1, OperandsFall
  <2> QED
    BY <2>1, <2>3, <2>4
<1>5. CASE refine_candidate_sparse_globals
  <2>1. PICK g \in todo : (sparse[g] /\ sparse' = UnmarkGlobal(g)) \/ sparse' = sparse
    BY <1>5 DEF refine_candidate_sparse_globals
  <2>2. g \in Global /\ prog' = prog /\ fsparse' = fsparse
    BY <1>5, <2>1 DEF refine_candidate_sparse_globals, TypeOK
  <2>3. CASE sparse[g] /\ sparse' = UnmarkGlobal(g)
    <3>1. Fewer(sparse, sparse')
      BY <2>2, <2>3, UnmarkGlobalType
    <3>2. ASSUME NEW j \in Instr, sparse[j], ~sparse'[j] PROVE Excused(sparse, j)'
      <4>1. j # g
        BY <2>2, SparseAssumption
      <4>2. j \in Users(g)
        BY <2>3, <3>2, <4>1 DEF UnmarkGlobal, Value
      <4>3. g \in prog'.oprs[j] \intersect Global /\ ~sparse'[g]
        BY <2>2, <2>3, <4>2 DEF Users, UnmarkGlobal, Value
      <4> QED
        BY <4>3 DEF Excused
    <3> QED
      BY <2>2, <3>1, <3>2, OperandsFall
  <2>4. CASE sparse' = sparse
    <3>1. Fewer(sparse, sparse')
      BY <2>4 DEF Fewer
    <3> QED
      BY <2>2, <2>4, <3>1, OperandsFall
  <2> QED
    BY <2>1, <2>3, <2>4
<1>6. CASE init_sparse_blocks \/ refine_sparse_blocks \/ EndOfPass \/ analyze_program_interproc
           \/ Done \/ UNCHANGED vars
  <2>1. UNCHANGED <<prog, sparse, fsparse>>
    BY <1>6 DEF init_sparse_blocks, refine_sparse_blocks, EndOfPass, analyze_program_interproc,
       Done, vars
  <2> QED
    BY <2>1 DEF OperandsHold, is_candidate_sparse_instr, Excused, UsesNonSparseFunc
<1> QED
  BY <1>1, <1>2, <1>3, <1>4, <1>5, <1>6 DEF Next

LEMMA OperandsInvariant == Spec => []OperandsHold(sparse)
<1>1. Init => OperandsHold(sparse)
  BY DEF Init, OperandsHold, Value
<1> QED
  BY <1>1, TypeInvariant, OperandsStep, PTL DEF Spec

\* Whatever the passes take away, and in whatever order, an instruction that stays in the
\* sparse program keeps its operands, except those that use a global or a function outside it.
THEOREM OperandsKeptCorrect == Spec => []OperandsKept
<1>1. ASSUME TypeOK, SettledInv, OperandsHold(sparse)
      PROVE  OperandsKept
  <2>1. SUFFICES ASSUME Ready, NEW i \in Instr, sparse[i], NEW j \in prog.oprs[i] \intersect Instr,
                        is_candidate_sparse_instr(j), ~sparse[j]
                 PROVE  UsesNonSparseGlobal(j) \/ UsesNonSparseFunc(j)
    BY DEF OperandsKept
  <2>2. prog.op[i] # "store"
    BY <1>1, <2>1 DEF SettledInv, InstrKept, can_mark_non_sparse_instr
  <2>3. Excused(sparse, j)
    BY <1>1, <2>1, <2>2 DEF OperandsHold
  <2> QED
    BY <2>3 DEF Excused, UsesNonSparseGlobal
<1> QED
  BY <1>1, TypeInvariant, SettledInvariant, OperandsInvariant, PTL

------------------------------------------------------------------------------
(* Blocks *)

LEMMA WalkStays ==
  ASSUME NEW s, NEW B, Holds(B, s)
  PROVE  Walk(s) \subseteq B
<1>1. Cardinality(Block) \in Nat
  BY BlockAssumption, FS_CardinalityType
<1>2. PICK w : IsWalk(w, s, B)
  BY WalkRecursion
<1> QED
  BY <1>1, <1>2 DEF IsWalk

\* Fewer marks, a shorter walk.
LEMMA WalkFalls ==
  ASSUME NEW s, NEW r, NEW B, Holds(B, s), Holds(B, r),
         r.entry = s.entry, r.succ = s.succ,
         \A b \in B : r.kind[b] # "empty" => s.kind[b] # "empty"
  PROVE  Walk(r) \subseteq Walk(s)
<1>1. PICK v : IsWalk(v, s, B)
  BY WalkRecursion
<1>2. PICK w : IsWalk(w, r, B)
  BY WalkRecursion
<1>3. Cardinality(Block) \in Nat
  BY BlockAssumption, FS_CardinalityType
<1> DEFINE P == {n \in Nat : w[n] \subseteq v[n]}
<1>4. 0 \in P
  BY <1>1, <1>2 DEF IsWalk
<1>5. ASSUME NEW n \in Nat, n \in P PROVE n + 1 \in P
  <2>1. w[n] \subseteq v[n] /\ w[n] \subseteq B /\ w[n + 1] = Further(r, w[n])
        /\ v[n + 1] = Further(s, v[n])
    BY <1>1, <1>2, <1>5 DEF IsWalk
  <2>2. ASSUME NEW c \in Further(r, w[n]) PROVE c \in Further(s, v[n])
    <3>1. CASE c \in w[n]
      BY <2>1, <3>1 DEF Further
    <3>2. CASE c \notin w[n]
      <4>1. PICK b \in w[n] : c \in r.succ[b] /\ r.kind[c] # "empty"
        BY <2>2, <3>2 DEF Further
      <4>2. b \in v[n] /\ c \in s.succ[b] /\ c \in B
        BY <2>1, <4>1 DEF Holds
      <4>3. s.kind[c] # "empty"
        BY <4>1, <4>2
      <4> QED
        BY <4>2, <4>3 DEF Further
    <3> QED
      BY <3>1, <3>2
  <2> QED
    BY <2>1, <2>2
<1> HIDE DEF P
<1>6. Nat \subseteq P
  BY <1>4, <1>5, SetInduction
<1> QED
  BY <1>1, <1>2, <1>3, <1>6 DEF P, IsWalk

\* Blocks without sparse instructions end the walk.
LEMMA WalkMarked ==
  ASSUME NEW s, NEW B, Holds(B, s), NEW b \in Walk(s)
  PROVE  b = s.entry \/ s.kind[b] # "empty"
<1>1. PICK w : IsWalk(w, s, B)
  BY WalkRecursion
<1>2. Cardinality(Block) \in Nat
  BY BlockAssumption, FS_CardinalityType
<1> DEFINE P == {n \in Nat : \A c \in w[n] : c = s.entry \/ s.kind[c] # "empty"}
<1>3. 0 \in P
  BY <1>1 DEF IsWalk
<1>4. ASSUME NEW n \in Nat, n \in P PROVE n + 1 \in P
  BY <1>1, <1>4 DEF IsWalk, Further
<1> HIDE DEF P
<1>5. Nat \subseteq P
  BY <1>3, <1>4, SetInduction
<1> QED
  BY <1>1, <1>2, <1>5 DEF P, IsWalk

LEMMA ReachedInFunc ==
  ASSUME TypeOK, NEW f \in Func
  PROVE  Reached(f) \subseteq BlocksOf(f)
<1> DEFINE s == CurrentShape(f)
           B == BlocksOf(f)
<1>1. s.entry = prog.entry[f] /\ s.succ = prog.succ
  BY DEF CurrentShape
<1>2. Holds(B, s)
  BY <1>1 DEF Holds, BlocksOf, TypeOK, IsProgram
<1> HIDE DEF s, B
<1>3. Walk(s) \subseteq B
  BY <1>2, WalkStays
<1> QED
  BY <1>3 DEF Reached, Analysed, s, B

\* A function that uses only functions of the sparse program.
UsesClosed(f) == \A i \in InstrsOf(f) : ~UsesNonSparseFunc(i)

\* The half of MarkedBlocksReached that the engine depends on.
MarkedAreReached ==
  Ready => \A f \in Func : UsesClosed(f) => \A b \in BlocksOf(f) : bsparse[b] = TRUE => b \in Reached(f)

\* Since the last visit of the blocks no mark was taken in a function that is closed.
ReachedInv ==
  pass \in {"init_funcs", "refine_funcs", "refine_instrs", "refine_globals", "ready"}
    /\ ~inner /\ ~outer =>
      \A f \in Func : UsesClosed(f) => \A b \in BlocksOf(f) : bsparse[b] = TRUE => b \in Reached(f)

\* What f reaches depends on the marks of its own instructions.
LEMMA ReachedSame ==
  ASSUME TypeOK, NEW f \in Func, prog' = prog, \A i \in InstrsOf(f) : sparse'[i] = sparse[i]
  PROVE  Reached(f)' = Reached(f) /\ BlocksOf(f)' = BlocksOf(f) /\ InstrsOf(f)' = InstrsOf(f)
<1>1. BlocksOf(f)' = BlocksOf(f) /\ InstrsOf(f)' = InstrsOf(f)
  BY DEF BlocksOf, InstrsOf
<1>2. ASSUME NEW b \in BlocksOf(f) PROVE KindOf(b)' = KindOf(b)
  <2>1. \A i \in Instr : prog.block[i] = b => i \in InstrsOf(f)
    BY <1>2 DEF BlocksOf, InstrsOf, TypeOK, IsProgram
  <2>2. SparseInstrs(b)' = SparseInstrs(b)
    BY <2>1 DEF SparseInstrs
  <2> QED
    BY <2>2 DEF KindOf
<1>3. [b \in BlocksOf(f) |-> KindOf(b)]' = [b \in BlocksOf(f) |-> KindOf(b)]
  BY <1>1, <1>2
<1>4. CurrentShape(f)' = CurrentShape(f)
  BY <1>3 DEF CurrentShape
<1>5. Reached(f)' = Reached(f)
  BY <1>4 DEF Reached
<1> QED
  BY <1>1, <1>5

\* A function loses its mark: those that stay closed did not use it.
LEMMA ClosedKept ==
  ASSUME TypeOK, NEW h \in Func, UnmarkFunc(h), prog' = prog, NEW f \in Func, UsesClosed(f)'
  PROVE  UsesClosed(f) /\ \A i \in InstrsOf(f) : sparse'[i] = sparse[i]
<1>1. InstrsOf(f)' = InstrsOf(f) /\ InstrsOf(f) \subseteq Instr
  BY DEF InstrsOf, TypeOK, IsProgram
<1>2. \A k \in Func : fsparse'[k] = IF k = h THEN FALSE ELSE fsparse[k]
  BY UnmarkFuncType
<1>3. ASSUME NEW i \in InstrsOf(f) PROVE ~UsesNonSparseFunc(i) /\ sparse'[i] = sparse[i]
  <2>1. ~UsesNonSparseFunc(i)'
    BY <1>1, <1>3 DEF UsesClosed
  <2>2. h \notin prog.oprs[i]
    BY <1>2, <2>1 DEF UsesNonSparseFunc
  <2>3. i \in Value /\ i \notin Users(h)
    BY <1>1, <1>3, <2>2 DEF Users, Value
  <2>4. sparse'[i] = (sparse[i] /\ i \notin Users(h))
    BY <2>3 DEF UnmarkFunc
  <2>5. sparse[i] \in BOOLEAN
    BY <2>3 DEF TypeOK, Marks
  <2> QED
    BY <1>2, <2>1, <2>3, <2>4, <2>5 DEF UsesNonSparseFunc
<1> QED
  BY <1>3 DEF UsesClosed

LEMMA ReachedStep ==
  ASSUME TypeOK, ReachedInv, [Next]_vars
  PROVE  ReachedInv'
<1> DEFINE After == {"init_funcs", "refine_funcs", "refine_instrs", "refine_globals", "ready"}
<1>1. CASE init_sparse_globals_instrs \/ init_sparse_blocks \/ analyze_program_interproc
  <2>1. pass' \notin After
    BY <1>1 DEF init_sparse_globals_instrs, init_sparse_blocks, analyze_program_interproc, NextPass
  <2> QED
    BY <2>1 DEF ReachedInv
<1>2. CASE refine_sparse_blocks
  <2> DEFINE lost == {b \in Block : bsparse[b] = TRUE} \ UNION {Reached(f) : f \in Func}
  <2>1. /\ bsparse' = [b \in Block |-> IF b \in lost THEN FALSE ELSE bsparse[b]]
        /\ outer' = (lost # {})
        /\ UNCHANGED <<prog, sparse, fsparse>>
    BY <1>2 DEF refine_sparse_blocks
  <2>2. \A f \in Func : Reached(f)' = Reached(f) /\ BlocksOf(f)' = BlocksOf(f)
    BY <2>1, ReachedSame
  <2>3. ASSUME ~outer', NEW f \in Func, NEW b \in BlocksOf(f), bsparse'[b] = TRUE
        PROVE  b \in Reached(f)
    <3>1. lost = {}
      BY <2>1, <2>3
    <3>2. b \in Block /\ bsparse[b] = TRUE
      BY <2>1, <2>3, <3>1 DEF BlocksOf
    <3>3. PICK h \in Func : b \in Reached(h)
      BY <3>1, <3>2
    <3>4. b \in BlocksOf(h)
      BY <3>3, ReachedInFunc
    <3>5. h = f
      BY <2>3, <3>4 DEF BlocksOf
    <3> QED
      BY <3>3, <3>5
  <2> QED
    BY <2>2, <2>3 DEF ReachedInv
<1>3. CASE init_sparse_funcs
  <2>1. PICK h \in todo :
             \/ UnmarkFunc(h)
             \/ sparse' = sparse /\ (fsparse' = fsparse
                  \/ (fsparse[h] # FALSE /\ fsparse' = [fsparse EXCEPT ![h] = TRUE]))
    BY <1>3 DEF init_sparse_funcs
  <2>2. h \in Func /\ UNCHANGED <<prog, bsparse, inner, outer, pass>>
    BY <1>3, <2>1 DEF init_sparse_funcs, TypeOK, FuncPasses
  <2>3. ASSUME NEW f \in Func, UsesClosed(f)'
        PROVE  UsesClosed(f) /\ \A i \in InstrsOf(f) : sparse'[i] = sparse[i]
    <3>1. CASE UnmarkFunc(h)
      BY <2>2, <2>3, <3>1, ClosedKept
    <3>2. CASE sparse' = sparse /\ (fsparse' = fsparse
                 \/ (fsparse[h] # FALSE /\ fsparse' = [fsparse EXCEPT ![h] = TRUE]))
      <4>1. \A k \in Func : fsparse[k] = FALSE => fsparse'[k] = FALSE
        BY <3>2 DEF TypeOK
      <4> QED
        BY <2>2, <2>3, <3>2, <4>1 DEF UsesClosed, UsesNonSparseFunc, InstrsOf
    <3> QED
      BY <2>1, <3>1, <3>2
  <2>4. ASSUME NEW f \in Func, UsesClosed(f)'
        PROVE  UsesClosed(f) /\ Reached(f)' = Reached(f) /\ BlocksOf(f)' = BlocksOf(f)
    BY <2>2, <2>3, <2>4, ReachedSame
  <2> QED
    BY <2>2, <2>4 DEF ReachedInv
<1>4. CASE refine_sparse_funcs
  <2>1. outer' = TRUE \/ UNCHANGED <<fsparse, sparse, outer>>
    BY <1>4 DEF refine_sparse_funcs
  <2>2. UNCHANGED <<prog, bsparse, inner, pass>>
    BY <1>4 DEF refine_sparse_funcs
  <2>3. CASE outer' = TRUE
    BY <2>3 DEF ReachedInv
  <2>4. CASE UNCHANGED <<fsparse, sparse, outer>>
    <3>1. \A f \in Func : Reached(f)' = Reached(f) /\ BlocksOf(f)' = BlocksOf(f)
      BY <2>2, <2>4, ReachedSame
    <3>2. \A f \in Func : UsesClosed(f)' = UsesClosed(f)
      BY <2>2, <2>4 DEF UsesClosed, UsesNonSparseFunc, InstrsOf
    <3> QED
      BY <2>2, <2>4, <3>1, <3>2 DEF ReachedInv
  <2> QED
    BY <2>1, <2>3, <2>4
<1>5. CASE refine_func \/ refine_candidate_sparse_globals
  <2>1. inner' = TRUE \/ (sparse' = sparse /\ inner' = inner)
    BY <1>5 DEF refine_func, refine_candidate_sparse_globals, TypeOK
  <2>2. UNCHANGED <<prog, bsparse, fsparse, outer, pass>>
    BY <1>5 DEF refine_func, refine_candidate_sparse_globals
  <2>3. CASE inner' = TRUE
    BY <2>3 DEF ReachedInv
  <2>4. CASE sparse' = sparse /\ inner' = inner
    <3>1. \A f \in Func : Reached(f)' = Reached(f) /\ BlocksOf(f)' = BlocksOf(f)
      BY <2>2, <2>4, ReachedSame
    <3>2. \A f \in Func : UsesClosed(f)' = UsesClosed(f)
      BY <2>2, <2>4 DEF UsesClosed, UsesNonSparseFunc, InstrsOf
    <3> QED
      BY <2>2, <2>4, <3>1, <3>2 DEF ReachedInv
  <2> QED
    BY <2>1, <2>3, <2>4
<1>6. CASE EndOfPass \/ Done \/ UNCHANGED vars
  <2>1. UNCHANGED <<prog, sparse, bsparse, fsparse>>
    BY <1>6 DEF EndOfPass, Done, vars
  <2>2. pass' \notin After \/ inner' \/ outer' \/ (pass \in After /\ inner' = inner /\ outer' = outer)
    BY <1>6 DEF EndOfPass, NextRound, Visit, Done, vars
  <2>3. \A f \in Func : Reached(f)' = Reached(f) /\ BlocksOf(f)' = BlocksOf(f)
    BY <2>1, ReachedSame
  <2>4. \A f \in Func : UsesClosed(f)' = UsesClosed(f)
    BY <2>1 DEF UsesClosed, UsesNonSparseFunc, InstrsOf
  <2> QED
    BY <2>1, <2>2, <2>3, <2>4 DEF ReachedInv
<1> QED
  BY <1>1, <1>2, <1>3, <1>4, <1>5, <1>6 DEF Next

FlagsInv == Ready => ~inner /\ ~outer

LEMMA FlagsStep ==
  ASSUME FlagsInv, [Next]_vars
  PROVE  FlagsInv'
<1>1. CASE EndOfPass
  BY <1>1 DEF EndOfPass, NextRound, Visit, FlagsInv, Ready
<1>2. CASE ~EndOfPass
  BY <1>2 DEF Next, vars, FlagsInv, Ready, init_sparse_globals_instrs, init_sparse_funcs,
     init_sparse_blocks, refine_sparse_blocks, refine_sparse_funcs, refine_func,
     refine_candidate_sparse_globals, analyze_program_interproc, NextPass, Done
<1> QED
  BY <1>1, <1>2

LEMMA ReachedInvariant == Spec => [](ReachedInv /\ FlagsInv)
<1>1. Init => ReachedInv /\ FlagsInv
  BY DEF Init, ReachedInv, FlagsInv, Ready
<1> QED
  BY <1>1, TypeInvariant, ReachedStep, FlagsStep, PTL DEF Spec

\* A block that is marked when initialize_analysis ends is one that the engine reaches, in a
\* function that uses only functions of the sparse program: record_new_func_env does not
\* wait in vain.
THEOREM MarkedAreReachedCorrect == Spec => []MarkedAreReached
<1>1. ReachedInv /\ FlagsInv => MarkedAreReached
  BY DEF ReachedInv, FlagsInv, MarkedAreReached, Ready
<1> QED
  BY <1>1, ReachedInvariant, PTL

------------------------------------------------------------------------------
(* The first entry function *)

LEMMA ReachedFalls ==
  ASSUME TypeOK, NEW f \in Func, prog' = prog, Fewer(sparse, sparse')
  PROVE  Reached(f)' \subseteq Reached(f)
<1> DEFINE s == CurrentShape(f)
           r == CurrentShape(f)'
           B == BlocksOf(f)
<1>1. /\ s.entry = prog.entry[f] /\ s.succ = prog.succ
      /\ s.kind = [b \in B |-> KindOf(b)]
      /\ r.entry = prog.entry[f] /\ r.succ = prog.succ
      /\ r.kind = [b \in B |-> KindOf(b)']
  BY DEF CurrentShape, BlocksOf
<1>2. Holds(B, s) /\ Holds(B, r)
  BY <1>1 DEF Holds, BlocksOf, TypeOK, IsProgram
<1>3. ASSUME NEW b \in B
      PROVE  /\ r.kind[b] # "empty" => s.kind[b] # "empty"
             /\ r.kind[b] = "code" => s.kind[b] = "code"
  <2>1. SparseInstrs(b)' \subseteq SparseInstrs(b)
    BY DEF SparseInstrs, Fewer, Value
  <2> DEFINE ops == {prog.op[i] : i \in SparseInstrs(b)}
             ops1 == {prog.op[i] : i \in SparseInstrs(b)'}
  <2>2. ops1 \subseteq ops
    BY <2>1
  <2>3. /\ KindOf(b) = IF ops = {} THEN "empty" ELSE IF ops = {"branch"} THEN "branch" ELSE "code"
        /\ KindOf(b)' = IF ops1 = {} THEN "empty" ELSE IF ops1 = {"branch"} THEN "branch" ELSE "code"
    BY DEF KindOf
  <2> HIDE DEF ops, ops1
  <2>4. KindOf(b)' # "empty" => KindOf(b) # "empty"
    BY <2>2, <2>3
  <2>5. KindOf(b)' = "code" => KindOf(b) = "code"
    BY <2>2, <2>3
  <2> QED
    BY <1>1, <2>4, <2>5
<1>4. Reached(f) = Analysed(s) /\ Reached(f)' = Analysed(r)
  BY DEF Reached
<1> HIDE DEF s, r, B
<1>5. r.entry = s.entry /\ r.succ = s.succ
  BY <1>1
<1>6. Walk(r) \subseteq Walk(s)
  BY <1>2, <1>3, <1>5, WalkFalls
<1>7. Walk(r) \subseteq B
  BY <1>2, WalkStays
<1>8. Analysed(r) \subseteq Analysed(s)
  BY <1>3, <1>5, <1>6, <1>7 DEF Analysed
<1> QED
  BY <1>4, <1>8

\* A branch that no pass takes the mark of.
Stays(t) == prog.op[t] = "branch" /\ prog.oprs[t] \intersect (Global \union Func) = {}

BranchesMarked(m) == \A t \in Instr : Stays(t) => m[t]

BranchInv == pass # "values" => BranchesMarked(sparse)

LEMMA BranchStep ==
  ASSUME TypeOK, BranchInv, [Next]_vars
  PROVE  BranchInv'
<1>1. CASE init_sparse_globals_instrs
  <2>1. ASSUME NEW t \in Instr PROVE sparse'[t] = is_candidate_sparse_instr(t)
    BY <1>1, SparseAssumption DEF init_sparse_globals_instrs, Value
  <2>2. prog' = prog
    BY <1>1 DEF init_sparse_globals_instrs
  <2> QED
    BY <2>1, <2>2 DEF BranchInv, BranchesMarked, Stays, is_candidate_sparse_instr
<1>2. CASE refine_func
  <2>1. PICK f \in todo : sparse' = VisitInstrs(f, sparse)
    BY <1>2 DEF refine_func
  <2>2. f \in Func /\ prog' = prog /\ pass = "refine_instrs"
    BY <1>2, <2>1 DEF refine_func, TypeOK, FuncPasses
  <2> DEFINE P == {h \in Marks : BranchesMarked(h)}
  <2>3. sparse \in P /\ P \subseteq Marks
    BY <2>2 DEF TypeOK, BranchInv
  <2>4. ASSUME NEW h \in P, NEW i \in InstrsOf(f) PROVE VisitInstr(h, i) \in P
    <3>1. h \in Marks /\ BranchesMarked(h)
      BY <2>4
    <3>2. ASSUME NEW t \in Instr, Stays(t) PROVE VisitInstr(h, i)[t]
      <4>1. h[t] /\ t \in Value
        BY <3>1, <3>2 DEF BranchesMarked, Value
      <4>2. CASE VisitInstr(h, i) = h
        BY <4>1, <4>2
      <4>3. CASE VisitInstr(h, i) # h
        <5>1. can_mark_non_sparse_instr(h, i) /\ VisitInstr(h, i) = [h EXCEPT ![i] = FALSE]
          BY <4>3 DEF VisitInstr
        <5>2. prog.op[i] # "branch"
          BY <5>1 DEF can_mark_non_sparse_instr
        <5>3. t # i
          BY <3>2, <5>2 DEF Stays
        <5> QED
          BY <3>1, <4>1, <5>1, <5>3 DEF Marks
      <4> QED
        BY <4>2, <4>3
    <3> QED
      BY <3>1, <3>2, VisitInstrType DEF BranchesMarked
  <2> HIDE DEF P
  <2>5. sparse' \in P
    BY <2>1, <2>2, <2>3, <2>4, VisitKeeps
  <2>6. BranchesMarked(sparse')
    BY <2>5 DEF P
  <2> QED
    BY <2>2, <2>6 DEF BranchInv, BranchesMarked, Stays
<1>3. CASE init_sparse_funcs \/ refine_sparse_funcs
  <2>1. PICK f \in todo : UnmarkFunc(f) \/ sparse' = sparse
    BY <1>3 DEF init_sparse_funcs, refine_sparse_funcs
  <2>2. f \in Func /\ prog' = prog /\ pass # "values"
    BY <1>3, <2>1 DEF init_sparse_funcs, refine_sparse_funcs, TypeOK, FuncPasses
  <2>3. CASE UnmarkFunc(f)
    <3>1. ASSUME NEW t \in Instr, Stays(t) PROVE sparse'[t]
      <4>1. sparse[t] /\ t \in Value /\ t \notin Users(f)
        BY <2>2, <3>1 DEF BranchInv, BranchesMarked, Value, Users, Stays
      <4> QED
        BY <2>3, <4>1 DEF UnmarkFunc
    <3> QED
      BY <2>2, <3>1 DEF BranchInv, BranchesMarked, Stays
  <2>4. CASE sparse' = sparse
    BY <2>2, <2>4 DEF BranchInv, BranchesMarked, Stays
  <2> QED
    BY <2>1, <2>3, <2>4
<1>4. CASE refine_candidate_sparse_globals
  <2>1. PICK g \in todo : sparse' = UnmarkGlobal(g) \/ sparse' = sparse
    BY <1>4 DEF refine_candidate_sparse_globals
  <2>2. g \in Global /\ prog' = prog /\ pass # "values"
    BY <1>4, <2>1 DEF refine_candidate_sparse_globals, TypeOK
  <2>3. CASE sparse' = UnmarkGlobal(g)
    <3>1. ASSUME NEW t \in Instr, Stays(t) PROVE sparse'[t]
      <4>1. sparse[t] /\ t \in Value /\ t \notin Users(g) /\ t # g
        BY <2>2, <3>1, SparseAssumption DEF BranchInv, BranchesMarked, Value, Users, Stays
      <4> QED
        BY <2>3, <4>1 DEF UnmarkGlobal
    <3> QED
      BY <2>2, <3>1 DEF BranchInv, BranchesMarked, Stays
  <2>4. CASE sparse' = sparse
    BY <2>2, <2>4 DEF BranchInv, BranchesMarked, Stays
  <2> QED
    BY <2>1, <2>3, <2>4
<1>5. CASE init_sparse_blocks \/ refine_sparse_blocks \/ EndOfPass \/ analyze_program_interproc
           \/ Done \/ UNCHANGED vars
  <2>1. UNCHANGED <<prog, sparse>> /\ (pass' = "values" \/ pass # "values")
    BY <1>5 DEF init_sparse_blocks, refine_sparse_blocks, EndOfPass, analyze_program_interproc,
       Done, vars
  <2> QED
    BY <2>1 DEF BranchInv, BranchesMarked, Stays
<1> QED
  BY <1>1, <1>2, <1>3, <1>4, <1>5 DEF Next

\* A block that is reached is one that init_sparse_blocks marks.
LEMMA ReachedIsSparse ==
  ASSUME TypeOK, BranchesMarked(sparse), NEW f \in Func, NEW b \in Reached(f)
  PROVE  IsSparseBlock(b)
<1>1. b \in BlocksOf(f) /\ b \in Block /\ prog.func[b] = f
  BY ReachedInFunc DEF BlocksOf
<1>2. CASE b = prog.entry[f]
  BY <1>1, <1>2 DEF IsSparseBlock
<1>3. CASE b # prog.entry[f]
  <2> DEFINE s == CurrentShape(f)
  <2>1. s.entry = prog.entry[f] /\ s.succ = prog.succ /\ s.kind = [c \in BlocksOf(f) |-> KindOf(c)]
    BY DEF CurrentShape
  <2>2. b \in Walk(s) /\ (KindOf(b) = "code" \/ prog.succ[b] = {})
    BY <1>1, <1>3, <2>1 DEF Reached, Analysed
  <2>3. KindOf(b) # "empty"
    <3>1. Holds(BlocksOf(f), s)
      BY <2>1 DEF Holds, BlocksOf, TypeOK, IsProgram
    <3> HIDE DEF s
    <3>2. b = s.entry \/ s.kind[b] # "empty"
      BY <2>2, <3>1, WalkMarked
    <3> QED
      BY <1>1, <1>3, <2>1, <3>2
  <2>4. SparseInstrs(b) # {}
    BY <2>3 DEF KindOf
  <2>5. ASSUME Cardinality(prog.succ[b]) = 1 PROVE Cardinality(SparseInstrs(b)) # 1
    <3>1. KindOf(b) = "code"
      BY <2>2, <2>5, FS_EmptySet
    <3>2. PICK i \in Instr : prog.block[i] = b /\ Stays(i)
      BY <1>1, <2>5 DEF TypeOK, IsProgram, Stays
    <3>3. i \in SparseInstrs(b) /\ prog.op[i] = "branch"
      BY <3>2 DEF SparseInstrs, BranchesMarked, Stays
    <3>4. PICK j \in SparseInstrs(b) : prog.op[j] # "branch"
      BY <3>1, <3>3 DEF KindOf
    <3>5. IsFiniteSet(SparseInstrs(b))
      BY SparseAssumption, FS_Subset DEF SparseInstrs
    <3> QED
      BY <3>3, <3>4, <3>5, FS_Singleton
  <2> QED
    BY <2>4, <2>5 DEF IsSparseBlock
<1> QED
  BY <1>2, <1>3

\* While the program is prepared for the first entry function, a block that lost its mark is
\* not reached.
FirstInv ==
  entries = Entries =>
    /\ pass = "values" => \A b \in Block : bsparse[b] # FALSE
    /\ \A b \in Block : bsparse[b] = FALSE => b \notin Reached(prog.func[b])

CountInv == entries \in Int /\ entries <= Entries

\* Every block is marked or not.
DecidedInv ==
  pass \in {"refine_blocks", "init_funcs", "refine_funcs", "refine_instrs", "refine_globals", "ready"} =>
    \A b \in Block : bsparse[b] \in BOOLEAN

LEMMA CountStep ==
  ASSUME CountInv, [Next]_vars
  PROVE  CountInv'
<1>1. entries' = entries \/ entries' = entries - 1
  BY DEF Next, vars, init_sparse_globals_instrs, init_sparse_funcs, init_sparse_blocks,
     refine_sparse_blocks, refine_sparse_funcs, refine_func, refine_candidate_sparse_globals,
     EndOfPass, analyze_program_interproc, Done
<1> QED
  BY <1>1, SparseAssumption DEF CountInv

LEMMA DecidedStep ==
  ASSUME TypeOK, DecidedInv, [Next]_vars
  PROVE  DecidedInv'
<1>1. CASE init_sparse_blocks
  <2>1. \A b \in Block : bsparse'[b] = (bsparse[b] # FALSE /\ IsSparseBlock(b))
    BY <1>1 DEF init_sparse_blocks, MarkBlocks
  <2> QED
    BY <2>1 DEF DecidedInv
<1>2. CASE refine_sparse_blocks
  BY <1>2 DEF refine_sparse_blocks, DecidedInv
<1>3. CASE ~init_sparse_blocks /\ ~refine_sparse_blocks
  <2>1. bsparse' = bsparse
    BY <1>3 DEF Next, vars, init_sparse_globals_instrs, init_sparse_funcs,
       refine_sparse_funcs, refine_func, refine_candidate_sparse_globals,
       EndOfPass, analyze_program_interproc, Done
  <2>2. pass' \notin {"refine_blocks", "init_funcs", "refine_funcs", "refine_instrs", "refine_globals", "ready"}
        \/ pass \in {"refine_blocks", "init_funcs", "refine_funcs", "refine_instrs", "refine_globals", "ready"}
    BY <1>3 DEF Next, vars, init_sparse_globals_instrs, init_sparse_funcs,
       refine_sparse_funcs, refine_func, refine_candidate_sparse_globals,
       EndOfPass, NextRound, Visit, analyze_program_interproc, NextPass, Done
  <2> QED
    BY <2>1, <2>2 DEF DecidedInv
<1> QED
  BY <1>1, <1>2, <1>3

LEMMA FirstStep ==
  ASSUME TypeOK, BranchInv, CountInv, FirstInv, [Next]_vars
  PROVE  FirstInv'
<1>1. \A b \in Block : prog.func[b] \in Func
  BY DEF TypeOK, IsProgram
<1>2. prog' = prog
  BY DEF Next, vars, init_sparse_globals_instrs, init_sparse_funcs, init_sparse_blocks,
     refine_sparse_blocks, refine_sparse_funcs, refine_func, refine_candidate_sparse_globals,
     EndOfPass, analyze_program_interproc, Done
<1>3. CASE analyze_program_interproc
  <2>1. entries' # Entries
    BY <1>3, SparseAssumption DEF analyze_program_interproc, CountInv
  <2> QED
    BY <2>1 DEF FirstInv
<1>4. CASE init_sparse_globals_instrs
  <2>1. bsparse' = bsparse /\ entries' = entries /\ pass = "values" /\ pass' # "values"
    BY <1>4 DEF init_sparse_globals_instrs
  <2> QED
    BY <2>1 DEF FirstInv
<1>5. CASE UNCHANGED vars
  <2>1. \A f \in Func : Reached(f)' = Reached(f)
    BY <1>5, ReachedSame DEF vars
  <2> QED
    BY <1>1, <1>5, <2>1 DEF FirstInv, vars
<1>6. CASE Next /\ ~analyze_program_interproc /\ ~init_sparse_globals_instrs
  <2>1. pass # "values" /\ pass' # "values" /\ entries' = entries
    BY <1>6 DEF Next, vars, init_sparse_funcs, init_sparse_blocks, refine_sparse_blocks,
       refine_sparse_funcs, refine_func, refine_candidate_sparse_globals, EndOfPass, NextRound,
       Visit, Done
  <2>2. Fewer(sparse, sparse')
    BY <1>6, <2>1, StepTakesMarks DEF TakesMarks, Fewer
  <2>3. \A f \in Func : Reached(f)' \subseteq Reached(f)
    BY <1>2, <2>2, ReachedFalls
  <2>4. SUFFICES ASSUME entries = Entries, NEW b \in Block, bsparse'[b] = FALSE, bsparse[b] # FALSE
                 PROVE  b \notin Reached(prog.func[b])
    BY <1>1, <1>2, <2>1, <2>3 DEF FirstInv
  <2>5. CASE init_sparse_blocks
    <3>1. ~IsSparseBlock(b)
      BY <2>4, <2>5 DEF init_sparse_blocks, MarkBlocks
    <3>2. BranchesMarked(sparse)
      BY <2>1 DEF BranchInv
    <3> QED
      BY <1>1, <3>1, <3>2, ReachedIsSparse
  <2>6. CASE refine_sparse_blocks
    <3>1. b \notin UNION {Reached(f) : f \in Func}
      BY <2>4, <2>6 DEF refine_sparse_blocks
    <3> QED
      BY <1>1, <3>1
  <2>7. CASE ~init_sparse_blocks /\ ~refine_sparse_blocks
    <3>1. bsparse' = bsparse
      BY <1>6, <2>7 DEF Next, vars, init_sparse_funcs, refine_sparse_funcs, refine_func,
         refine_candidate_sparse_globals, EndOfPass, Done
    <3> QED
      BY <2>4, <3>1
  <2> QED
    BY <2>5, <2>6, <2>7
<1> QED
  BY <1>3, <1>4, <1>5, <1>6

LEMMA FirstInvariant == Spec => [](BranchInv /\ CountInv /\ DecidedInv /\ FirstInv)
<1>1. ASSUME Init PROVE BranchInv /\ CountInv /\ DecidedInv /\ FirstInv
  <2>1. bsparse = [b \in Block |-> None] /\ None # FALSE
    BY <1>1, SparseAssumption DEF Init
  <2>2. \A b \in Block : bsparse[b] # FALSE
    BY <2>1
  <2>3. BranchInv /\ DecidedInv
    BY <1>1 DEF Init, BranchInv, DecidedInv
  <2>4. CountInv
    BY <1>1, SparseAssumption DEF Init, CountInv
  <2>5. FirstInv
    BY <2>2 DEF FirstInv
  <2> QED
    BY <2>3, <2>4, <2>5
<1> QED
  BY <1>1, TypeInvariant, BranchStep, CountStep, DecidedStep, FirstStep, PTL DEF Spec

\* While the first entry function is prepared, the blocks that are marked in the end are
\* exactly those that the engine reaches, in a function that uses only functions of the
\* sparse program.
THEOREM MarkedBlocksReachedFirst == Spec => [](entries = Entries => MarkedBlocksReached)
<1>1. ASSUME TypeOK, MarkedAreReached, DecidedInv, FirstInv, entries = Entries
      PROVE  MarkedBlocksReached
  <2>1. SUFFICES ASSUME Ready, NEW f \in Func, UsesClosed(f), NEW b \in BlocksOf(f)
                 PROVE  bsparse[b] = TRUE <=> b \in Reached(f)
    BY DEF MarkedBlocksReached, UsesClosed
  <2>2. bsparse[b] = TRUE => b \in Reached(f)
    BY <1>1, <2>1 DEF MarkedAreReached
  <2>3. b \in Block /\ prog.func[b] = f
    BY DEF BlocksOf
  <2>4. bsparse[b] \in BOOLEAN
    BY <1>1, <2>1, <2>3 DEF DecidedInv, Ready
  <2>5. bsparse[b] = FALSE => b \notin Reached(f)
    BY <1>1, <2>3 DEF FirstInv
  <2> QED
    BY <2>2, <2>4, <2>5
<1> QED
  BY <1>1, TypeInvariant, MarkedAreReachedCorrect, FirstInvariant, PTL
==============================================================================
