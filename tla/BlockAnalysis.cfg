\* All graphs over an entry block and three blocks, at most two successors each.
SPECIFICATION FairSpec
CONSTANTS
  e = e
  b1 = b1
  b2 = b2
  b3 = b3
  f = f
  g = g
  None = None
  Block <- MCBlock
  Size <- MCSize
  Graphs <- MCGraphs
  Data <- MCData
  LeastData = {}
  Leq <- MCLeq
  Join <- MCJoin
  Transfer <- MCTransfer
  Refine <- MCRefine
  Sat <- MCSat
  FuncInputs <- MCInputs
  Solutions <- MCSolutions
INVARIANTS
  Justified
  SinglePredFresh
  NoLossWithoutJoin
  Complete
PROPERTIES
  Terminates
