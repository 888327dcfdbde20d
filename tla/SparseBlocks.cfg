\* All graphs over an entry block and three blocks, one of them with code.
SPECIFICATION FairSearchSpec
CONSTANTS
  e = e
  b1 = b1
  b2 = b2
  b3 = b3
  Block <- MCBlock
  Shapes <- MCShapes
INVARIANTS
  Exact
  SearchReachesAnalysed
  Mirrored
PROPERTY
  Terminates
