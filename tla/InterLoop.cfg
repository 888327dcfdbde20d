\* f calls g in a loop; the data that reaches the call grows.
SPECIFICATION InterSpec
CONSTANTS
  main = main
  f = f
  g = g
  m = m
  fEntry = fEntry
  fBase = fBase
  fRec = fRec
  gBody = gBody
  mOne = mOne
  fRecOne = fRecOne
  gBodyOne = gBodyOne
  x = x
  y = y
  None = None
  Block <- MCBlock
  Size <- MCSize
  Graphs <- MCBodies
  Data <- MCData
  LeastData = {}
  Leq <- MCLeq
  Join <- MCJoin
  Transfer <- MCTransfer
  Refine <- MCRefine
  Sat <- MCSat
  FuncInputs <- MCData
  Solutions <- MCNoSolutions
  Func <- MCFunc
  Main = main
  Programs <- MCLoop
  MainInput = {x}
  CalleeInput <- MCAllInput
  CallOutput <- MCCallOutput
  CleanData <- MCCleanData
  Tables <- MCTables
  MaxFuncTimes = 30
INVARIANT InterFixpoint
