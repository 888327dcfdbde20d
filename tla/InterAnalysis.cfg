\* Three calls in main, one in f and two in g, in every combination that can return, with
\* inputs that vary and with one input.
SPECIFICATION InterFairSpec
CONSTANTS
  main = main
  f = f
  g = g
  m = m
  fEntry = fEntry
  fBase = fBase
  fRec = fRec
  gBody = gBody
  mOne = mOne
  fRecOne = fRecOne
  gBodyOne = gBodyOne
  x = x
  y = y
  None = None
  Block <- MCBlock
  Size <- MCSize
  Graphs <- MCBodies
  Data <- MCData
  LeastData = {}
  Leq <- MCLeq
  Join <- MCJoin
  Transfer <- MCTransfer
  Refine <- MCRefine
  Sat <- MCSat
  FuncInputs <- MCData
  Solutions <- MCNoSolutions
  Func <- MCFunc
  Main = main
  Programs <- MCPrograms
  MainInput = {}
  CalleeInput <- MCCalleeInput
  CallOutput <- MCCallOutput
  CleanData <- MCCleanData
  Tables <- MCTables
  MaxFuncTimes = 30
INVARIANTS
  SummariesJustified
  EveryCallResumed
PROPERTIES
  InterTerminates
