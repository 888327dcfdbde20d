\* Paths of a few instructions with two variables and a cell.
SPECIFICATION Spec
CONSTANTS
  x1 = x1
  x2 = x2
  m1 = m1
  None = None
  Var = {x1, x2}
  Cell = {m1}
  MaxInt = 3
  MaxVal = 1
  Const <- MCConst
  MaxSteps = 3
SYMMETRY Symmetry
INVARIANTS
  Sound
  OrderSound
  NoOverflowMissed
