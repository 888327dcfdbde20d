\* Every mix of uses of pointers in the three functions, prepared twice.
SPECIFICATION Spec
CONSTANTS
  main = main
  g = g
  f = f
  m1 = m1
  m2 = m2
  m3 = m3
  pad = pad
  g1 = g1
  g2 = g2
  g3 = g3
  f1 = f1
  x = x
  y = y
  None = None
  Entries = 2
  Func <- MCFunc
  Block <- MCBlock
  Instr <- MCInstr
  Global <- MCGlobal
  Programs <- MCPrograms
INVARIANTS
  Settled
  OperandsKept
  MarkedBlocksReached
PROPERTY
  RoundsTakeMarks
