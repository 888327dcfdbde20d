\* Every mix of calls in three functions.
SPECIFICATION FairSpec
CONSTANTS
  f = f
  g = g
  h = h
  lib = lib
  x = x
  y = y
  z = z
  s = s
  t = t
  None = None
  Func <- MCFunc
  Lib = {lib}
  Global <- MCGlobal
  Sig = {s, t}
  InFuncPtrs = TRUE
  Programs <- MCPrograms
INVARIANTS
  GlobalsOfCallees
  ReachableExact
PROPERTY
  Terminates
