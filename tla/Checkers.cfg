\* Options for analyses, bugs and assertions in every order.
SPECIFICATION Spec
CONSTANTS
  i1 = i1
  e1 = e1
  e2 = e2
  None = None
  Instr = {i1}
  Program <- MCPrograms
  MaxInt = 7
  MaxVal = 1
  Length = 1
  Option = {"--dfa-range", "--dfa-memsize", "--dfa-memtype", "--dfa-pointer", "--dfa-pointer-conservative", "--dfa-all-analysis", "--assert-pointer", "--assert-all", "--bug-integer-all", "--bug-buffer-overflow", "--bug-all"}
  MaxOptions = 3
INVARIANTS
  OverflowsReported
  RegionTrue
  ValidVerdictsTrue
