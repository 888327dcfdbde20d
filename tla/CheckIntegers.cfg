\* Results that are too small and divisors that are zero.
SPECIFICATION Spec
CONSTANTS
  i1 = i1
  e1 = e1
  e2 = e2
  None = None
  Instr = {i1}
  Program <- IntegerPrograms
  MaxInt = 7
  MaxVal = 1
  Length = 1
  Option = {"--dfa-range", "--bug-all"}
  MaxOptions = 2
INVARIANTS
  IntegerBugsReported
