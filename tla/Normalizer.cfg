SPECIFICATION Spec
CONSTANTS
  MainLike = {"main"}
  AssertPrefixed = {"__assert_w"}
  TestingNamed = {"__assert_w"}
  NewNames <- FreshNames
  MaxWalk = 4
  Inputs <- AllInputs
  Options <- AllOptions
  CommandLines = {"default", "checked", "keepfuncs", "manual", "unreadable", "print", "verify", "identical"}
INVARIANTS
  InitialisationKept
  NothingDangling
  CallsKept
  BehaviourKept
  StaysValid
  CrashExplained
PROPERTY
  Terminates
