SPECIFICATION Spec
CONSTANTS
  Target = 3
  MinQty = 2
  MaxTurns = 2
  MinFill = 1
  LighterMin = 2
  MaxFailures = 2
INVARIANTS
  ExactWhenSimple
  NothingLeftWorking
  WithinTarget
  LegsMatch
  NeverOverHedged
PROPERTIES
  KeepsLedger
  FailureCountedOnce
  RunEnds
CHECK_DEADLOCK FALSE
