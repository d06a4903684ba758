SPECIFICATION Spec
CONSTANTS
  Target = 2
  MinQty = 1
  MaxTurns = 2
  MinFill = 1
  LighterMin = 2
  MaxFailures = 2
INVARIANT AbortedMeansFlat
CHECK_DEADLOCK FALSE
