SPECIFICATION Spec
CONSTANTS
  Target = 5
  MinQty = 2
  ChildQty = 3
  Slots = 2
  MaxCancels = 2
  MaxRounds = 3
  MaxChildren = 4
INVARIANTS
  OneStray
  ReportCovers
  StoppedLeavesNothing
  BudgetKept
PROPERTY
  Returns
  ParentSpec
CHECK_DEADLOCK FALSE
