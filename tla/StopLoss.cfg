SPECIFICATION Spec
CONSTANTS
  Closers = {c1, c2}
  NoTask = none
  Openings <- UnequalHedge
  MaxOpenings = 1
  MaxFaults = 1
  MaxFailures = 1
INVARIANTS
  Watched
  NoStrayTask
  SuccessMeansFlat
  ClosesHedge
PROPERTIES
  StopEnds
  BreachNoticed
