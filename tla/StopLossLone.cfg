SPECIFICATION Spec
CONSTANTS
  Closers = {c1}
  NoTask = none
  Openings <- LoneLong
  MaxOpenings = 1
  MaxFaults = 0
  MaxFailures = 1
INVARIANTS
  ClosesWhatItFinds
