SPECIFICATION Spec
CONSTANTS
  Loops = {l1, l2}
  NoLoop = NoLoop
  MinDelta = 1
  LighterMin = 2
  Wait = 1
  Initial = 1
  MaxCooldown = 2
  ReadTime = 1
  Lag = 0
  MaxErrors = 1
  Positions = {0, 2}
  MaxLighter = 3
  MaxTrades = 1
  MaxMisreads = 1
  MaxStarts = 3
INVARIANTS
  OneOrder
  NoDoubleFire
  NeverOvershoots
PROPERTIES
  StopEnds
  DeafServiceStops
  Converges
