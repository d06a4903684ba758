SPECIFICATION Spec
CONSTANTS
  Loops = {l1}
  NoLoop = NoLoop
  MinDelta = 1
  LighterMin = 1
  Wait = 3
  Initial = 2
  MaxCooldown = 4
  ReadTime = 5
  Lag = 1
  MaxErrors = 1
  Positions = {0, 2}
  MaxLighter = 3
  MaxTrades = 1
  MaxMisreads = 0
  MaxStarts = 1
INVARIANT NeverOnStaleData
