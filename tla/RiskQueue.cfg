SPECIFICATION Spec
CONSTANTS
  r1 = r1
  r2 = r2
  r3 = r3
  btc = btc
  eth = eth
  Requests = {r1, r2}
  Admins = {a1}
  NoTask = NoTask
  Symbols = {btc, eth}
  Batch <- MCMakers
  Mids <- MCMids
  Limit = 2
  ExposureCap = 4
  MaxRate = 1
  FailureThreshold = 2
  Cooldown = 1
  BootDryRun = FALSE
PROPERTY QueueDiscarded
