SPECIFICATION Spec
CONSTANTS
  r1 = r1
  r2 = r2
  r3 = r3
  btc = btc
  eth = eth
  Requests = {r1, r2, r3}
  Admins = {a1}
  NoTask = NoTask
  Symbols = {btc, eth}
  Batch <- MCBatch
  Mids <- MCMids
  Limit = 2
  ExposureCap = 2
  MaxRate = 1
  FailureThreshold = 2
  Cooldown = 1
  BootDryRun = FALSE
INVARIANTS
  ApprovalSafe
  KillDurable
  FailuresKill
  SerialLimit
  SerialExposure
