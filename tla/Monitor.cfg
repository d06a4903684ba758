SPECIFICATION Spec
CONSTANTS
  Cooldown = 2
  Guard = 3
  SystemCooldown = 2
  Types = {"feed_stale", "poll_degraded"}
  StaleAfter = 1
  ErrorLimit = 2
INVARIANTS
  OneInFlight
PROPERTIES
  FeedLossTripsIfComplete
  DegradedTold
