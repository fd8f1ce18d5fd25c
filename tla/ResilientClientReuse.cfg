SPECIFICATION RunningSpec
CONSTANTS
  Callers = {c1}
  Threshold = 3
  Cooldown = 2
  MaxRetries = 2
INVARIANT TripsForACause
