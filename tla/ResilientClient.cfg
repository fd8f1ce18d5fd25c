SPECIFICATION FairSpec
CONSTANTS
  Callers = {c1, c2}
  Threshold = 3
  Cooldown = 2
  MaxRetries = 2
INVARIANTS
  TypeOK
  StateMatchesFailures
  ShedsLoad
PROPERTIES
  ExhaustedLeavesOpen
  Recovers
