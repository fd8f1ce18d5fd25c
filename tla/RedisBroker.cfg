SPECIFICATION FairSpec
CONSTANTS
  Publishers = {p1}
  Consumers = {c1}
  None = None
  ChanSize = 1
  BufferSize = 1
  MaxRetries = 1
  MaxPublish = 2
INVARIANTS
  TypeOK
  ForwardsEverything
  EndMeansAll
  NilMeansSent
PROPERTIES
  ClosedIsSilent
  NoForwarderLeak
  Drained
CHECK_DEADLOCK FALSE
