SPECIFICATION MCSpec
CONSTANTS
  Requests = {1, 2}
  Purges = {g1}
  Users <- MCUsers
  Kinds <- MCKinds
  Tracking = {}
  Workflows <- MCWorkflows
  Ids <- MCIds
  Inputs <- MCInputs
  QueueSize = 1
  Stores = {"memory", "postgres"}
  None = None
  u1 = u1
  e1 = e1
INVARIANTS
  LifecycleTypeOK
  ServedUnlessLate
  EachEventOnce
PROPERTIES
  ShutdownEnds
  EveryEventHandled
CHECK_DEADLOCK FALSE
