SPECIFICATION MCSpec
CONSTANTS
  Requests = {r1, r2}
  Purges = {g1}
  Readers = {x1}
  Users <- MCUsers
  Kinds <- MCKinds
  Tracking <- MCTracking
  Workflows <- MCWorkflows
  Ids <- MCIds
  Inputs <- MCInputs
  QueueSize = 1
  Stores = {"memory", "postgres"}
  None = None
  u1 = u1
  u2 = u2
  e1 = e1
  e2 = e2
  e3 = e3
SYMMETRY Symmetry
INVARIANTS
  TypeOK
  ReceivedConserved
  CRMConserved
  RefusedLeavesNoTrace
  ContactsHaveEvents
  FraudNeverMarketed
  PurgeErasesRecords
  ExportComplete
  PurgedNotExported
  BacklogIsReal
CHECK_DEADLOCK FALSE
