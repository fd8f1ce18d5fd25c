SPECIFICATION Spec
CONSTANTS
  Topics = {raw, screened}
  Publishers = {p1, p2}
  Consumers = {c1, c2}
  Closers = {k1, k2}
  None = None
  BufferSize = 1
  MaxPublish = 2
SYMMETRY Symmetry
INVARIANTS
  TypeOK
  NoPanic
  LosslessUntilOverflow
  FailedMeansUndelivered
PROPERTIES
  Sealed
  ImplementsBus
CHECK_DEADLOCK FALSE
