SPECIFICATION FairSpec
CONSTANTS
  Topics = {raw, screened}
  Publishers = {p1, p2}
  Consumers = {c1, c2}
  Closers = {k1}
  None = None
  BufferSize = 1
  MaxPublish = 1
PROPERTIES
  Drained
  PublishReturns
  WriterGetsIn
CHECK_DEADLOCK FALSE
