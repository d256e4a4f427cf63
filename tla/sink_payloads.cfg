SPECIFICATION Spec
CONSTANTS
  Producers = {p1, p2}
  Closers = {c1, c2}
  NoCloser = NoCloser
  MaxLogs = 1
  Shapes <- AllShapes
  Replies <- AllReplies
  QueueSize = 1
  BatchSize = 2
  MaxRetries = 1
  MaxRecordBytes = 4
  MaxBatchBytes = 3
  BlockOnQueueFull = FALSE
SYMMETRY Symmetry
INVARIANTS
  TypeOK
  Fifo
  Accounted
  Drained
  SentIsAcked
  ClosingContextKnown
  RequestsBounded
PROPERTIES
  FailureExplained
CHECK_DEADLOCK FALSE
