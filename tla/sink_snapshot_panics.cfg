SPECIFICATION FairSpec
CONSTANTS
  Producers = {p1, p2}
  Closers = {c1}
  NoCloser = NoCloser
  MaxLogs = 1
  Shapes <- SomePanic
  Replies <- OnlyTransient
  QueueSize = 1
  BatchSize = 1
  MaxRetries = 0
  MaxRecordBytes = 4
  MaxBatchBytes = 3
  BlockOnQueueFull = FALSE
PROPERTIES
  LogReturns
CHECK_DEADLOCK FALSE
