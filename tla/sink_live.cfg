SPECIFICATION FairSpec
CONSTANTS
  Producers = {p1, p2}
  Closers = {c1}
  NoCloser = NoCloser
  MaxLogs = 1
  Shapes <- PlainOnly
  Replies <- OnlyTransient
  QueueSize = 1
  BatchSize = 2
  MaxRetries = 1
  MaxRecordBytes = 4
  MaxBatchBytes = 3
  BlockOnQueueFull = TRUE
PROPERTIES
  CloseReturns
  LogReturns
  WorkerStops
  AllSettled
  DeliversAsPromised
CHECK_DEADLOCK FALSE
