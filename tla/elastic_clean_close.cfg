SPECIFICATION ElasticSpec
CONSTANTS
  Producers = {p1}
  Closers = {c1}
  NoCloser = NoCloser
  MaxLogs = 1
  Shapes <- PlainOnly
  Replies <- OnlyOk
  QueueSize = 1
  BatchSize = 1
  MaxRetries = 0
  MaxRecordBytes = 4
  MaxBatchBytes = 3
  BlockOnQueueFull = FALSE
  Outcomes <- OnlyStored
INVARIANTS
  CleanClose
