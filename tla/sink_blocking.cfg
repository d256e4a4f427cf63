SPECIFICATION StalledWorkerSpec
CONSTANTS
  Producers = {p1, p2}
  Closers = {c1, c2}
  NoCloser = NoCloser
  MaxLogs = 1
  Shapes <- PlainOnly
  Replies <- OnlyTransient
  QueueSize = 1
  BatchSize = 2
  MaxRetries = 0
  MaxRecordBytes = 4
  MaxBatchBytes = 3
  BlockOnQueueFull = TRUE
INVARIANTS
  NoDeadlock
PROPERTIES
  IntakeStaysOver
  CloseHonoursContext
CHECK_DEADLOCK FALSE
