SPECIFICATION ElasticSpec
CONSTANTS
  Producers = {p1, p2}
  Closers = {c1}
  NoCloser = NoCloser
  MaxLogs = 1
  Shapes <- PlainOnly
  Replies <- AllReplies
  QueueSize = 1
  BatchSize = 2
  MaxRetries = 1
  MaxRecordBytes = 4
  MaxBatchBytes = 3
  BlockOnQueueFull = TRUE
  Outcomes <- AllOutcomes
SYMMETRY Symmetry
INVARIANTS
  ElasticDelivers
PROPERTIES
  AnsweredNotResent
  RefusedNotResent
