SPECIFICATION Spec
CONSTANTS
  t1 = t1
  j1 = j1
  j2 = j2
  d1 = d1
  d2 = d2
  c1 = c1
  c2 = c2
  None = None
  Targets = {t1}
  Jobs = {j1}
  MaxSpecs = 2
  Batches <- MCBatches
  BatchId <- SharedBatchId
  Dispatchers = {d1}
  Consumers = {c1, c2}
  Faults = {"project", "publish", "db", "crash", "invalid", "object"}
  CrawlerRepeats = FALSE
SYMMETRY ConsumerSymmetry
INVARIANTS
  JobSuccessIsComplete
  AckedAnswersSettled
  RequestsAreTraceable
PROPERTIES
  RawBatchesAreKept
  TaskCompletionIsKept
CHECK_DEADLOCK FALSE
