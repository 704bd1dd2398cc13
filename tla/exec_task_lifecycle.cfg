SPECIFICATION Spec
CONSTANTS
  t1 = t1
  j1 = j1
  j2 = j2
  d1 = d1
  d2 = d2
  c1 = c1
  c2 = c2
  None = None
  Targets = {t1}
  Jobs = {j1}
  MaxSpecs = 2
  Batches <- MCBatches
  BatchId <- OwnBatchId
  Dispatchers = {d1}
  Consumers = {c1}
  Faults = {}
  CrawlerRepeats = FALSE
PROPERTIES
  TaskLifecycle
CHECK_DEADLOCK FALSE
