SPECIFICATION FairSpec
CONSTANTS
  t1 = t1
  j1 = j1
  j2 = j2
  d1 = d1
  d2 = d2
  c1 = c1
  c2 = c2
  None = None
  Targets = {t1}
  Jobs = {j1, j2}
  MaxSpecs = 1
  Batches <- MCBatches
  BatchId <- OwnBatchId
  Dispatchers = {d1, d2}
  Consumers = {c1}
  Faults = {"publish","invalid","object"}
  CrawlerRepeats = FALSE
INVARIANTS
  OneRunningSingleSpecJob
PROPERTIES
  AnswersAreHandled
  DispatchesEnd
CHECK_DEADLOCK FALSE
