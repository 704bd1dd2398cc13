SPECIFICATION FairSpec
CONSTANTS
  b1 = b1
  b2 = b2
  w1 = w1
  w2 = w2
  None = None
  Batches = {b1, b2}
  Size <- MCSize
  ChunkSize = 2
  Workers = {w1, w2}
  Faults = {"db", "answer", "object", "payload", "publish", "upload", "crash"}
INVARIANTS
  PublishedOnce
  TopicIsAccounted
  ClaimedIsHeld
PROPERTIES
  ClaimsEnd
  ImplementsBatchLifecycle
CHECK_DEADLOCK FALSE
