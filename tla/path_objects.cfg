SPECIFICATION FairSpec
CONSTANTS
  s = s
  a = a
  b = b
  c = c
  start = start
  Terms <- MCTerms
  Next <- MCNext
  Subject = s
  Start = start
  MaxRunningOperations = 2
  MaxBufferSize = 2
  MetadataFirst = TRUE
  MayFail = {"operation", "stream", "metadata", "cancel"}
INVARIANTS
  LimitsRespected
PROPERTIES
  ImplementsPathReachability
  EventuallyDone
CHECK_DEADLOCK FALSE
