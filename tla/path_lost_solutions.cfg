SPECIFICATION FairSpec
CONSTANTS
  s = s
  a = a
  b = b
  c = c
  start = start
  Terms <- MCTerms
  Next <- MCNext
  Subject = s
  Start = start
  MaxRunningOperations = 2
  MaxBufferSize = 2
  MetadataFirst = FALSE
  MayFail = {"operation", "stream", "metadata", "cancel"}
INVARIANT EndsWithAllSolutions
CHECK_DEADLOCK FALSE
