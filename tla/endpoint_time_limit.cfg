SPECIFICATION FairSpec
CONSTANTS
  q1 = q1
  q2 = q2
  noWorker = noWorker
  Queries <- MCQueries
  Requests = {"POST", "description"}
  PoolSize = 1
  MaxCrashes = 0
  MaxWorkers <- MCMaxWorkers
  NoWorker = noWorker
PROPERTIES
  EveryQueryIsBounded
  ServiceRestored
  CleanTermination
CHECK_DEADLOCK FALSE
