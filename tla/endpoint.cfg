SPECIFICATION Spec
CONSTANTS
  q1 = q1
  q2 = q2
  noWorker = noWorker
  Queries <- MCQueries
  Requests = {"GET", "HEAD", "POST", "description", "page"}
  PoolSize = 1
  MaxCrashes = 1
  MaxWorkers <- MCMaxWorkers
  NoWorker = noWorker
SYMMETRY MCSymmetry
INVARIANTS
  TypeOK
  TimersCoverQueries
  CompletedQueriesAreReported
PROPERTY NoForkAfterDisconnect
CHECK_DEADLOCK FALSE
