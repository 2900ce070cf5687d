SPECIFICATION FairSpec
CONSTANTS
  page1 = page1
  page2 = page2
  page3 = page3
  Links <- MCLinks
  FirstLink = page1
  NextLinks <- MCNextLinks
  Bindings <- MCBindings
  BindingsOf <- MCBindingsOf
  MaxIterators = 2
  MaxBufferSize = 3
  MaxScheduled = 1
  MayFail = {"first", "create", "refetch", "query", "stream", "accumulate", "linkQueue", "preflight", "cancel"}
INVARIANTS
  SlotsAccounted
  MaxIteratorsRespected
  ClosesOnlyWhenFinished
PROPERTIES
  FetchedOnce
  ImplementsLinkTraversal
  EventuallyDone
CHECK_DEADLOCK FALSE
