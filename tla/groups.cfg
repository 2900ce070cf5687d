SPECIFICATION FairSpec
CONSTANTS
  Solutions <- MCSolutions
  Groups = {"A", "B", "all"}
  Aggregates = {"plain", "distinct"}
  Terms = {"t", "u"}
  Unbound = "unbound"
  Failed = "failed"
  undefined = undefined
  Undefined = undefined
  noSolution = noSolution
  NoSolution = noSolution
  Everything = "all"
  Distinct = {"distinct"}
  Inputs <- MCInputs
INVARIANTS
  CounterAccounts
PROPERTIES
  ImplementsAggregation
  EventuallySettled
CHECK_DEADLOCK FALSE
