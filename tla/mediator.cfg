SPECIFICATION Spec
CONSTANTS
  actor1 = actor1
  actor2 = actor2
  actor3 = actor3
  id1 = id1
  id2 = id2
  Actor = {actor1, actor2, actor3}
  Identifier = {id1, id2}
  ActorIds <- MCActorIds
  BeforeActors <- MCBeforeActors
  Undefined = Undefined
  MaxOperations = 5
  MaxWiring = 3
  Strategies <- MCStrategies
  Values = {0, 1}
  Coefficients <- MCCoefficients
  Weights <- MCWeights
INVARIANTS ChoiceIsBest OwnSideData
PROPERTIES DependentsFirst ActorsStayUnlessCyclic ImplementsMediation EveryRequestIsSettled
CHECK_DEADLOCK FALSE
