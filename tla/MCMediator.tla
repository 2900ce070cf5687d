----------------------------- MODULE MCMediator -----------------------------
(* Three actors over a plain bus or an indexed one, and every mediator. *)
EXTENDS Mediator

CONSTANTS actor1, actor2, actor3, id1, id2

MCActorIds == (actor1 :> <<id1>>) @@ (actor2 :> <<>>) @@ (actor3 :> <<id1, id2>>)
MCBeforeActors ==
  (actor1 :> <<>>) @@ (actor2 :> <<actor1>>) @@ (actor3 :> <<actor1, actor2>>)

Strategy(type, filter, order, limit) ==
  [type |-> type, filter |-> filter, order |-> order, limit |-> limit]

MCStrategies ==
  {Strategy("race", FALSE, "none", 0), Strategy("all", FALSE, "none", 0),
   Strategy("number", TRUE, "min", 0), Strategy("number", FALSE, "max", 0),
   Strategy("coefficients", FALSE, "none", 0), Strategy("coefficients", FALSE, "none", 1),
   Strategy("pipeline", FALSE, "increasing", 0), Strategy("pipeline", TRUE, "decreasing", 0),
   Strategy("pipeline", TRUE, "none", 0), Strategy("union", TRUE, "none", 0),
   Strategy("union", FALSE, "none", 0)}

Coefficient(iterations, persisted, blocking, time) ==
  [iterations |-> iterations, persistedItems |-> persisted,
   blockingItems |-> blocking, requestTime |-> time]

\* Cheap but blocking, and dear but streaming.
MCCoefficients == {Coefficient(2, 1, 1, 0), Coefficient(5, 0, 0, 1)}
MCWeights == [cpu |-> 1, memory |-> 1, time |-> 1, io |-> 1]

=============================================================================
