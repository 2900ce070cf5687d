-------------------------------- MODULE Bus --------------------------------
(***************************************************************************)
(* The publish-subscribe bus of packages/core/lib/Bus.ts and its indexed   *)
(* variant BusIndexed.ts: the actors in the order in which they are asked, *)
(* the dependencies that constrain that order, and the index by which an   *)
(* indexed bus finds the actors of one kind of action.                     *)
(***************************************************************************)
EXTENDS Naturals, SequencesExt

CONSTANTS
  Actor,           \* the actors
  Identifier,      \* the identifiers an indexed bus knows actors by
  ActorIds,        \* the identifiers of an actor, <<>> if it has none
  BeforeActors,    \* the beforeActors argument of an actor's constructor
  MaxOperations    \* bound on the number of operations on the bus

AnyId == "_undefined_"

ASSUME BusAssumption ==
  /\ AnyId \notin Identifier
  /\ ActorIds \in [Actor -> Seq(Identifier)]
  /\ BeforeActors \in [Actor -> Seq(Actor)]
  /\ MaxOperations \in Nat

VARIABLES
  indexed,           \* whether it is a BusIndexed
  actors,            \* the actors, in the order in which they are asked
  dependencyLinks,   \* from an actor to those that go before it, by insertion
  actorsIndex,       \* the actors of an identifier, in order of subscription
  constructed,       \* the actors whose constructor ran
  broken,            \* an operation threw on a cyclic dependency
  operations         \* number of operations so far

busVars ==
  <<indexed, actors, dependencyLinks, actorsIndex, constructed, broken, operations>>

Occurrences(s, a) == Cardinality({i \in DOMAIN s : s[i] = a})

-----------------------------------------------------------------------------
(* The order of the bus. *)

BeforeOf(links, a) ==
  UNION {ToSet(links[i].before) : i \in {j \in DOMAIN links : links[j].after = a}}

\* An actor may be put back once none of those before it is still to come.
MayFollowAlways(order, links, a) == TRUE
MayFollowPresent(order, links, a) ==
  \A d \in BeforeOf(links, a) : Contains(order.actors, d)
MayFollow(order, links, a) ==
  \A d \in BeforeOf(links, a) :
    Contains(order.actors, d) \/ ~Contains(order.pending, d)

\* Puts back the first pending actor that may follow; if none may, it throws
\* and the pending actors are gone.
AppendNext(order, links) ==
  LET i == SelectInSeq(order.pending, LAMBDA a : MayFollow(order, links, a))
  IN IF i = 0
     THEN [order EXCEPT !.thrown = TRUE]
     ELSE [order EXCEPT !.actors = Append(@, order.pending[i]),
                        !.pending = RemoveAt(@, i)]

\* Takes an actor that others go before out of the bus.
Take(order, a) ==
  IF Contains(order.actors, a)
  THEN [order EXCEPT !.actors = RemoveFirst(@, a), !.pending = Append(@, a)]
  ELSE order

Taken(list, links) ==
  LET taken[k \in 0 .. Len(links)] ==
        IF k = 0 THEN [actors |-> list, pending |-> <<>>, thrown |-> FALSE]
        ELSE Take(taken[k - 1], links[k].after)
  IN taken[Len(links)]

PutBack(order, links) ==
  LET ordered[k \in 0 .. Len(order.pending)] ==
        IF k = 0 THEN order ELSE AppendNext(ordered[k - 1], links)
  IN ordered[Len(order.pending)]

reorderForDependencies(list, links) == PutBack(Taken(list, links), links)

-----------------------------------------------------------------------------
(* What an operation leaves behind: the list, the links, the index, and     *)
(* whether it threw.                                                        *)

Unchanged ==
  [list |-> actors, links |-> dependencyLinks, index |-> actorsIndex,
   thrown |-> FALSE]

Reordered(bus) ==
  LET order == reorderForDependencies(bus.list, bus.links)
  IN [bus EXCEPT !.list = order.actors, !.thrown = order.thrown]

IdsOf(a) == IF ActorIds[a] = <<>> THEN <<AnyId>> ELSE ActorIds[a]

Subscribed(bus, a) == Reordered([bus EXCEPT !.list = Append(@, a)])

\* An indexed bus subscribes an actor once for each of its identifiers.
SubscribedUnder(bus, a, id) ==
  IF bus.thrown THEN bus
  ELSE Subscribed([bus EXCEPT !.index[id] = Append(@, a)], a)

SubscribedIndexed(bus, a) ==
  LET after[k \in 0 .. Len(IdsOf(a))] ==
        IF k = 0 THEN bus ELSE SubscribedUnder(after[k - 1], a, IdsOf(a)[k])
  IN after[Len(IdsOf(a))]

subscribe(bus, a) ==
  IF indexed THEN SubscribedIndexed(bus, a) ELSE Subscribed(bus, a)

Unindexed(index, a) ==
  LET left[k \in 0 .. Len(IdsOf(a))] ==
        IF k = 0 THEN index ELSE [left[k - 1] EXCEPT ![IdsOf(a)[k]] = RemoveFirst(@, a)]
  IN left[Len(IdsOf(a))]

\* The index loses the actor under each identifier, the list only once.
unsubscribe(bus, a) ==
  [bus EXCEPT !.list  = RemoveFirst(@, a),
              !.index = IF indexed THEN Unindexed(@, a) ELSE @]

\* a goes before d: the links of a dependency keep their place in the map.
Linked(links, a, d) ==
  LET i == SelectInSeq(links, LAMBDA l : l.after = d)
  IN IF i = 0
     THEN Append(links, [after |-> d, before |-> <<a>>])
     ELSE [links EXCEPT ![i].before = Append(@, a)]

LinkedAll(links, a, ds) ==
  LET linked[k \in 0 .. Len(ds)] ==
        IF k = 0 THEN links ELSE Linked(linked[k - 1], a, ds[k])
  IN linked[Len(ds)]

addDependencies(bus, a, ds) == Reordered([bus EXCEPT !.links = LinkedAll(@, a, ds)])

\* The constructor of an actor throws, if at all, where its bus throws.
constructor(bus, a) ==
  LET subscribed == subscribe(bus, a)
  IN IF subscribed.thrown \/ BeforeActors[a] = <<>> THEN subscribed
     ELSE addDependencies(subscribed, a, BeforeActors[a])

\* The actors an action with identifier id, or without (AnyId), is sent to.
publish(id) ==
  IF indexed /\ id # AnyId THEN actorsIndex[id] \o actorsIndex[AnyId] ELSE actors

-----------------------------------------------------------------------------
BusInit ==
  /\ indexed \in BOOLEAN
  /\ actors = <<>>
  /\ dependencyLinks = <<>>
  /\ actorsIndex = [id \in Identifier \cup {AnyId} |-> <<>>]
  /\ constructed = {}
  /\ broken = FALSE
  /\ operations = 0

Becomes(bus) ==
  /\ operations < MaxOperations
  /\ operations' = operations + 1
  /\ UNCHANGED indexed
  /\ actors' = bus.list
  /\ dependencyLinks' = bus.links
  /\ actorsIndex' = bus.index
  /\ broken' = (broken \/ bus.thrown)

\* An actor is given its beforeActors, which were therefore made before it.
Construct(a) ==
  /\ a \notin constructed
  /\ ToSet(BeforeActors[a]) \subseteq constructed
  /\ constructed' = constructed \cup {a}
  /\ Becomes(constructor(Unchanged, a))

Subscribe(a) ==
  /\ a \in constructed
  /\ Becomes(subscribe(Unchanged, a))
  /\ UNCHANGED constructed

Unsubscribe(a) ==
  /\ a \in constructed
  /\ Becomes(unsubscribe(Unchanged, a))
  /\ UNCHANGED constructed

AddDependency(a, d) ==
  /\ {a, d} \subseteq constructed
  /\ Becomes(addDependencies(Unchanged, a, <<d>>))
  /\ UNCHANGED constructed

BusNext ==
  \/ \E a \in Actor : Construct(a) \/ Subscribe(a) \/ Unsubscribe(a)
  \/ \E a, d \in Actor : AddDependency(a, d)

-----------------------------------------------------------------------------
(* Properties. *)

Cyclic(links) ==
  \E cycle \in (SUBSET Actor) \ {{}} :
    \A a \in cycle : BeforeOf(links, a) \cap cycle # {}

InOrder ==
  \A i, j \in DOMAIN actors :
    actors[i] \in BeforeOf(dependencyLinks, actors[j]) => i < j

\* Every operation that reorders leaves two actors of the bus in the order their
\* dependency asks for, whatever was subscribed, unsubscribed and linked before
\* (Bus.reorderForDependencies). An actor that is in the bus twice is moved only
\* once, and unsubscribe, which removes the one in front, does not reorder; a
\* cycle cannot be ordered. The order is promised for the rest.
DependentsFirst ==
  [][\/ \E a \in Actor : Unsubscribe(a) \/ Occurrences(actors', a) > 1
     \/ Cyclic(dependencyLinks')
     \/ InOrder']_busVars

\* The reordering takes actors out of the bus and puts all of them back: unless
\* somebody unsubscribes an actor, the bus loses one only when it throws, and it
\* throws only when the dependencies are cyclic.
ActorsStayUnlessCyclic ==
  [][IF broken'
     THEN Cyclic(dependencyLinks')
     ELSE \A a \in Actor :
            Occurrences(actors', a) >= Occurrences(actors, a) \/ Unsubscribe(a)]_busVars

=============================================================================
