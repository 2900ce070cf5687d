--------------------------- MODULE MetadataStates ---------------------------
(***************************************************************************)
(* How the metadata of streams stay true: MetadataValidationState and      *)
(* cachifyMetadata (packages/utils-metadata), with the nodes of a query    *)
(* plan that derive metadata from the metadata of others                   *)
(* (ActorQueryOperationUnion.unionMetadata, ActorRdfJoin.constructState).  *)
(* A stream replaces its metadata whenever it has read another document,   *)
(* and invalidates what it replaces.                                       *)
(***************************************************************************)
EXTENDS Naturals, FiniteSets, Sequences, SequencesExt

CONSTANTS
  Node,         \* the operations of a plan, each with its metadata callback
  Children,     \* the nodes it derives its metadata from; none for a stream
  MaxUpdates    \* bound: how often streams replace their metadata

Stream == {n \in Node : Children[n] = {}}

ASSUME MetadataAssumption ==
  /\ IsFiniteSet(Node) /\ Children \in [Node -> SUBSET Node]
  /\ MaxUpdates \in Nat

VARIABLES
  metadata,     \* every metadata object, with its validation state
  property,     \* the metadata property of each stream
  returned,     \* every promise that a metadata callback made
  lastReturn,   \* per node, the promise cachifyMetadata keeps, or 0
  updates,
  disturbed     \* history: some update came while a promise was under way

metadataVars == <<metadata, property, returned, lastReturn, updates, disturbed>>

\* of: the objects it was derived from; dependents: the objects whose state its
\* listeners invalidate; cachedBy: the nodes whose lastReturn they drop.
NewMetadata(node, of) ==
  [node |-> node, valid |-> TRUE, of |-> of, dependents |-> {}, cachedBy |-> {}]

\* What is in S, and what is any number of steps away from there.
Reached(S, step) ==
  LET reach[k \in 0 .. Cardinality(DOMAIN step)] ==
        IF k = 0 THEN S ELSE reach[k - 1] \cup UNION {step[x] : x \in reach[k - 1]}
  IN reach[Cardinality(DOMAIN step)]

StreamOrder == SetToSeq(Stream)
Settled(p) == returned[p].phase = "settled"

MetadataInit ==
  /\ metadata = [i \in DOMAIN StreamOrder |-> NewMetadata(StreamOrder[i], {})]
  /\ property = [n \in Stream |-> CHOOSE i \in DOMAIN StreamOrder : StreamOrder[i] = n]
  /\ returned = <<>>
  /\ lastReturn = [n \in Node |-> 0]
  /\ updates = 0
  /\ disturbed = FALSE

-----------------------------------------------------------------------------
(* MetadataValidationState.invalidate: the listeners run at once, and     *)
(* theirs in turn, except those of a state that is no longer valid.        *)

cascade(m) ==
  Reached({i \in {m} : metadata[i].valid},
          [i \in DOMAIN metadata |-> {j \in metadata[i].dependents : metadata[j].valid}])

\* setProperty, then invalidate the state of what was there before.
Replace(n) ==
  LET gone == cascade(property[n])
      dropped == UNION {metadata[i].cachedBy : i \in gone}
  IN /\ n \in Stream /\ updates < MaxUpdates
     /\ metadata' = Append([i \in DOMAIN metadata |->
                              [metadata[i] EXCEPT !.valid = @ /\ i \notin gone]],
                           NewMetadata(n, {}))
     /\ property' = [property EXCEPT ![n] = Len(metadata) + 1]
     /\ lastReturn' = [k \in Node |-> IF k \in dropped THEN 0 ELSE lastReturn[k]]
     /\ updates' = updates + 1
     /\ disturbed' = (disturbed \/ \E p \in DOMAIN returned : ~Settled(p))
     /\ UNCHANGED returned

-----------------------------------------------------------------------------
(* cachifyMetadata *)

\* A callback whose cache is empty is called, and calls those of its children.
Asked(n) == Reached({n}, [c \in Node |-> {d \in Children[c] : lastReturn[d] = 0}])

Ask(n) ==
  LET asked == SetToSeq(Asked(n))
      made == [c \in Node |-> IF c \in Asked(n)
                              THEN Len(returned) + CHOOSE i \in DOMAIN asked : asked[i] = c
                              ELSE lastReturn[c]]
  IN /\ lastReturn[n] = 0
     /\ lastReturn' = made
     /\ returned' = returned \o [i \in DOMAIN asked |->
          [node |-> asked[i], phase |-> "called", value |-> 0, of |-> {},
           awaits |-> {made[c] : c \in Children[asked[i]]}]]
     /\ UNCHANGED <<metadata, property, updates, disturbed>>

\* getProperty hands over what the stream has when its callback runs.
ResolveStream(p) ==
  LET n == returned[p].node
  IN /\ returned[p].phase = "called" /\ n \in Stream
     /\ returned' = [returned EXCEPT ![p].phase = "resolved", ![p].value = property[n]]
     /\ UNCHANGED <<metadata, property, lastReturn, updates, disturbed>>

\* Promise.all over what the callbacks of the children returned.
Gather(p) ==
  /\ returned[p].phase = "called" /\ returned[p].node \notin Stream
  /\ \A q \in returned[p].awaits : Settled(q)
  /\ returned' = [returned EXCEPT ![p].phase = "gathered",
                                 ![p].of = {returned[q].value : q \in returned[p].awaits}]
  /\ UNCHANGED <<metadata, property, lastReturn, updates, disturbed>>

\* After a mediator was awaited: the new state listens to those it stands for.
derives(p, i) == i \in returned[p].of
constructState(p) ==
  LET m == Len(metadata) + 1
  IN /\ returned[p].phase = "gathered"
     /\ metadata' = Append([i \in DOMAIN metadata |->
                              IF derives(p, i) THEN [metadata[i] EXCEPT !.dependents = @ \cup {m}]
                              ELSE metadata[i]],
                           NewMetadata(returned[p].node, returned[p].of))
     /\ returned' = [returned EXCEPT ![p].phase = "resolved", ![p].value = m]
     /\ UNCHANGED <<property, lastReturn, updates, disturbed>>

\* The promise resolves: its first reaction adds the listener that drops it.
listenersKept(p) == metadata[returned[p].value].cachedBy   \* mutant
listeners(p) == metadata[returned[p].value].cachedBy \cup {returned[p].node}
Settle(p) ==
  /\ returned[p].phase = "resolved"
  /\ metadata' = [metadata EXCEPT ![returned[p].value].cachedBy = listeners(p)]
  /\ returned' = [returned EXCEPT ![p].phase = "settled"]
  /\ UNCHANGED <<property, lastReturn, updates, disturbed>>

MetadataNext ==
  \/ \E n \in Node : Ask(n) \/ Replace(n)
  \/ \E p \in DOMAIN returned :
       ResolveStream(p) \/ Gather(p) \/ constructState(p) \/ Settle(p)

MetadataSpec == MetadataInit /\ [][MetadataNext]_metadataVars

-----------------------------------------------------------------------------
(* Properties. *)

\* What an object was derived from, at whatever distance, itself included.
Origins(m) == Reached({m}, [i \in DOMAIN metadata |-> metadata[i].of])

Kept(n) == lastReturn[n] # 0 /\ Settled(lastReturn[n])
Validated(n) == \A i \in Origins(returned[lastReturn[n]].value) : metadata[i].valid

\* "multiple calls properly cache this promise, and ... the cached object is
\* properly invalidated if needed" (packages/types/lib/IQueryOperationResult.ts:36):
\* as long as no stream replaced its metadata while a callback was being
\* answered, what the callbacks return is valid, and so is all it was derived
\* from. The invalidation passes through any number of unions and joins and
\* drops every cached promise on its way. An update in between is missed: the
\* listener is added to a state that is invalid already.
QuietUpdatesReachAll == ~disturbed => \A n \in Node : Kept(n) => Validated(n)

=============================================================================
