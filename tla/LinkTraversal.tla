---------------------------- MODULE LinkTraversal ----------------------------
(***************************************************************************)
(* What the hypermedia source promises to the query engine: one stream of  *)
(* bindings that merges the bindings of every document that can be reached *)
(* from a first link by following the links the documents announce.  The   *)
(* stream delivers a binding at most once per document, it ends only when  *)
(* nothing is left to deliver, and otherwise it is destroyed.  Nothing is  *)
(* said of the queue, the concurrent document streams, the buffer or the   *)
(* order of the bindings.                                                  *)
(***************************************************************************)
CONSTANTS Links,      \* the documents (URLs) there are
          FirstLink,  \* the document the source was identified with
          NextLinks,  \* [Links -> SUBSET Links]: the links a document announces
          Bindings,   \* the bindings there are; each belongs to one document
          BindingsOf  \* [Links -> SUBSET Bindings]: what a document answers

VARIABLES delivered,  \* the bindings the consumer has read
          outcome     \* "running", "ended" or "destroyed"

absVars == <<delivered, outcome>>

ClosedUnderNext(S) == \A l \in S : NextLinks[l] \subseteq S

(* The least set of documents that holds the first one and is closed under *)
(* NextLinks.                                                              *)
Reachable ==
  {l \in Links : \A S \in SUBSET Links :
                   FirstLink \in S /\ ClosedUnderNext(S) => l \in S}

ReachableBindings == UNION {BindingsOf[l] : l \in Reachable}

AbsInit == delivered = {} /\ outcome = "running"

AbsDeliver ==
  /\ outcome = "running"
  /\ \E b \in ReachableBindings \ delivered : delivered' = delivered \cup {b}
  /\ UNCHANGED outcome

(* The last binding may be delivered in the very step that ends the stream. *)
AbsEnd ==
  /\ outcome = "running"
  /\ outcome' = "ended"
  /\ delivered' = ReachableBindings
  /\ \A b, c \in ReachableBindings \ delivered : b = c

AbsDestroy ==
  /\ outcome = "running"
  /\ outcome' = "destroyed"
  /\ UNCHANGED delivered

AbsNext == AbsDeliver \/ AbsEnd \/ AbsDestroy

AbsSpec == AbsInit /\ [][AbsNext]_absVars
=============================================================================
