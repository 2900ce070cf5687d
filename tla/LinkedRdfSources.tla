-------------------------- MODULE LinkedRdfSources --------------------------
(***************************************************************************)
(* LinkedRdfSourcesAsyncRdfIterator (with its Mediated subclass): the      *)
(* bindings stream of a hypermedia source.  It reads from up to            *)
(* MaxIterators inner streams, one per document, and follows the links     *)
(* that the metadata of each document announces.                           *)
(*                                                                         *)
(* Everything runs on one JavaScript thread: an action is one callback, run*)
(* to completion, and the interleaving is that of the pending promises and *)
(* stream events.  The link queue is any ILinkQueue: pop may return any    *)
(* queued link (LinkQueueFifo is one such queue).  The BufferedIterator    *)
(* base class of the asynciterator library is modelled as far as this      *)
(* class relies on it: its buffer, its _reading lock and its states.       *)
(***************************************************************************)
EXTENDS Integers, FiniteSets

CONSTANTS Links, FirstLink, NextLinks, Bindings, BindingsOf,
          MaxIterators,   \* maxIterators of the constructor
          MaxBufferSize,  \* maxBufferSize of BufferedIterator
          MaxScheduled,   \* bound: refetches of the first source under way
          MayFail         \* the kinds of failure the environment may produce

FailureKinds == {"first", "create", "refetch", "query", "stream",
                 "accumulate", "linkQueue", "preflight", "cancel"}

ASSUME LinksAssumption ==
  /\ IsFiniteSet(Links)
  /\ FirstLink \in Links
  /\ NextLinks \in [Links -> SUBSET Links]

ASSUME BindingsAssumption ==
  /\ IsFiniteSet(Bindings)
  /\ BindingsOf \in [Links -> SUBSET Bindings]
  /\ \A l, m \in Links : l # m => BindingsOf[l] \cap BindingsOf[m] = {}

ASSUME BoundsAssumption ==
  /\ MaxIterators \in Nat \ {0}
  /\ MaxBufferSize \in Nat \ {0}
  /\ MaxScheduled \in Nat \ {0}
  /\ MayFail \subseteq FailureKinds

VARIABLES
  state,       \* the AsyncIterator state of the linked iterator
  reading,     \* the _reading lock: "no", "scheduled" (a fill is queued as a
               \* microtask) or "first" (the first _read awaits its source)
  readable,    \* the readable flag of AsyncIterator
  started,
  buffer,      \* bindings pushed and not yet read
  delivered,   \* bindings the consumer has read
  inner,       \* per document: how far its inner stream is
  unread,      \* per document: bindings its inner stream still holds
  meta,        \* per document: how far the handling of its metadata is
  linkQueue,   \* links waiting to be started
  handledUrls, \* links that were queued once
  iteratorsPendingCreation,
  iteratorsPendingTermination,
  closingCalls,  \* pending startIteratorsForNextUrls(_, true)
  scheduled,     \* pending refetches that call startIteratorsForNextUrls(_, false)
  unhandled,     \* such a refetch was rejected, with nobody to catch it
  preflight,     \* the preflight metadata promise
  prop,          \* the 'metadata' property: who set it last
  propValid      \* ... and whether its validation state is still valid

bufferVars == <<state, reading, readable, started, buffer, delivered>>
linkVars   == <<linkQueue, handledUrls>>
countVars  == <<iteratorsPendingCreation, iteratorsPendingTermination>>
callVars   == <<closingCalls, scheduled, unhandled>>
propVars   == <<preflight, prop, propValid>>
vars == <<bufferVars, inner, unread, meta, linkVars, countVars, callVars, propVars>>

InnerStates == {"none", "creating", "running", "ended", "destroyed",
                "rejected",  \* its source could not be created
                "failed"}    \* its query could not be started
MetaStates  == {"none", "resolving", "received", "rejected"}

done   == state \in {"ended", "destroyed"}
closed == state \in {"closing", "closed", "ended", "destroyed"}

currentIterators == {l \in Links : inner[l] \in {"running", "destroyed"}}
iteratorsInUse ==
  Cardinality(currentIterators) + iteratorsPendingCreation
                                + iteratorsPendingTermination

(* The readable flag is an argument: _read asks after it pushed bindings. *)
canStartNewIterator(isReadable) == iteratorsInUse < MaxIterators /\ ~isReadable

areIteratorsRunningOffByOne == iteratorsInUse >= 0
areIteratorsRunning == iteratorsInUse > 0

isCloseableWithPendingIterators == linkQueue = {} /\ currentIterators = {}
isCloseableWithQueuedLinks == ~areIteratorsRunning
isCloseable == linkQueue = {} /\ ~areIteratorsRunning

(* The two flags of startIterator's closure. *)
receivedEndEvent(l) == inner[l] = "ended"
receivedMetadataTooEarly(l) == meta[l] # "none"
receivedMetadata(l) == meta[l] = "received"

Init ==
  /\ state = "open" /\ reading = "no" /\ readable = TRUE /\ started = FALSE
  /\ buffer = {} /\ delivered = {}
  /\ inner = [l \in Links |-> "none"]
  /\ unread = [l \in Links |-> {}]
  /\ meta = [l \in Links |-> "none"]
  /\ linkQueue = {} /\ handledUrls = {FirstLink}
  /\ iteratorsPendingCreation = 0 /\ iteratorsPendingTermination = 0
  /\ closingCalls = 0 /\ scheduled = 0 /\ unhandled = FALSE
  /\ preflight = "none" /\ prop = "unset" /\ propValid = FALSE

-----------------------------------------------------------------------------
(* The AsyncIterator operations this class calls on itself.                *)

(* _end: every inner stream in currentIterators is destroyed. *)
EndInner(in) == [l \in Links |-> IF in[l] = "running" THEN "destroyed" ELSE in[l]]

(* destroy(error): nothing happens when the iterator is done already.  The *)
(* callers have computed the inner streams they leave behind.              *)
DestroyWith(in) ==
  IF done
  THEN inner' = in /\ UNCHANGED <<state, readable, buffer>>
  ELSE /\ state' = "destroyed" /\ readable' = FALSE /\ buffer' = {}
       /\ inner' = EndInner(in)

(* close(): while the _reading lock is held, closing completes when it is *)
(* released; otherwise the stream ends once its buffer has been read.     *)
ClosedState ==
  IF closed /\ state # "closing" THEN state
  ELSE IF buffer = {} THEN "ended" ELSE "closed"

close ==
  IF closed THEN UNCHANGED state
  ELSE state' = IF reading = "no" THEN ClosedState ELSE "closing"

-----------------------------------------------------------------------------
(* The consumer.                                                           *)

(* read(): hands out a buffered binding, or null, which makes the stream   *)
(* unreadable; then refills the buffer or, on a closed stream, ends it.    *)
ConsumerReads ==
  /\ ~done /\ readable
  /\ IF buffer = {}
     THEN readable' = FALSE /\ UNCHANGED <<buffer, delivered>>
     ELSE /\ \E b \in buffer : buffer' = buffer \ {b}
                             /\ delivered' = delivered \cup {b}
          /\ UNCHANGED readable
  /\ IF reading = "no" /\ ~closed
     THEN reading' = "scheduled" /\ UNCHANGED <<state, inner>>
     ELSE /\ IF reading = "no" /\ buffer' = {}
             THEN state' = "ended" /\ inner' = EndInner(inner)
             ELSE UNCHANGED <<state, inner>>
          /\ UNCHANGED reading
  /\ UNCHANGED <<started, unread, meta, linkVars, countVars, callVars, propVars>>

kickstart ==
  /\ ~started /\ ~closed /\ reading = "no"
  /\ reading' = "scheduled"
  /\ UNCHANGED <<state, readable, started, buffer, delivered, inner, unread,
                 meta, linkVars, countVars, callVars, propVars>>

(* The consumer gives up: it destroys the stream. *)
ConsumerDestroys ==
  /\ "cancel" \in MayFail /\ ~done
  /\ DestroyWith(inner)
  /\ UNCHANGED <<reading, started, delivered, unread, meta, linkVars,
                 countVars, callVars, propVars>>

(* getProperty('metadata') before the first read: the metadata is fetched  *)
(* through a stream of its own, which is destroyed right after.            *)
RequestPreflight ==
  /\ ~started /\ preflight = "none"
  /\ preflight' = "pending"
  /\ UNCHANGED <<bufferVars, inner, unread, meta, linkVars, countVars, callVars,
                 prop, propValid>>

(* The property is set when the preflight promise resolves, and its state  *)
(* is invalidated right after if a document's metadata came first.         *)
PreflightResolves ==
  /\ preflight = "pending"
  /\ preflight' = "resolved"
  /\ prop' = "preflight"
  /\ propValid' = (\A l \in Links : meta[l] \in {"none", "rejected"})
  /\ UNCHANGED <<bufferVars, inner, unread, meta, linkVars, countVars, callVars>>

PreflightRejects ==
  /\ "preflight" \in MayFail /\ preflight = "pending"
  /\ preflight' = "rejected"
  /\ UNCHANGED <<bufferVars, inner, unread, meta, linkVars, countVars, callVars,
                 prop, propValid>>

-----------------------------------------------------------------------------
(* _fillBuffer and _read.                                                  *)

(* The refill after a read that pushed too little: _fillBufferAsync. *)
LockAfterFill(batch) ==
  IF batch # {} /\ 2 * Cardinality(buffer \cup batch) < MaxBufferSize
  THEN "scheduled" ELSE "no"

(* _read on a started iterator: what the inner streams have ready goes to  *)
(* the buffer; then, if an iterator could be started, the first source is  *)
(* fetched again (a cache hit as a rule) to get at its handledDatasets.    *)
ReadFromIterators(batch) ==
  /\ batch \subseteq UNION {unread[l] : l \in currentIterators}
  /\ Cardinality(batch) <= MaxBufferSize - Cardinality(buffer)
  /\ buffer' = buffer \cup batch
  /\ unread' = [l \in Links |-> unread[l] \ batch]
  /\ readable' = (readable \/ batch # {})
  /\ IF canStartNewIterator(readable')
     THEN scheduled < MaxScheduled /\ scheduled' = scheduled + 1
     ELSE UNCHANGED scheduled
  /\ reading' = LockAfterFill(batch)
  /\ UNCHANGED <<state, started, inner>>

(* An inner stream became readable, and no fill is under way. *)
InnerReadable(batch) ==
  /\ started /\ ~closed /\ reading = "no"
  /\ Cardinality(buffer) < MaxBufferSize
  /\ \E l \in Links : inner[l] = "running"
  /\ ReadFromIterators(batch)
  /\ UNCHANGED <<delivered, meta, linkVars, countVars, closingCalls, unhandled,
                 propVars>>

(* The microtask of _fillBufferAsync releases the lock and fills the       *)
(* buffer.  On a closed iterator this completes the closing instead.  It   *)
(* never finds the buffer full: only a fill adds to it, and one is         *)
(* scheduled with room left.                                               *)
ScheduledFillClosed ==
  /\ reading = "scheduled" /\ closed
  /\ reading' = "no"
  /\ state' = ClosedState
  /\ inner' = IF state' = "ended" THEN EndInner(inner) ELSE inner
  /\ UNCHANGED <<readable, started, buffer, delivered, unread, meta, linkVars,
                 countVars, callVars, propVars>>

(* The first _read fetches the first source and keeps the lock meanwhile. *)
FirstRead ==
  /\ reading = "scheduled" /\ ~closed /\ ~started
  /\ reading' = "first"
  /\ started' = TRUE
  /\ inner' = [inner EXCEPT ![FirstLink] = "creating"]
  /\ UNCHANGED <<state, readable, buffer, delivered, unread, meta, linkVars,
                 countVars, callVars, propVars>>

ScheduledFill(batch) ==
  /\ reading = "scheduled" /\ ~closed /\ started
  /\ Cardinality(buffer) < MaxBufferSize
  /\ ReadFromIterators(batch)
  /\ UNCHANGED <<delivered, meta, linkVars, countVars, closingCalls, unhandled,
                 propVars>>

-----------------------------------------------------------------------------
(* Sources and their inner streams.                                        *)

(* startIterator: nothing asks whether the linked iterator is done by now. *)
startIterator(l) ==
  \/ /\ inner' = [inner EXCEPT ![l] = "running"]
     /\ unread' = [unread EXCEPT ![l] = BindingsOf[l]]
     /\ UNCHANGED <<state, readable, buffer>>
  \/ /\ "query" \in MayFail
     /\ DestroyWith([inner EXCEPT ![l] = "failed"])
     /\ UNCHANGED unread

FirstSourceResolves ==
  /\ reading = "first" /\ inner[FirstLink] = "creating"
  /\ startIterator(FirstLink)
  /\ reading' = "no"
  /\ UNCHANGED <<started, delivered, meta, linkVars, countVars, callVars, propVars>>

(* QuerySourceHypermedia fetches the first source as soon as it is queried,*)
(* and destroys the linked iterator when that fails.                       *)
EagerFetchRejects ==
  /\ "first" \in MayFail
  /\ ~started /\ ~done
  /\ DestroyWith(inner)
  /\ UNCHANGED <<reading, started, delivered, unread, meta, linkVars, countVars,
                 callVars, propVars>>

(* The iterator is destroyed; the _reading lock is never released. *)
FirstSourceRejects ==
  /\ "first" \in MayFail
  /\ reading = "first" /\ inner[FirstLink] = "creating"
  /\ DestroyWith([inner EXCEPT ![FirstLink] = "failed"])
  /\ UNCHANGED <<reading, started, delivered, unread, meta, linkVars, countVars,
                 callVars, propVars>>

SourceResolves(l) ==
  /\ l # FirstLink /\ inner[l] = "creating"
  /\ iteratorsPendingCreation' = iteratorsPendingCreation - 1
  /\ startIterator(l)
  /\ UNCHANGED <<reading, started, delivered, meta, linkVars,
                 iteratorsPendingTermination, callVars, propVars>>

(* Only an 'error' event is emitted: the pending creation stays counted. *)
SourceRejects(l) ==
  /\ "create" \in MayFail
  /\ l # FirstLink /\ inner[l] = "creating"
  /\ inner' = [inner EXCEPT ![l] = "rejected"]
  /\ UNCHANGED <<bufferVars, unread, meta, linkVars, countVars, callVars, propVars>>

(* The 'end' event: it comes once all bindings of the stream were read. *)
InnerEnds(l) ==
  /\ inner[l] = "running" /\ unread[l] = {}
  /\ inner' = [inner EXCEPT ![l] = "ended"]
  /\ IF receivedMetadata(l)
     THEN closingCalls' = closingCalls + 1 /\ UNCHANGED iteratorsPendingTermination
     ELSE /\ iteratorsPendingTermination' = iteratorsPendingTermination + 1
          /\ UNCHANGED closingCalls
  /\ UNCHANGED <<bufferVars, unread, meta, linkVars, iteratorsPendingCreation,
                 scheduled, unhandled, propVars>>

InnerFails(l) ==
  /\ "stream" \in MayFail
  /\ inner[l] = "running" /\ ~done
  /\ DestroyWith(inner)
  /\ UNCHANGED <<reading, started, delivered, unread, meta, linkVars, countVars,
                 callVars, propVars>>

(* The metadata of a document, accumulated and set as the property; what   *)
(* was set before is invalidated.                                          *)
AccumulateMetadata(l) ==
  /\ inner[l] \in {"running", "ended", "destroyed"} /\ meta[l] = "none"
  /\ meta' = [meta EXCEPT ![l] = "resolving"]
  /\ prop' = "linked" /\ propValid' = TRUE
  /\ UNCHANGED <<bufferVars, inner, unread, linkVars, countVars, callVars, preflight>>

AccumulateRejects(l) ==
  /\ "accumulate" \in MayFail
  /\ inner[l] \in {"running", "ended", "destroyed"} /\ meta[l] = "none"
  /\ meta' = [meta EXCEPT ![l] = "rejected"]
  /\ DestroyWith(inner)
  /\ UNCHANGED <<reading, started, delivered, unread, linkVars, countVars,
                 callVars, propVars>>

newLinksUnfiltered(l) == NextLinks[l]
newLinks(l) == NextLinks[l] \ handledUrls

(* getSourceLinks and what follows: new links are queued and remembered,   *)
(* and the document's metadata counts as received.                         *)
ReceiveLinks(l) ==
  /\ meta[l] = "resolving"
  /\ linkQueue' = linkQueue \cup newLinks(l)
  /\ handledUrls' = handledUrls \cup newLinks(l)
  /\ meta' = [meta EXCEPT ![l] = "received"]
  /\ iteratorsPendingTermination' =
       iteratorsPendingTermination - (IF receivedEndEvent(l) THEN 1 ELSE 0)
  /\ closingCalls' = closingCalls + 1
  /\ UNCHANGED <<bufferVars, inner, unread, iteratorsPendingCreation, scheduled,
                 unhandled, propVars>>

-----------------------------------------------------------------------------
(* startIteratorsForNextUrls.                                              *)

smaller(m, n) == IF m < n THEN m ELSE n

(* How often the loop of startIteratorsForNextUrls goes round. *)
numberToStartAskedOnce ==
  IF ~canStartNewIterator(readable) \/ done THEN 0 ELSE Cardinality(linkQueue)
numberToStart ==
  IF ~canStartNewIterator(readable) \/ done THEN 0
  ELSE smaller(MaxIterators - iteratorsInUse, Cardinality(linkQueue))

(* As many queued links as possible are started; then, if it may and       *)
(* nothing is queued or running, the linked iterator closes.               *)
startIteratorsForNextUrls(canClose, started_) ==
  /\ started_ \subseteq linkQueue
  /\ Cardinality(started_) = numberToStart
  /\ linkQueue' = linkQueue \ started_
  /\ iteratorsPendingCreation' = iteratorsPendingCreation + Cardinality(started_)
  /\ IF canClose /\ started_ = {} /\ isCloseable
     THEN close /\ inner' = IF state' = "ended" THEN EndInner(inner) ELSE inner
     ELSE /\ inner' = [l \in Links |-> IF l \in started_ THEN "creating" ELSE inner[l]]
          /\ UNCHANGED state
  /\ UNCHANGED <<reading, readable, started, buffer, delivered, unread, meta,
                 handledUrls, iteratorsPendingTermination, propVars>>

ClosingCall(started_) ==
  /\ closingCalls > 0
  /\ closingCalls' = closingCalls - 1
  /\ startIteratorsForNextUrls(TRUE, started_)
  /\ UNCHANGED <<scheduled, unhandled>>

ScheduledCall(started_) ==
  /\ scheduled > 0
  /\ scheduled' = scheduled - 1
  /\ startIteratorsForNextUrls(FALSE, started_)
  /\ UNCHANGED <<closingCalls, unhandled>>

(* The refetch of the first source is rejected: nobody catches that. *)
ScheduledRejects ==
  /\ "refetch" \in MayFail
  /\ scheduled > 0
  /\ scheduled' = scheduled - 1
  /\ unhandled' = TRUE
  /\ UNCHANGED <<bufferVars, inner, unread, meta, linkVars, countVars,
                 closingCalls, propVars>>

(* getLinkQueue is rejected: the linked iterator is destroyed. *)
LinkQueueRejects ==
  /\ "linkQueue" \in MayFail
  /\ closingCalls > 0 /\ ~done
  /\ closingCalls' = closingCalls - 1
  /\ DestroyWith(inner)
  /\ UNCHANGED <<reading, started, delivered, unread, meta, linkVars, countVars,
                 scheduled, unhandled, propVars>>

-----------------------------------------------------------------------------
Progress ==
  \/ ConsumerReads
  \/ ScheduledFillClosed \/ FirstRead
  \/ FirstSourceResolves
  \/ \E l \in Links : \/ SourceResolves(l) \/ InnerEnds(l)
                      \/ AccumulateMetadata(l) \/ ReceiveLinks(l)
  \/ \E s \in SUBSET linkQueue : ClosingCall(s) \/ ScheduledCall(s)

Fills ==
  \E batch \in SUBSET UNION {unread[l] : l \in currentIterators} :
    InnerReadable(batch) \/ ScheduledFill(batch)

Failures ==
  \/ EagerFetchRejects \/ FirstSourceRejects \/ ScheduledRejects \/ LinkQueueRejects
  \/ \E l \in Links : SourceRejects(l) \/ InnerFails(l) \/ AccumulateRejects(l)

Consumer == kickstart \/ ConsumerDestroys

Preflight == RequestPreflight \/ PreflightResolves \/ PreflightRejects

Next == Progress \/ Fills \/ Failures \/ Consumer \/ Preflight

Spec == Init /\ [][Next]_vars

(* What the event loop and a live environment guarantee: pending callbacks *)
(* run, fetches settle, inner streams make their bindings available, and   *)
(* the consumer reads while the stream is readable.                        *)
Fairness ==
  /\ WF_vars(ConsumerReads)
  /\ WF_vars(FirstSourceResolves)
  /\ WF_vars(PreflightResolves)
  /\ \A l \in Links : /\ WF_vars(SourceResolves(l))
                      /\ WF_vars(InnerEnds(l))
                      /\ WF_vars(AccumulateMetadata(l))
                      /\ WF_vars(ReceiveLinks(l))
  /\ WF_vars(\E s \in SUBSET linkQueue : ClosingCall(s))
  /\ WF_vars(\E s \in SUBSET linkQueue : ScheduledCall(s))
  /\ WF_vars(ScheduledFillClosed)
  /\ WF_vars(FirstRead)
  /\ WF_vars(\E b \in SUBSET Bindings : ScheduledFill(b))
  /\ WF_vars(\E b \in SUBSET Bindings \ {{}} : InnerReadable(b))

FairSpec == Spec /\ Fairness

-----------------------------------------------------------------------------
TypeOK ==
  /\ state \in {"open", "closing", "closed", "ended", "destroyed"}
  /\ reading \in {"no", "scheduled", "first"}
  /\ readable \in BOOLEAN /\ started \in BOOLEAN
  /\ buffer \subseteq Bindings /\ delivered \subseteq Bindings
  /\ inner \in [Links -> InnerStates]
  /\ unread \in [Links -> SUBSET Bindings]
  /\ meta \in [Links -> MetaStates]
  /\ linkQueue \subseteq Links /\ handledUrls \subseteq Links
  /\ iteratorsPendingCreation \in Nat /\ iteratorsPendingTermination \in Nat
  /\ closingCalls \in Nat /\ scheduled \in 0..MaxScheduled
  /\ unhandled \in BOOLEAN
  /\ preflight \in {"none", "pending", "resolved", "rejected"}
  /\ prop \in {"unset", "preflight", "linked"} /\ propValid \in BOOLEAN

(* The two counters say what they stand for: a slot is held for every      *)
(* source whose promise is unsettled or was rejected, and for every inner  *)
(* stream that ended before its links were known.                          *)
creationSlots ==
  {l \in Links \ {FirstLink} : inner[l] \in {"creating", "rejected"}}
terminationSlots ==
  {l \in Links : inner[l] = "ended" /\ meta[l] # "received"}

SlotsAccounted ==
  /\ iteratorsPendingCreation = Cardinality(creationSlots)
  /\ iteratorsPendingTermination = Cardinality(terminationSlots)

(* While the linked iterator runs, never more than maxIterators documents  *)
(* are being fetched, read or asked for their links at the same time.      *)
MaxIteratorsRespected == ~done => iteratorsInUse <= MaxIterators

finished(l) == inner[l] = "ended" /\ meta[l] = "received"

(* The linked iterator closes by itself only when every document that was  *)
(* ever announced has been read to its end and asked for its links: the    *)
(* point of the handshake between 'end' and metadata in startIterator.     *)
ClosesOnlyWhenFinished ==
  state \in {"closing", "closed", "ended"} =>
    linkQueue = {} /\ \A l \in handledUrls : finished(l)

(* The remaining parts of the inductive invariant. *)
LinksInv ==
  /\ FirstLink \in handledUrls /\ linkQueue \subseteq handledUrls
  /\ \A l \in linkQueue : inner[l] = "none" /\ l # FirstLink
  /\ \A l \in handledUrls \ linkQueue : inner[l] = "none" => l = FirstLink
  /\ \A l \in Links \ handledUrls : inner[l] = "none"
  /\ inner[FirstLink] # "rejected"
  /\ started <=> inner[FirstLink] # "none"
  /\ reading = "first" => started
  /\ inner[FirstLink] \in {"none", "creating"} =>
       /\ handledUrls = {FirstLink} /\ closingCalls = 0
  /\ \A l \in Links : meta[l] # "none" =>
       inner[l] \in {"running", "ended", "destroyed"}
  /\ \A l \in Links : meta[l] = "received" => NextLinks[l] \subseteq handledUrls
  /\ \A l \in Links : inner[l] \in {"destroyed", "failed"} \/ meta[l] = "rejected"
                        => state = "destroyed"

BindingsInv ==
  /\ buffer \cap delivered = {}
  /\ \A l \in Links : /\ unread[l] \subseteq BindingsOf[l] \ (buffer \cup delivered)
                      /\ inner[l] = "ended" => unread[l] = {}
  /\ \A b \in buffer \cup delivered :
       \E l \in handledUrls : inner[l] # "none" /\ b \in BindingsOf[l]
  /\ \A l \in Links : state # "destroyed" /\ inner[l] \in {"running", "ended"} =>
       BindingsOf[l] \subseteq unread[l] \cup buffer \cup delivered
  /\ state = "ended" => buffer = {}
  /\ \A l \in Links : inner[l] \in {"none", "creating", "rejected"} =>
       BindingsOf[l] \cap (buffer \cup delivered) = {}

(* A document is fetched at most once per stream, cyclic links or not.     *)
FetchedOnce ==
  [][\A l \in Links : inner[l] # "none" /\ inner'[l] = "creating"
                         => inner[l] = "creating"]_vars

(* What the stream promises, whatever its queue, counters and buffer do.   *)
outcome == IF done THEN state ELSE "running"
Traversal == INSTANCE LinkTraversal WITH delivered <- delivered, outcome <- outcome
ImplementsLinkTraversal == Traversal!AbsSpec

lostSlot == unhandled \/ \E l \in Links : inner[l] = "rejected"

(* The consumer is told that the stream is over, unless a link could not   *)
(* be fetched.                                                             *)
EventuallyDone == <>(done \/ lostSlot)

=============================================================================
