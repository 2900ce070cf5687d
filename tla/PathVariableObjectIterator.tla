--------------------- MODULE PathVariableObjectIterator ---------------------
(***************************************************************************)
(* PathVariableObjectIterator: the terms reached by p* or p+ from a fixed  *)
(* subject.  Every new term is pushed to the buffer and to                 *)
(* pendingOperations; an operation asks the engine for one step from its   *)
(* term, and up to MaxRunningOperations of them are read from at a time.   *)
(*                                                                         *)
(* One JavaScript thread: an action is one callback, run to completion.    *)
(* The BufferedIterator base class of asynciterator is modelled as far as  *)
(* this class relies on it: buffer, _reading lock, states.  The done() of  *)
(* _read is one microtask after its end: they are one step here.  Pending  *)
(* operations are started last in, first out; no property depends on the   *)
(* order, and any may be started.  How often an operation returns the same *)
(* term is left out: what it returns twice is dropped as what two return.  *)
(***************************************************************************)
EXTENDS Integers, FiniteSets

CONSTANTS Terms, Next, Subject,
          Start,                 \* the operation of a subject that is no result
          MaxRunningOperations,  \* maxRunningOperations of the constructor
          MaxBufferSize,         \* maxBufferSize of BufferedIterator
          MetadataFirst,         \* the consumer asks for metadata before it reads
                                 \* anything, and reads when that has settled
          MayFail                \* kinds of failure the environment may produce

ASSUME TermsAssumption ==
  /\ IsFiniteSet(Terms) /\ Subject \in Terms /\ Start \notin Terms
  /\ Next \in [Terms -> SUBSET Terms]

ASSUME BoundsAssumption ==
  /\ MaxRunningOperations \in Nat \ {0} /\ MaxBufferSize \in Nat \ {0}
  /\ MetadataFirst \in BOOLEAN
  /\ MayFail \subseteq {"operation", "stream", "metadata", "cancel"}

Operations == Terms \cup {Start}

VARIABLES
  emitFirstSubject,
  state,       \* the AsyncIterator state
  reading,     \* the _reading lock: "no", "scheduled" (a fill is queued) or
               \* "starting" (_read awaits an operation)
  readable,
  buffer, delivered,
  count,       \* items the running _read may still push
  termHashes,  \* the terms that were pushed as results
  started,
  pending,     \* pendingOperations
  operation,   \* per operation: how far it is
  unread,      \* per operation: results that are still to come
  ready,       \* per operation: results its stream has ready to be read
  kickstart,   \* the startNextOperation of getProperty('metadata')
  errorEmitted

bufferVars == <<state, reading, readable, buffer, delivered, count>>
searchVars == <<termHashes, started, pending, operation, unread, ready>>
vars == <<emitFirstSubject, bufferVars, searchVars, kickstart, errorEmitted>>

done   == state \in {"ended", "destroyed"}
closed == state # "open"

results(o) == Next[IF o = Start THEN Subject ELSE o]
first == IF emitFirstSubject THEN Subject ELSE Start

(* The constructor. *)
Init ==
  /\ emitFirstSubject \in BOOLEAN
  /\ state = "open" /\ reading = "no" /\ readable = TRUE /\ count = 0
  /\ buffer = IF emitFirstSubject THEN {Subject} ELSE {}
  /\ termHashes = buffer /\ delivered = {}
  /\ started = FALSE /\ pending = {first}
  /\ operation = [o \in Operations |-> "none"]
  /\ unread = [o \in Operations |-> {}] /\ ready = unread
  /\ kickstart = "none" /\ errorEmitted = FALSE

-----------------------------------------------------------------------------
(* _end: the running operations are destroyed. *)
runningOperations == {o \in Operations : operation[o] = "running"}
EndOperations(op) ==
  [o \in Operations |-> IF op[o] = "running" THEN "destroyed" ELSE op[o]]

Destroy(op) ==
  IF done
  THEN operation' = op /\ UNCHANGED <<state, readable, buffer>>
  ELSE /\ state' = "destroyed" /\ readable' = FALSE /\ buffer' = {}
       /\ operation' = EndOperations(op)

(* _completeClose: the stream ends when its buffer is empty. *)
CompleteClose(buf) ==
  IF done THEN UNCHANGED state
  ELSE state' = IF buf = {} THEN "ended" ELSE "closed"

(* The consumer's read(): a buffered term or null; then the buffer is      *)
(* filled or, on a closed iterator, the stream ends.                       *)
ConsumerReads ==
  /\ ~done /\ readable
  /\ MetadataFirst => kickstart # "pending"
  /\ IF buffer = {}
     THEN readable' = FALSE /\ UNCHANGED <<buffer, delivered>>
     ELSE /\ \E t \in buffer : /\ buffer' = buffer \ {t}
                               /\ delivered' = delivered \cup {t}
          /\ UNCHANGED readable
  /\ IF reading = "no" /\ ~closed
     THEN reading' = "scheduled" /\ UNCHANGED <<state, operation>>
     ELSE /\ IF reading = "no" /\ buffer' = {}
             THEN state' = "ended" /\ operation' = EndOperations(operation)
             ELSE UNCHANGED <<state, operation>>
          /\ UNCHANGED reading
  /\ UNCHANGED <<emitFirstSubject, count, termHashes, started, pending, unread,
                 ready, kickstart, errorEmitted>>

ConsumerDestroys ==
  /\ "cancel" \in MayFail /\ ~done
  /\ Destroy(operation)
  /\ UNCHANGED <<emitFirstSubject, reading, delivered, count, termHashes, started,
                 pending, unread, ready, kickstart, errorEmitted>>

-----------------------------------------------------------------------------
(* startNextOperation up to its await. *)
StartNextOperation(o) ==
  /\ o \in pending
  /\ pending' = pending \ {o}
  /\ operation' = [operation EXCEPT ![o] = "starting"]
  /\ started' = TRUE

(* ... and from its await on: the operation is read from, done or not.     *)
Run(o) ==
  /\ operation' = [operation EXCEPT ![o] = "running"]
  /\ unread' = [unread EXCEPT ![o] = results(o)]
  /\ UNCHANGED ready

(* getProperty('metadata') on an iterator that was not started.            *)
RequestMetadata ==
  /\ ~started /\ ~done
  /\ MetadataFirst => reading = "no"
  /\ kickstart' = "pending"
  /\ \E o \in pending : StartNextOperation(o)
  /\ UNCHANGED <<emitFirstSubject, bufferVars, termHashes, unread, ready, errorEmitted>>

KickstartResolves ==
  /\ kickstart = "pending"
  /\ kickstart' = "resolved"
  /\ Run(first)
  /\ UNCHANGED <<emitFirstSubject, bufferVars, termHashes, started, pending, errorEmitted>>

(* The error is emitted; the iterator is not destroyed. *)
KickstartRejects ==
  /\ "metadata" \in MayFail /\ kickstart = "pending"
  /\ kickstart' = "rejected" /\ errorEmitted' = TRUE
  /\ operation' = [operation EXCEPT ![first] = "rejected"]
  /\ UNCHANGED <<emitFirstSubject, bufferVars, termHashes, started, pending, unread, ready>>

-----------------------------------------------------------------------------
(* _fillBuffer and _read.                                                  *)

isNew(t) == t \notin termHashes

closeIfNeededWhileRunning(running, pend) == pend = {}
closeIfNeeded(running, pend) == running = {} /\ pend = {}

(* done(): the lock is released and closing completes, or the consumer is  *)
(* told of what was pushed and a buffer less than half full is filled.     *)
ReadDone(close, pushed) ==
  /\ readable' = (readable \/ pushed)
  /\ IF close
     THEN reading' = "no" /\ CompleteClose(buffer')
     ELSE /\ reading' = IF pushed /\ 2 * Cardinality(buffer') < MaxBufferSize
                        THEN "scheduled" ELSE "no"
          /\ UNCHANGED state

(* The end of _read: what the running operations have ready is pushed, up  *)
(* to count new terms; each becomes a pending operation.                   *)
ReadItems(running, limit) ==
  \E read \in [running -> SUBSET Terms] :
    LET fresh == {t \in UNION {read[o] : o \in running} : isNew(t)}
    IN /\ \A o \in running : read[o] \subseteq ready[o]
       /\ Cardinality(fresh) <= limit
       /\ Cardinality(fresh) = limit \/ \A o \in running : read[o] = ready[o]
       /\ buffer' = buffer \cup fresh
       /\ termHashes' = termHashes \cup fresh
       /\ pending' = pending \cup fresh
       /\ ready' = [o \in Operations |-> IF o \in running THEN ready[o] \ read[o]
                                                          ELSE ready[o]]
       /\ ReadDone(closeIfNeeded(running, pending'), fresh # {})

(* As many operations as possible are started, one after the other; with   *)
(* those that run and are pending by now, _read goes on to the next or to  *)
(* reading from them.                                                      *)
canStartOneTooMany(running) == Cardinality(running) <= MaxRunningOperations
canStart(running) == Cardinality(running) < MaxRunningOperations

ReadOn(ops, limit) ==
  LET running == {o \in Operations : ops[o] = "running"} IN
  IF canStart(running) /\ pending # {}
  THEN /\ \E o \in pending : /\ pending' = pending \ {o}
                             /\ operation' = [ops EXCEPT ![o] = "starting"]
       /\ started' = TRUE /\ reading' = "starting"
       /\ UNCHANGED <<state, readable, buffer, termHashes, ready>>
  ELSE /\ ReadItems(running, limit)
       /\ operation' = ops
       /\ UNCHANGED started

ScheduledFillClosed ==
  /\ reading = "scheduled" /\ closed
  /\ reading' = "no"
  /\ CompleteClose(buffer)
  /\ UNCHANGED <<emitFirstSubject, readable, buffer, delivered, count, searchVars,
                 kickstart, errorEmitted>>

ScheduledFillFull ==
  /\ reading = "scheduled" /\ ~closed
  /\ Cardinality(buffer) = MaxBufferSize
  /\ reading' = "no"
  /\ UNCHANGED <<emitFirstSubject, state, readable, buffer, delivered, count,
                 searchVars, kickstart, errorEmitted>>

ScheduledFill ==
  /\ reading = "scheduled" /\ ~closed
  /\ Cardinality(buffer) < MaxBufferSize
  /\ count' = MaxBufferSize - Cardinality(buffer)
  /\ ReadOn(operation, count')
  /\ UNCHANGED <<emitFirstSubject, delivered, unread, kickstart, errorEmitted>>

(* The operation _read awaits: not the one a kickstart has under way. *)
awaited(o) ==
  reading = "starting" /\ operation[o] = "starting" /\ ~(kickstart = "pending" /\ o = first)

OperationStarts(o) ==
  /\ awaited(o) /\ ~done
  /\ ReadOn([operation EXCEPT ![o] = "running"], count)
  /\ unread' = [unread EXCEPT ![o] = results(o)]
  /\ UNCHANGED <<emitFirstSubject, delivered, count, kickstart, errorEmitted>>

(* On an iterator destroyed meanwhile the operation starts all the same;   *)
(* the lock stays taken or is released, which nobody asks any more.        *)
OperationStartsTooLate(o) ==
  /\ awaited(o) /\ done
  /\ Run(o)
  /\ UNCHANGED <<emitFirstSubject, bufferVars, termHashes, started, pending,
                 kickstart, errorEmitted>>

OperationRejects(o) ==
  /\ "operation" \in MayFail /\ awaited(o)
  /\ Destroy([operation EXCEPT ![o] = "rejected"])
  /\ UNCHANGED <<emitFirstSubject, reading, delivered, count, termHashes, started,
                 pending, unread, ready, kickstart, errorEmitted>>

-----------------------------------------------------------------------------
(* The streams of the operations.                                          *)

(* The listeners of 'readable' and 'end': only operations that _read       *)
(* started fill the buffer, but all make the iterator readable.            *)
fillsBuffer(o) == ~(o = first /\ kickstart # "none")

NotifyFillsOnly(o) ==
  /\ reading' = IF fillsBuffer(o) /\ reading = "no" THEN "scheduled" ELSE reading
  /\ UNCHANGED readable

Notify(o) ==
  /\ reading' = IF fillsBuffer(o) /\ reading = "no" THEN "scheduled" ELSE reading
  /\ readable' = ~done

(* Results come in; a stream that was readable before emits nothing. *)
OperationReadable(o) ==
  /\ operation[o] = "running"
  /\ \E come \in SUBSET unread[o] \ {{}} :
       /\ unread' = [unread EXCEPT ![o] = @ \ come]
       /\ ready' = [ready EXCEPT ![o] = @ \cup come]
  /\ IF ready[o] = {} THEN Notify(o) ELSE UNCHANGED <<reading, readable>>
  /\ UNCHANGED <<emitFirstSubject, state, buffer, delivered, count, termHashes,
                 started, pending, operation, kickstart, errorEmitted>>

OperationEnds(o) ==
  /\ operation[o] = "running" /\ unread[o] = {} /\ ready[o] = {}
  /\ operation' = [operation EXCEPT ![o] = "ended"]
  /\ Notify(o)
  /\ UNCHANGED <<emitFirstSubject, state, buffer, delivered, count, termHashes,
                 started, pending, unread, ready, kickstart, errorEmitted>>

OperationFails(o) ==
  /\ "stream" \in MayFail /\ operation[o] = "running"
  /\ Destroy([operation EXCEPT ![o] = "failed"])
  /\ UNCHANGED <<emitFirstSubject, reading, delivered, count, termHashes, started,
                 pending, unread, ready, kickstart, errorEmitted>>

-----------------------------------------------------------------------------
Consumer == ConsumerReads \/ ConsumerDestroys \/ RequestMetadata

NextStep ==
  \/ Consumer
  \/ KickstartResolves \/ KickstartRejects
  \/ ScheduledFillClosed \/ ScheduledFillFull \/ ScheduledFill
  \/ \E o \in Operations :
       \/ OperationStarts(o) \/ OperationStartsTooLate(o) \/ OperationRejects(o)
       \/ OperationReadable(o) \/ OperationEnds(o) \/ OperationFails(o)

Spec == Init /\ [][NextStep]_vars

(* Callbacks run, the engine answers, streams make progress, and the       *)
(* consumer reads while the iterator is readable.                          *)
Fairness ==
  /\ WF_vars(ConsumerReads) /\ WF_vars(KickstartResolves)
  /\ WF_vars(ScheduledFillClosed) /\ WF_vars(ScheduledFillFull) /\ WF_vars(ScheduledFill)
  /\ \A o \in Operations : /\ WF_vars(OperationStarts(o))
                           /\ WF_vars(OperationReadable(o))
                           /\ WF_vars(OperationEnds(o))

FairSpec == Spec /\ Fairness

-----------------------------------------------------------------------------
TypeOK ==
  /\ emitFirstSubject \in BOOLEAN /\ errorEmitted \in BOOLEAN
  /\ state \in {"open", "closed", "ended", "destroyed"}
  /\ reading \in {"no", "scheduled", "starting"}
  /\ readable \in BOOLEAN /\ started \in BOOLEAN /\ count \in 0..MaxBufferSize
  /\ buffer \subseteq termHashes /\ delivered \subseteq termHashes
  /\ termHashes \subseteq Terms
  /\ pending \subseteq {o \in Operations : operation[o] = "none"}
  /\ operation \in [Operations -> {"none", "starting", "running", "ended",
                                   "destroyed", "rejected", "failed"}]
  /\ unread \in [Operations -> SUBSET Terms] /\ ready \in [Operations -> SUBSET Terms]
  /\ kickstart \in {"none", "pending", "resolved", "rejected"}

(* No term is delivered twice, whatever cycles lead back to it and however *)
(* many operations return it at the same time: see _push.                  *)
DeliveredOnce == buffer \cap delivered = {}

(* No more than maxRunningOperations operations are read from at a time,   *)
(* and the buffer holds no more than it is meant to, although _read awaits *)
(* operations between its look at the buffer and its pushes.               *)
LimitsRespected ==
  /\ Cardinality(runningOperations) <= MaxRunningOperations
  /\ Cardinality(buffer) <= MaxBufferSize

(* What the consumer is told of the stream. *)
outcome ==
  IF errorEmitted \/ state = "destroyed" THEN "failed"
  ELSE IF state = "ended" THEN "ended" ELSE "running"

Path == INSTANCE PathReachability WITH
  emitFirstSubject <- emitFirstSubject, delivered <- delivered, outcome <- outcome

(* Only terms that can be reached are delivered, and all before the end.   *)
ImplementsPathReachability == Path!AbsSpec

(* The consumer is told of an end or an error, whatever cycles the data    *)
(* has and whenever the operations have their results ready.               *)
EventuallyDone == <>(outcome # "running")

(* getObjectsPredicateStarEval returns an "Iterator to where all bindings  *)
(* of query should have been pushed": it does not end before they were.    *)
EndsWithAllSolutions == outcome = "ended" => delivered = Path!Solutions
=============================================================================
