------------------ MODULE PathVariableObjectIterator_proof ------------------
(* Proofs about PathVariableObjectIterator, for any data and any bounds.   *)
EXTENDS PathVariableObjectIterator, FiniteSetTheorems, TLAPS

Statuses == {"none", "starting", "running", "ended", "destroyed", "rejected", "failed"}

(* A term has an operation, begun or pending, only if it was pushed.       *)
OperationsTracked ==
  \A t \in Terms : operation[t] # "none" \/ t \in pending => t \in termHashes

(* Nothing happens before the first operation is begun, and the first one  *)
(* is the one a kickstart begins.                                          *)
FirstOperation ==
  /\ ~started => /\ pending = {first} /\ kickstart = "none"
                 /\ \A o \in Operations : operation[o] = "none"
  /\ kickstart = "pending" => operation[first] = "starting"

Inv == TypeOK /\ DeliveredOnce /\ OperationsTracked /\ FirstOperation

LEMMA FirstIsAnOperation == first \in Operations
BY TermsAssumption DEF first, Operations

LEMMA ResultsAreTerms == \A o \in Operations : results(o) \in SUBSET Terms
BY TermsAssumption DEF results, Operations

-----------------------------------------------------------------------------
LEMMA InitInv == Init => Inv
<1> SUFFICES ASSUME Init PROVE Inv
  OBVIOUS
<1>1. TypeOK
  <2>1. count \in 0..MaxBufferSize
    BY BoundsAssumption DEF Init
  <2> QED  BY <2>1, TermsAssumption DEF Init, TypeOK, Operations, first
<1>2. DeliveredOnce
  BY DEF Init, DeliveredOnce
<1>3. OperationsTracked
  BY TermsAssumption DEF Init, OperationsTracked, Operations, first
<1>4. FirstOperation
  BY DEF Init, FirstOperation
<1> QED  BY <1>1, <1>2, <1>3, <1>4 DEF Inv

(* What the end of _read pushes was not pushed before.                     *)
LEMMA ReadItemsFresh ==
  ASSUME NEW running, NEW limit, ReadItems(running, limit)
  PROVE  \E fresh \in SUBSET (Terms \ termHashes) :
           /\ Cardinality(fresh) <= limit
           /\ running = {} => fresh = {}
           /\ buffer' = buffer \cup fresh
           /\ termHashes' = termHashes \cup fresh
           /\ pending' = pending \cup fresh
           /\ ready' = [o \in Operations |-> ready'[o]]
           /\ \A o \in Operations : ready'[o] \subseteq ready[o]
           /\ ReadDone(closeIfNeeded(running, pending'), fresh # {})
<1>1. PICK read \in [running -> SUBSET Terms] :
        LET fresh == {t \in UNION {read[o] : o \in running} : isNew(t)}
        IN /\ Cardinality(fresh) <= limit
           /\ buffer' = buffer \cup fresh
           /\ termHashes' = termHashes \cup fresh
           /\ pending' = pending \cup fresh
           /\ ready' = [o \in Operations |-> IF o \in running THEN ready[o] \ read[o]
                                                              ELSE ready[o]]
           /\ ReadDone(closeIfNeeded(running, pending'), fresh # {})
  BY DEF ReadItems
<1> DEFINE fresh == {t \in UNION {read[o] : o \in running} : isNew(t)}
<1>2. fresh \in SUBSET (Terms \ termHashes)
  BY DEF isNew
<1>4. running = {} => fresh = {}
  OBVIOUS
<1>3. /\ ready' = [o \in Operations |-> ready'[o]]
      /\ \A o \in Operations : ready'[o] \subseteq ready[o]
  BY <1>1
<1> QED  BY <1>1, <1>2, <1>3, <1>4

(* ReadOn, from any way its operations can be.                             *)
LEMMA ReadOnInv ==
  ASSUME Inv, NEW ops \in [Operations -> Statuses], NEW limit,
         \A o \in Operations : ops[o] = "none" <=> operation[o] = "none",
         kickstart = "pending" => ops[first] = "starting",
         ReadOn(ops, limit),
         UNCHANGED <<emitFirstSubject, delivered, kickstart, errorEmitted>>,
         unread' \in [Operations -> SUBSET Terms], count' \in 0..MaxBufferSize
  PROVE  Inv'
<1> DEFINE running == {o \in Operations : ops[o] = "running"}
<1>1. CASE canStart(running) /\ pending # {}
  <2>1. PICK o \in pending : /\ pending' = pending \ {o}
                             /\ operation' = [ops EXCEPT ![o] = "starting"]
    BY <1>1 DEF ReadOn
  <2>2. /\ started' = TRUE /\ reading' = "starting"
        /\ UNCHANGED <<state, readable, buffer, termHashes, ready>>
    BY <1>1 DEF ReadOn
  <2>3. o \in Operations /\ first' = first
    BY DEF Inv, TypeOK, first
  <2>4. TypeOK'
    BY <2>1, <2>2, <2>3 DEF Inv, TypeOK, Statuses
  <2>5. DeliveredOnce'
    BY <2>2 DEF Inv, DeliveredOnce
  <2>6. OperationsTracked'
    BY <2>1, <2>2, <2>3, TermsAssumption DEF Inv, TypeOK, OperationsTracked, Operations
  <2>7. FirstOperation'
    <3>1. kickstart = "pending" => operation'[first] = "starting"
      BY <2>1, <2>3, FirstIsAnOperation DEF Statuses
    <3> QED  BY <2>2, <2>3, <3>1 DEF FirstOperation
  <2> QED  BY <2>4, <2>5, <2>6, <2>7 DEF Inv
<1>2. CASE ~(canStart(running) /\ pending # {})
  <2>1. ReadItems(running, limit) /\ operation' = ops /\ started' = started
    BY <1>2 DEF ReadOn
  <2>2. PICK fresh \in SUBSET (Terms \ termHashes) :
           /\ buffer' = buffer \cup fresh
           /\ termHashes' = termHashes \cup fresh
           /\ pending' = pending \cup fresh
           /\ ready' = [o \in Operations |-> ready'[o]]
           /\ \A o \in Operations : ready'[o] \subseteq ready[o]
           /\ ReadDone(closeIfNeeded(running, pending'), fresh # {})
    BY <2>1, ReadItemsFresh
  <2>3. /\ state' \in {"open", "closed", "ended", "destroyed"}
        /\ reading' \in {"no", "scheduled", "starting"} /\ readable' \in BOOLEAN
    BY <2>2 DEF ReadDone, CompleteClose, Inv, TypeOK, done
  <2>4. ready' \in [Operations -> SUBSET Terms]
    BY <2>2 DEF Inv, TypeOK
  <2>5. \A t \in fresh : t \in Operations /\ operation'[t] = "none"
    BY <2>1, <2>2 DEF Inv, OperationsTracked, Operations
  <2>6. TypeOK'
    BY <2>1, <2>2, <2>3, <2>4, <2>5 DEF Inv, TypeOK, Statuses
  <2>7. DeliveredOnce'
    BY <2>2 DEF Inv, TypeOK, DeliveredOnce
  <2>8. OperationsTracked'
    BY <2>1, <2>2, TermsAssumption DEF Inv, TypeOK, OperationsTracked, Operations
  <2>9. FirstOperation'
    <3>1. started
      <4> SUFFICES ASSUME ~started PROVE FALSE
        BY DEF Inv, TypeOK
      <4>1. pending # {} /\ running = {}
        BY DEF Inv, FirstOperation
      <4>2. canStart(running)
        BY <4>1, FS_EmptySet, BoundsAssumption DEF canStart
      <4> QED  BY <1>2, <4>1, <4>2
    <3> QED  BY <2>1, <3>1 DEF FirstOperation, first
  <2> QED  BY <2>6, <2>7, <2>8, <2>9 DEF Inv
<1> QED  BY <1>1, <1>2

-----------------------------------------------------------------------------
(* Steps that push nothing and begin no operation: the four conditions a   *)
(* step must leave intact.                                                 *)
LEMMA QuietStepInv ==
  ASSUME Inv,
         UNCHANGED <<emitFirstSubject, started, pending, termHashes>>,
         state' \in {"open", "closed", "ended", "destroyed"},
         reading' \in {"no", "scheduled", "starting"},
         readable' \in BOOLEAN, errorEmitted' \in BOOLEAN,
         count' \in 0..MaxBufferSize,
         buffer' \subseteq buffer,
         delivered' \subseteq delivered \cup (buffer \ buffer'),
         operation' \in [Operations -> Statuses],
         \A o \in Operations : operation'[o] = "none" <=> operation[o] = "none",
         unread' \in [Operations -> SUBSET Terms],
         ready' \in [Operations -> SUBSET Terms],
         kickstart' \in {"none", "pending", "resolved", "rejected"},
         ~started => kickstart' = "none",
         kickstart' = "pending" => operation'[first] = "starting"
  PROVE  Inv'
<1>1. TypeOK'
  BY DEF Inv, TypeOK, Statuses
<1>2. DeliveredOnce'
  BY DEF Inv, DeliveredOnce
<1>3. OperationsTracked'
  BY TermsAssumption DEF Inv, OperationsTracked, Operations
<1>4. FirstOperation'
  BY DEF Inv, FirstOperation, first
<1> QED  BY <1>1, <1>2, <1>3, <1>4 DEF Inv

(* What _end and destroy do to the operations.                             *)
LEMMA EndOperationsType ==
  ASSUME NEW ops \in [Operations -> Statuses]
  PROVE  /\ EndOperations(ops) \in [Operations -> Statuses]
         /\ \A o \in Operations :
              /\ EndOperations(ops)[o] = "none" <=> ops[o] = "none"
              /\ EndOperations(ops)[o] = "starting" <=> ops[o] = "starting"
              /\ EndOperations(ops)[o] # "running"
BY DEF EndOperations, Statuses

LEMMA DestroyType ==
  ASSUME Inv, NEW ops \in [Operations -> Statuses], Destroy(ops)
  PROVE  /\ operation' \in [Operations -> Statuses]
         /\ \A o \in Operations :
              /\ operation'[o] = "none" <=> ops[o] = "none"
              /\ operation'[o] = "starting" <=> ops[o] = "starting"
         /\ state' \in {"open", "closed", "ended", "destroyed"}
         /\ readable' \in BOOLEAN /\ buffer' \subseteq buffer
         /\ done'
<1>1. CASE done
  BY <1>1 DEF Destroy, done, Inv, TypeOK
<1>2. CASE ~done
  <2>1. /\ state' = "destroyed" /\ readable' = FALSE /\ buffer' = {}
        /\ operation' = EndOperations(ops)
    BY <1>2 DEF Destroy
  <2> QED  BY <2>1, EndOperationsType DEF done
<1> QED  BY <1>1, <1>2

LEMMA StepInv == Inv /\ [NextStep]_vars => Inv'
<1> SUFFICES ASSUME Inv, [NextStep]_vars PROVE Inv'
  OBVIOUS
<1>t. operation \in [Operations -> Statuses]
  BY DEF Inv, TypeOK, Statuses
<1>f. first \in Operations
  BY FirstIsAnOperation
<1>1. CASE ConsumerReads
  <2>1. /\ operation' \in [Operations -> Statuses]
        /\ \A o \in Operations : /\ operation'[o] = "none" <=> operation[o] = "none"
                                 /\ operation'[o] = "starting" <=> operation[o] = "starting"
    BY <1>1, <1>t, EndOperationsType DEF ConsumerReads
  <2>2. buffer' \subseteq buffer /\ delivered' \subseteq delivered \cup (buffer \ buffer')
    BY <1>1 DEF ConsumerReads
  <2>3. /\ state' \in {"open", "closed", "ended", "destroyed"}
        /\ reading' \in {"no", "scheduled", "starting"} /\ readable' \in BOOLEAN
    BY <1>1 DEF ConsumerReads, Inv, TypeOK
  <2>4. UNCHANGED <<emitFirstSubject, started, pending, termHashes, count, unread,
                    ready, kickstart, errorEmitted>>
    BY <1>1 DEF ConsumerReads
  <2>5. kickstart' = "pending" => operation'[first] = "starting"
    BY <2>1, <2>4, <1>f DEF Inv, FirstOperation
  <2> QED  BY <2>1, <2>2, <2>3, <2>4, <2>5, QuietStepInv DEF Inv, TypeOK, FirstOperation
<1>2. CASE ConsumerDestroys
  <2>1. Destroy(operation)
    BY <1>2 DEF ConsumerDestroys
  <2>2. UNCHANGED <<emitFirstSubject, reading, delivered, count, termHashes, started,
                    pending, unread, ready, kickstart, errorEmitted>>
    BY <1>2 DEF ConsumerDestroys
  <2>3. kickstart' = "pending" => operation'[first] = "starting"
    BY <2>1, <2>2, <1>t, <1>f, DestroyType DEF Inv, FirstOperation
  <2> QED
    BY <2>1, <2>2, <2>3, <1>t, DestroyType, QuietStepInv DEF Inv, TypeOK, FirstOperation
<1>3. CASE RequestMetadata
  <2>1. /\ ~started /\ started' = TRUE /\ kickstart' = "pending" /\ pending = {first}
        /\ pending' = {} /\ operation' = [operation EXCEPT ![first] = "starting"]
        /\ UNCHANGED <<emitFirstSubject, bufferVars, termHashes, unread, ready,
                       errorEmitted>>
    BY <1>3 DEF RequestMetadata, StartNextOperation, Inv, FirstOperation
  <2>2. TypeOK'
    BY <2>1, <1>f DEF Inv, TypeOK, bufferVars
  <2>3. DeliveredOnce'
    BY <2>1 DEF Inv, DeliveredOnce, bufferVars
  <2>4. OperationsTracked'
    BY <2>1, <1>f, TermsAssumption DEF Inv, TypeOK, OperationsTracked, Operations
  <2>5. FirstOperation'
    <3>1. first' = first /\ operation'[first] = "starting"
      BY <2>1, <1>t, <1>f DEF first
    <3> QED  BY <2>1, <3>1 DEF FirstOperation
  <2> QED  BY <2>2, <2>3, <2>4, <2>5 DEF Inv
<1>4. CASE KickstartResolves
  <2>1. /\ kickstart = "pending" /\ kickstart' = "resolved"
        /\ operation' = [operation EXCEPT ![first] = "running"]
        /\ unread' = [unread EXCEPT ![first] = results(first)]
        /\ UNCHANGED <<emitFirstSubject, bufferVars, termHashes, started, pending,
                       errorEmitted, ready>>
    BY <1>4 DEF KickstartResolves, Run
  <2>2. started /\ operation[first] = "starting"
    BY <2>1 DEF Inv, FirstOperation
  <2>3. unread' \in [Operations -> SUBSET Terms]
    BY <2>1, <1>f, ResultsAreTerms DEF Inv, TypeOK
  <2>4. /\ operation' \in [Operations -> Statuses]
        /\ \A o \in Operations : operation'[o] = "none" <=> operation[o] = "none"
    BY <2>1, <2>2, <1>t, <1>f DEF Statuses
  <2> QED  BY <2>1, <2>2, <2>3, <2>4, QuietStepInv DEF Inv, TypeOK, bufferVars
<1>5. CASE KickstartRejects
  <2>1. /\ kickstart = "pending" /\ kickstart' = "rejected" /\ errorEmitted' = TRUE
        /\ operation' = [operation EXCEPT ![first] = "rejected"]
        /\ UNCHANGED <<emitFirstSubject, bufferVars, termHashes, started, pending,
                       unread, ready>>
    BY <1>5 DEF KickstartRejects
  <2>2. started /\ operation[first] = "starting"
    BY <2>1 DEF Inv, FirstOperation
  <2>3. /\ operation' \in [Operations -> Statuses]
        /\ \A o \in Operations : operation'[o] = "none" <=> operation[o] = "none"
    BY <2>1, <2>2, <1>t, <1>f DEF Statuses
  <2> QED  BY <2>1, <2>2, <2>3, QuietStepInv DEF Inv, TypeOK, bufferVars
<1>6. CASE ScheduledFillClosed
  <2>1. state' \in {"open", "closed", "ended", "destroyed"}
    BY <1>6 DEF ScheduledFillClosed, CompleteClose, done, Inv, TypeOK
  <2> QED
    BY <1>6, <2>1, <1>t, QuietStepInv
    DEF ScheduledFillClosed, searchVars, Inv, TypeOK, FirstOperation
<1>7. CASE ScheduledFillFull
  BY <1>7, <1>t, QuietStepInv DEF ScheduledFillFull, searchVars, Inv, TypeOK, FirstOperation
<1>8. CASE ScheduledFill
  <2>1. count' \in 0..MaxBufferSize
    <3>1. IsFiniteSet(buffer)
      BY TermsAssumption, FS_Subset DEF Inv, TypeOK
    <3>2. Cardinality(buffer) \in Nat
      BY <3>1, FS_CardinalityType
    <3> QED  BY <1>8, <3>2, BoundsAssumption DEF ScheduledFill
  <2> QED
    BY <1>8, <2>1, <1>t, ReadOnInv DEF ScheduledFill, Inv, TypeOK, FirstOperation
<1>9. ASSUME NEW o \in Operations, OperationStarts(o) PROVE Inv'
  <2>1. unread' \in [Operations -> SUBSET Terms]
    BY <1>9, ResultsAreTerms DEF OperationStarts, Inv, TypeOK
  <2> DEFINE ops == [operation EXCEPT ![o] = "running"]
  <2>2. ops \in [Operations -> Statuses] /\ operation[o] = "starting"
    BY <1>9, <1>t DEF OperationStarts, awaited, Statuses
  <2>3. \A p \in Operations : ops[p] = "none" <=> operation[p] = "none"
    BY <2>2, <1>t
  <2>4. kickstart = "pending" => ops[first] = "starting"
    BY <1>9, <1>t, <1>f DEF OperationStarts, awaited, Inv, FirstOperation
  <2>5. ReadOn(ops, count)
    BY <1>9 DEF OperationStarts
  <2> HIDE DEF ops
  <2> QED  BY <1>9, <2>1, <2>2, <2>3, <2>4, <2>5, ReadOnInv DEF OperationStarts, Inv, TypeOK
<1>10. ASSUME NEW o \in Operations, OperationStartsTooLate(o) PROVE Inv'
  <2>1. unread' \in [Operations -> SUBSET Terms]
    BY <1>10, ResultsAreTerms DEF OperationStartsTooLate, Run, Inv, TypeOK
  <2>2. /\ operation' = [operation EXCEPT ![o] = "running"] /\ operation[o] = "starting"
        /\ kickstart = "pending" => o # first
        /\ UNCHANGED <<emitFirstSubject, bufferVars, termHashes, started, pending, ready,
                       kickstart, errorEmitted>>
    BY <1>10 DEF OperationStartsTooLate, Run, awaited
  <2>3. /\ operation' \in [Operations -> Statuses]
        /\ \A p \in Operations : operation'[p] = "none" <=> operation[p] = "none"
    BY <2>2, <1>t DEF Statuses
  <2>4. kickstart' = "pending" => operation'[first] = "starting"
    BY <2>2, <1>t, <1>f DEF Inv, FirstOperation
  <2> QED
    BY <2>1, <2>2, <2>3, <2>4, QuietStepInv DEF Inv, TypeOK, FirstOperation, bufferVars
<1>11. ASSUME NEW o \in Operations, OperationRejects(o) PROVE Inv'
  <2> DEFINE ops == [operation EXCEPT ![o] = "rejected"]
  <2>1. /\ ops \in [Operations -> Statuses] /\ operation[o] = "starting"
        /\ \A p \in Operations : ops[p] = "none" <=> operation[p] = "none"
        /\ kickstart = "pending" => ops[first] = "starting"
    BY <1>11, <1>t, <1>f DEF OperationRejects, awaited, Statuses, Inv, FirstOperation
  <2>2. Destroy(ops)
    BY <1>11 DEF OperationRejects
  <2>3. UNCHANGED <<emitFirstSubject, reading, delivered, count, termHashes, started,
                    pending, unread, ready, kickstart, errorEmitted>>
    BY <1>11 DEF OperationRejects
  <2> HIDE DEF ops
  <2>4. kickstart' = "pending" => operation'[first] = "starting"
    BY <2>1, <2>2, <2>3, <1>f, DestroyType
  <2> QED
    BY <2>1, <2>2, <2>3, <2>4, DestroyType, QuietStepInv DEF Inv, TypeOK, FirstOperation
<1>12. ASSUME NEW o \in Operations, OperationReadable(o) PROVE Inv'
  <2>1. /\ unread' \in [Operations -> SUBSET Terms]
        /\ ready' \in [Operations -> SUBSET Terms]
    BY <1>12 DEF OperationReadable, Inv, TypeOK
  <2>2. /\ reading' \in {"no", "scheduled", "starting"} /\ readable' \in BOOLEAN
    BY <1>12 DEF OperationReadable, Notify, done, Inv, TypeOK
  <2> QED
    BY <1>12, <2>1, <2>2, <1>t, QuietStepInv
    DEF OperationReadable, Inv, TypeOK, FirstOperation
<1>13. ASSUME NEW o \in Operations, OperationEnds(o) PROVE Inv'
  <2>1. /\ reading' \in {"no", "scheduled", "starting"} /\ readable' \in BOOLEAN
    BY <1>13 DEF OperationEnds, Notify, done, Inv, TypeOK
  <2>2. /\ operation' \in [Operations -> Statuses]
        /\ \A p \in Operations : operation'[p] = "none" <=> operation[p] = "none"
        /\ kickstart = "pending" => operation'[first] = "starting"
    BY <1>13, <1>t, <1>f DEF OperationEnds, Statuses, Inv, FirstOperation
  <2> QED
    BY <1>13, <2>1, <2>2, QuietStepInv DEF OperationEnds, Inv, TypeOK, FirstOperation
<1>14. ASSUME NEW o \in Operations, OperationFails(o) PROVE Inv'
  <2> DEFINE ops == [operation EXCEPT ![o] = "failed"]
  <2>1. /\ ops \in [Operations -> Statuses] /\ operation[o] = "running"
        /\ \A p \in Operations : ops[p] = "none" <=> operation[p] = "none"
        /\ kickstart = "pending" => ops[first] = "starting"
    BY <1>14, <1>t, <1>f DEF OperationFails, Statuses, Inv, FirstOperation
  <2>2. Destroy(ops)
    BY <1>14 DEF OperationFails
  <2>3. UNCHANGED <<emitFirstSubject, reading, delivered, count, termHashes, started,
                    pending, unread, ready, kickstart, errorEmitted>>
    BY <1>14 DEF OperationFails
  <2> HIDE DEF ops
  <2>4. kickstart' = "pending" => operation'[first] = "starting"
    BY <2>1, <2>2, <2>3, <1>f, DestroyType
  <2> QED
    BY <2>1, <2>2, <2>3, <2>4, DestroyType, QuietStepInv DEF Inv, TypeOK, FirstOperation
<1>15. CASE UNCHANGED vars
  <2>1. UNCHANGED <<emitFirstSubject, started, pending, termHashes, state, reading, readable,
                    errorEmitted, count, buffer, delivered, operation, unread, ready,
                    kickstart>>
    BY <1>15 DEF vars, bufferVars, searchVars
  <2> QED  BY <2>1, <1>t, QuietStepInv DEF Inv, TypeOK, FirstOperation
<1> QED
  BY <1>1, <1>2, <1>3, <1>4, <1>5, <1>6, <1>7, <1>8, <1>9, <1>10, <1>11, <1>12, <1>13,
     <1>14, <1>15 DEF NextStep, Consumer

LEMMA InvHolds == Spec => []Inv
<1> QED  BY InitInv, StepInv, PTL DEF Spec

(* The variables keep their types; in particular an operation is pending   *)
(* only as long as it was not begun, so that no term is searched from      *)
(* twice.                                                                  *)
THEOREM TypeCorrect == Spec => []TypeOK
<1>1. Inv => TypeOK
  BY DEF Inv
<1> QED  BY <1>1, InvHolds, PTL

(* No term is delivered twice: _push and termHashes.                       *)
THEOREM DeliveredOnceCorrect == Spec => []DeliveredOnce
<1>1. Inv => DeliveredOnce
  BY DEF Inv
<1> QED  BY <1>1, InvHolds, PTL

-----------------------------------------------------------------------------
(* The limits.                                                             *)
active == {o \in Operations : operation[o] \in {"starting", "running"}}

(* At most one operation is being started, by _read or by a kickstart that *)
(* runs alone: whatever _read does meanwhile, there is nothing to start.   *)
OneAtATime ==
  /\ \A o, p \in Operations : operation[o] = "starting" /\ operation[p] = "starting" => o = p
  /\ ~done /\ kickstart # "pending" /\ reading # "starting" =>
       \A o \in Operations : operation[o] # "starting"
  /\ ~done /\ kickstart = "pending" =>
       /\ pending = {} /\ reading # "starting" /\ (MetadataFirst => reading = "no")
       /\ \A o \in Operations : operation[o] # "running"
  /\ ~done /\ reading = "starting" => \E o \in Operations : operation[o] = "starting"

ActiveLimited == Cardinality(active) <= MaxRunningOperations

BufferLimited ==
  /\ Cardinality(buffer) <= MaxBufferSize
  /\ reading = "starting" /\ ~done => Cardinality(buffer) + count <= MaxBufferSize

LimitsInv == OneAtATime /\ ActiveLimited /\ BufferLimited

LEMMA SubsetsOfOperations ==
  ASSUME NEW S \in SUBSET Operations, NEW T \in SUBSET S
  PROVE  /\ IsFiniteSet(S) /\ Cardinality(S) \in Nat /\ Cardinality(T) \in Nat
         /\ Cardinality(T) <= Cardinality(S)
<1>1. IsFiniteSet(Operations)
  BY TermsAssumption, FS_AddElement DEF Operations
<1>2. IsFiniteSet(S) /\ IsFiniteSet(T)
  BY <1>1, FS_Subset
<1> QED  BY <1>2, FS_Subset, FS_CardinalityType

LEMMA BufferFinite ==
  ASSUME Inv, NEW T \in SUBSET buffer
  PROVE  /\ IsFiniteSet(buffer) /\ Cardinality(buffer) \in Nat /\ Cardinality(T) \in Nat
         /\ Cardinality(T) <= Cardinality(buffer)
<1>1. IsFiniteSet(buffer)
  BY TermsAssumption, FS_Subset DEF Inv, TypeOK
<1> QED  BY <1>1, FS_Subset, FS_CardinalityType

LEMMA LimitsInit == Init => LimitsInv
<1> SUFFICES ASSUME Init PROVE LimitsInv
  OBVIOUS
<1>1. active = {} /\ OneAtATime
  BY DEF Init, active, OneAtATime
<1>2. ActiveLimited
  BY <1>1, FS_EmptySet, BoundsAssumption DEF ActiveLimited
<1>3. Cardinality(buffer) \in {0, 1}
  BY FS_EmptySet, FS_Singleton DEF Init
<1> QED  BY <1>1, <1>2, <1>3, BoundsAssumption DEF Init, BufferLimited, LimitsInv

(* Steps that begin no operation and push nothing.                         *)
LEMMA QuietLimits ==
  ASSUME Inv, LimitsInv,
         \A o \in Operations : operation'[o] \in {"starting", "running"} =>
                               operation[o] \in {"starting", "running"},
         buffer' \subseteq buffer,
         reading' = "starting" /\ ~done' => reading = "starting" /\ ~done /\ count' = count
  PROVE  ActiveLimited' /\ BufferLimited'
<1>1. ActiveLimited'
  <2>1. active' \in SUBSET active /\ active \in SUBSET Operations
    BY DEF active
  <2> QED
    BY <2>1, SubsetsOfOperations, BoundsAssumption DEF LimitsInv, ActiveLimited
<1>2. BufferLimited'
  <2>1. /\ Cardinality(buffer) \in Nat /\ Cardinality(buffer') \in Nat
        /\ Cardinality(buffer') <= Cardinality(buffer)
    BY BufferFinite
  <2> QED  BY <2>1, BoundsAssumption DEF LimitsInv, BufferLimited, Inv, TypeOK
<1> QED  BY <1>1, <1>2

(* ReadOn, when no other operation is being started.                       *)
LEMMA ReadOnLimits ==
  ASSUME Inv, LimitsInv, ~done, UNCHANGED <<kickstart, delivered>>,
         reading # "no",
         NEW ops \in [Operations -> Statuses],
         kickstart = "pending" => ops = operation,
         kickstart # "pending" => \A o \in Operations : ops[o] # "starting",
         Cardinality({o \in Operations : ops[o] = "running"}) <= MaxRunningOperations,
         count' \in Nat, Cardinality(buffer) + count' <= MaxBufferSize,
         ReadOn(ops, count')
  PROVE  LimitsInv'
<1> DEFINE running == {o \in Operations : ops[o] = "running"}
<1>b. IsFiniteSet(buffer) /\ Cardinality(buffer) \in Nat
  BY BufferFinite
<1>r. IsFiniteSet(running) /\ Cardinality(running) \in Nat
  BY SubsetsOfOperations
<1>1. CASE canStart(running) /\ pending # {}
  <2>1. PICK o \in pending : operation' = [ops EXCEPT ![o] = "starting"]
    BY <1>1 DEF ReadOn
  <2>2. /\ reading' = "starting" /\ UNCHANGED <<state, buffer>> /\ o \in Operations
        /\ kickstart # "pending"
    BY <1>1 DEF ReadOn, Inv, TypeOK, LimitsInv, OneAtATime
  <2>3. OneAtATime'
    BY <2>1, <2>2 DEF OneAtATime, done
  <2>4. ActiveLimited'
    <3>1. active' \in SUBSET (running \cup {o})
      BY <2>1, <2>2, <1>1 DEF active
    <3>2. /\ IsFiniteSet(running \cup {o})
          /\ Cardinality(running \cup {o}) <= Cardinality(running) + 1
      <4> HIDE DEF running
      <4>1. /\ IsFiniteSet(running \cup {o})
            /\ Cardinality(running \cup {o}) =
                 IF o \in running THEN Cardinality(running) ELSE Cardinality(running) + 1
        BY <1>r, FS_AddElement
      <4> QED  BY <4>1, <1>r
    <3>3. Cardinality(running) < MaxRunningOperations
      BY <1>1 DEF canStart
    <3>4. (running \cup {o}) \in SUBSET Operations
      BY <2>2
    <3>5. /\ Cardinality(active') <= Cardinality(running \cup {o})
          /\ Cardinality(active') \in Nat /\ Cardinality(running \cup {o}) \in Nat
      BY <3>1, <3>4, SubsetsOfOperations
    <3> HIDE DEF running
    <3> QED  BY <3>2, <3>3, <3>5, <1>r, BoundsAssumption DEF ActiveLimited
  <2>5. BufferLimited'
    BY <2>2, <1>b, BoundsAssumption DEF BufferLimited
  <2> QED  BY <2>3, <2>4, <2>5 DEF LimitsInv
<1>2. CASE ~(canStart(running) /\ pending # {})
  <2>1. ReadItems(running, count') /\ operation' = ops
    BY <1>2 DEF ReadOn
  <2>2. PICK fresh \in SUBSET (Terms \ termHashes) :
           /\ Cardinality(fresh) <= count'
           /\ buffer' = buffer \cup fresh
           /\ pending' = pending \cup fresh
           /\ running = {} => fresh = {}
           /\ ReadDone(closeIfNeeded(running, pending'), fresh # {})
    BY <2>1, ReadItemsFresh
  <2>3. reading' # "starting"
    BY <2>2 DEF ReadDone
  <2>4. OneAtATime'
    <3>1. CASE kickstart # "pending"
      BY <2>1, <2>3, <3>1 DEF OneAtATime
    <3>2. CASE kickstart = "pending"
      <4>1. /\ pending = {} /\ running = {} /\ ~MetadataFirst
            /\ \A o, p \in Operations :
                 ops[o] = "starting" /\ ops[p] = "starting" => o = p
        BY <3>2 DEF LimitsInv, OneAtATime
      <4>2. pending' = {}
        BY <2>2, <4>1
      <4> QED  BY <2>1, <2>3, <3>2, <4>1, <4>2 DEF OneAtATime
    <3> QED  BY <3>1, <3>2
  <2>5. ActiveLimited'
    <3>1. CASE kickstart # "pending"
      <4>1. active' = running
        BY <2>1, <3>1 DEF active
      <4> QED  BY <4>1 DEF ActiveLimited
    <3>2. CASE kickstart = "pending"
      <4>1. active' = active
        BY <2>1, <3>2 DEF active
      <4> QED  BY <4>1 DEF LimitsInv, ActiveLimited
    <3> QED  BY <3>1, <3>2
  <2>6. BufferLimited'
    <3>1. IsFiniteSet(fresh) /\ buffer \cap fresh = {}
      BY TermsAssumption, FS_Subset DEF Inv, TypeOK
    <3>2. Cardinality(buffer') =
            Cardinality(buffer) + Cardinality(fresh) - Cardinality(buffer \cap fresh)
      BY <3>1, <2>2, <1>b, FS_Union
    <3>3. Cardinality(buffer \cap fresh) = 0 /\ Cardinality(fresh) \in Nat
      BY <3>1, FS_EmptySet, FS_CardinalityType
    <3> QED  BY <3>2, <3>3, <2>2, <2>3, <1>b, BoundsAssumption DEF BufferLimited
  <2> QED  BY <2>4, <2>5, <2>6 DEF LimitsInv
<1> QED  BY <1>1, <1>2

LEMMA DestroyLimits ==
  ASSUME Inv, LimitsInv, NEW ops \in [Operations -> Statuses], Destroy(ops),
         UNCHANGED reading,
         \A o \in Operations : ops[o] = "starting" => operation[o] = "starting",
         \A o \in Operations : ops[o] = "running" => operation[o] = "running"
  PROVE  LimitsInv'
<1>1. /\ done' /\ buffer' \subseteq buffer
      /\ \A o \in Operations : operation'[o] = "starting" <=> ops[o] = "starting"
  BY DestroyType
<1>2. \A o \in Operations : operation'[o] = "running" => ops[o] = "running"
  BY EndOperationsType DEF Destroy
<1>3. ActiveLimited' /\ BufferLimited'
  BY <1>1, <1>2, QuietLimits
<1>4. OneAtATime'
  BY <1>1 DEF LimitsInv, OneAtATime
<1> QED  BY <1>3, <1>4 DEF LimitsInv

LEMMA KickstartLimits ==
  ASSUME Inv, LimitsInv, kickstart = "pending", kickstart' # "pending",
         NEW s \in {"running", "rejected"}, operation' = [operation EXCEPT ![first] = s],
         UNCHANGED bufferVars
  PROVE  LimitsInv'
<1>t. operation \in [Operations -> Statuses]
  BY DEF Inv, TypeOK, Statuses
<1>1. first \in Operations /\ operation[first] = "starting"
  BY FirstIsAnOperation DEF Inv, FirstOperation
<1>2. ActiveLimited' /\ BufferLimited'
  BY <1>1, <1>t, QuietLimits DEF bufferVars, done
<1>3. \A o \in Operations : operation'[o] # "starting"
  BY <1>1, <1>t DEF LimitsInv, OneAtATime
<1>4. OneAtATime'
  <2>1. ~done' => reading' # "starting"
    BY DEF LimitsInv, OneAtATime, bufferVars, done
  <2> QED  BY <1>3, <2>1 DEF OneAtATime
<1> QED  BY <1>2, <1>4 DEF LimitsInv

LEMMA LimitsStep == Inv /\ LimitsInv /\ [NextStep]_vars => LimitsInv'
<1> SUFFICES ASSUME Inv, LimitsInv, [NextStep]_vars PROVE LimitsInv'
  OBVIOUS
<1>t. operation \in [Operations -> Statuses]
  BY DEF Inv, TypeOK, Statuses
<1>f. first \in Operations
  BY FirstIsAnOperation
<1>1. CASE ConsumerReads
  <2>1. /\ \A o \in Operations : /\ operation'[o] = "starting" <=> operation[o] = "starting"
                                 /\ operation'[o] = "running" => operation[o] = "running"
        /\ UNCHANGED <<kickstart, count, pending>>
        /\ MetadataFirst => kickstart # "pending"
        /\ reading' = reading \/ (reading = "no" /\ reading' = "scheduled")
        /\ ~done
    BY <1>1, <1>t, EndOperationsType DEF ConsumerReads
  <2>2. ActiveLimited' /\ BufferLimited'
    <3>1. buffer' \subseteq buffer
      BY <1>1 DEF ConsumerReads
    <3> QED  BY <2>1, <3>1, QuietLimits
  <2>3. OneAtATime'
    BY <2>1 DEF LimitsInv, OneAtATime
  <2> QED  BY <2>2, <2>3 DEF LimitsInv
<1>2. CASE ConsumerDestroys
  <2>1. Destroy(operation) /\ UNCHANGED reading
    BY <1>2 DEF ConsumerDestroys
  <2> QED  BY <2>1, <1>t, DestroyLimits
<1>3. CASE RequestMetadata
  <2>1. /\ ~done /\ kickstart' = "pending" /\ pending' = {}
        /\ operation' = [operation EXCEPT ![first] = "starting"]
        /\ \A o \in Operations : operation[o] = "none"
        /\ (MetadataFirst => reading = "no") /\ UNCHANGED bufferVars
    BY <1>3 DEF RequestMetadata, StartNextOperation, Inv, FirstOperation
  <2>0. reading # "starting"
    BY <2>1 DEF LimitsInv, OneAtATime
  <2>2. OneAtATime'
    BY <2>0, <2>1, <1>f, <1>t DEF OneAtATime, bufferVars
  <2>3. ActiveLimited'
    <3>1. active' = {first}
      BY <2>1, <1>f, <1>t DEF active
    <3>2. Cardinality({first}) = 1
      BY FS_Singleton
    <3> QED  BY <3>1, <3>2, BoundsAssumption DEF ActiveLimited
  <2>4. BufferLimited'
    BY <2>1 DEF LimitsInv, BufferLimited, bufferVars, done
  <2> QED  BY <2>2, <2>3, <2>4 DEF LimitsInv
<1>4. CASE KickstartResolves
  <2>1. /\ kickstart = "pending" /\ kickstart' = "resolved"
        /\ operation' = [operation EXCEPT ![first] = "running"]
        /\ UNCHANGED bufferVars
    BY <1>4 DEF KickstartResolves, Run
  <2> QED  BY <2>1, <1>t, KickstartLimits
<1>5. CASE KickstartRejects
  <2>1. /\ kickstart = "pending" /\ kickstart' = "rejected"
        /\ operation' = [operation EXCEPT ![first] = "rejected"]
        /\ UNCHANGED bufferVars
    BY <1>5 DEF KickstartRejects
  <2> QED  BY <2>1, <1>t, KickstartLimits
<1>6. CASE ScheduledFillClosed \/ ScheduledFillFull
  <2>1. /\ reading = "scheduled" /\ reading' = "no"
        /\ buffer' = buffer /\ operation' = operation /\ kickstart' = kickstart
        /\ pending' = pending
        /\ (done => done')
    BY <1>6 DEF ScheduledFillClosed, ScheduledFillFull, CompleteClose, searchVars, done
  <2>2. ActiveLimited' /\ BufferLimited'
    BY <2>1, QuietLimits
  <2>3. OneAtATime'
    BY <2>1 DEF LimitsInv, OneAtATime
  <2> QED  BY <2>2, <2>3 DEF LimitsInv
<1>7. CASE ScheduledFill
  <2>1. /\ ~done /\ reading = "scheduled" /\ UNCHANGED <<kickstart, delivered>>
        /\ count' = MaxBufferSize - Cardinality(buffer)
        /\ Cardinality(buffer) < MaxBufferSize
        /\ ReadOn(operation, count')
    BY <1>7 DEF ScheduledFill, closed, done
  <2>2. kickstart # "pending" => \A o \in Operations : operation[o] # "starting"
    BY <2>1 DEF LimitsInv, OneAtATime
  <2>3. Cardinality(runningOperations) <= MaxRunningOperations
    <3>1. runningOperations \in SUBSET active /\ active \in SUBSET Operations
      BY DEF runningOperations, active
    <3> QED
      BY <3>1, SubsetsOfOperations, BoundsAssumption DEF LimitsInv, ActiveLimited
  <2>4. count' \in Nat /\ Cardinality(buffer) + count' <= MaxBufferSize
    BY <2>1, BufferFinite, BoundsAssumption
  <2> QED  BY <2>1, <2>2, <2>3, <2>4, <1>t, ReadOnLimits DEF runningOperations
<1>8. ASSUME NEW o \in Operations, OperationStarts(o) PROVE LimitsInv'
  <2> DEFINE ops == [operation EXCEPT ![o] = "running"]
  <2>1. /\ ~done /\ reading = "starting" /\ operation[o] = "starting"
        /\ UNCHANGED <<kickstart, delivered, count>> /\ ReadOn(ops, count)
    BY <1>8 DEF OperationStarts, awaited
  <2>2. kickstart # "pending"
    BY <2>1 DEF LimitsInv, OneAtATime
  <2>3. \A p \in Operations : ops[p] # "starting"
    BY <2>1, <1>t DEF LimitsInv, OneAtATime
  <2>4. ops \in [Operations -> Statuses]
    BY <1>t DEF Statuses
  <2>5. {p \in Operations : ops[p] = "running"} = active
    BY <2>1, <2>3, <1>t DEF active, LimitsInv, OneAtATime
  <2>6. Cardinality({p \in Operations : ops[p] = "running"}) <= MaxRunningOperations
    BY <2>5 DEF LimitsInv, ActiveLimited
  <2>7. count \in Nat /\ Cardinality(buffer) + count <= MaxBufferSize
    BY <2>1 DEF LimitsInv, BufferLimited, Inv, TypeOK
  <2> HIDE DEF ops
  <2> QED  BY <2>1, <2>2, <2>3, <2>4, <2>6, <2>7, ReadOnLimits
<1>9. ASSUME NEW o \in Operations, OperationStartsTooLate(o) PROVE LimitsInv'
  <2>1. /\ done /\ operation[o] = "starting"
        /\ operation' = [operation EXCEPT ![o] = "running"]
        /\ UNCHANGED <<bufferVars, kickstart>>
    BY <1>9 DEF OperationStartsTooLate, awaited, Run
  <2>2. ActiveLimited' /\ BufferLimited'
    BY <2>1, <1>t, QuietLimits DEF bufferVars, done
  <2>3. OneAtATime'
    BY <2>1, <1>t DEF LimitsInv, OneAtATime, bufferVars, done
  <2> QED  BY <2>2, <2>3 DEF LimitsInv
<1>10. ASSUME NEW o \in Operations, OperationRejects(o) PROVE LimitsInv'
  <2> DEFINE ops == [operation EXCEPT ![o] = "rejected"]
  <2>1. Destroy(ops) /\ UNCHANGED reading
    BY <1>10 DEF OperationRejects
  <2>2. /\ ops \in [Operations -> Statuses]
        /\ \A p \in Operations : ops[p] = "starting" => operation[p] = "starting"
        /\ \A p \in Operations : ops[p] = "running" => operation[p] = "running"
    BY <1>t DEF Statuses
  <2> HIDE DEF ops
  <2> QED  BY <2>1, <2>2, DestroyLimits
<1>11. ASSUME NEW o \in Operations, OperationReadable(o) \/ OperationEnds(o)
       PROVE LimitsInv'
  <2>1. /\ operation[o] = "running"
        /\ operation' = operation \/ operation' = [operation EXCEPT ![o] = "ended"]
        /\ reading' = reading \/ (reading = "no" /\ reading' = "scheduled")
        /\ UNCHANGED <<state, buffer, count, kickstart>>
    BY <1>11 DEF OperationReadable, OperationEnds, Notify
  <2>2. \A p \in Operations : /\ operation'[p] = "starting" <=> operation[p] = "starting"
                              /\ operation'[p] = "running" => operation[p] = "running"
    BY <2>1, <1>t
  <2>3. ActiveLimited' /\ BufferLimited'
    BY <2>1, <2>2, QuietLimits DEF done
  <2>4. OneAtATime'
    BY <2>1, <2>2 DEF LimitsInv, OneAtATime, done
  <2> QED  BY <2>3, <2>4 DEF LimitsInv
<1>12. ASSUME NEW o \in Operations, OperationFails(o) PROVE LimitsInv'
  <2> DEFINE ops == [operation EXCEPT ![o] = "failed"]
  <2>1. Destroy(ops) /\ UNCHANGED reading
    BY <1>12 DEF OperationFails
  <2>2. /\ ops \in [Operations -> Statuses]
        /\ \A p \in Operations : ops[p] = "starting" => operation[p] = "starting"
        /\ \A p \in Operations : ops[p] = "running" => operation[p] = "running"
    BY <1>t DEF Statuses
  <2> HIDE DEF ops
  <2> QED  BY <2>1, <2>2, DestroyLimits
<1>13. CASE UNCHANGED vars
  BY <1>13 DEF LimitsInv, OneAtATime, ActiveLimited, active, BufferLimited, vars, bufferVars,
               searchVars, done
<1> QED
  BY <1>1, <1>2, <1>3, <1>4, <1>5, <1>6, <1>7, <1>8, <1>9, <1>10, <1>11, <1>12, <1>13
  DEF NextStep, Consumer

(* At most maxRunningOperations operations are started or read from at a   *)
(* time and the buffer keeps its size, for _read and a kickstart that      *)
(* races it.                                                               *)
THEOREM LimitsCorrect == Spec => []LimitsRespected
<1>1. Inv /\ LimitsInv => LimitsRespected
  <2> SUFFICES ASSUME Inv, LimitsInv PROVE LimitsRespected
    OBVIOUS
  <2>1. active \in SUBSET Operations /\ runningOperations \in SUBSET active
    BY DEF active, runningOperations
  <2>2. /\ Cardinality(runningOperations) <= Cardinality(active)
        /\ Cardinality(runningOperations) \in Nat /\ Cardinality(active) \in Nat
    BY <2>1, SubsetsOfOperations
  <2> QED
    BY <2>2, BoundsAssumption DEF LimitsInv, ActiveLimited, BufferLimited, LimitsRespected
<1>2. Init => LimitsInv
  BY LimitsInit
<1>3. Inv /\ LimitsInv /\ [NextStep]_vars => LimitsInv'
  BY LimitsStep
<1> QED  BY <1>1, <1>2, <1>3, InvHolds, PTL DEF Spec

-----------------------------------------------------------------------------
(* PathVariableObjectIterator implements PathReachability, for any data    *)
(* and any bounds, if its consumer waits for the metadata it asked for.    *)

(* Only solutions are found; the operation without result is of p+ only.   *)
Sound ==
  /\ termHashes \subseteq Path!Solutions
  /\ \A o \in Operations : unread[o] \subseteq Path!Solutions /\ ready[o] \subseteq Path!Solutions
  /\ emitFirstSubject => Start \notin pending /\ operation[Start] = "none"

(* What was found is searched from.                                        *)
Covered ==
  /\ \A o \in termHashes \cup {first} : o \in pending \/ operation[o] # "none"
  /\ emitFirstSubject => Subject \in termHashes

(* What an operation returned is pushed or still to be read.               *)
Complete ==
  \A o \in Operations :
    /\ operation[o] = "running" => results(o) \subseteq termHashes \cup unread[o] \cup ready[o]
    /\ operation[o] = "ended" => results(o) \subseteq termHashes

(* A stream that closes without an error has no operation left.            *)
Finished ==
  ~errorEmitted =>
    /\ state # "destroyed" =>
         \A o \in Operations : operation[o] \in {"none", "starting", "running", "ended"}
    /\ state \in {"closed", "ended"} =>
         pending = {} /\ \A o \in Operations : operation[o] \in {"none", "ended"}

Buffered ==
  /\ state # "destroyed" => termHashes = delivered \cup buffer
  /\ state = "ended" => buffer = {}

SearchInv == Sound /\ Covered /\ Complete /\ Finished /\ Buffered

-----------------------------------------------------------------------------
(* The closure of a set of terms.                                          *)
LEMMA ReachableContains ==
  ASSUME NEW S \in SUBSET Terms
  PROVE  S \subseteq Path!ReachableFrom(S) /\ Path!ReachableFrom(S) \subseteq Terms
BY DEF Path!ReachableFrom

LEMMA ReachableClosed ==
  ASSUME NEW S \in SUBSET Terms, NEW t \in Path!ReachableFrom(S)
  PROVE  Next[t] \subseteq Path!ReachableFrom(S)
<1>1. t \in Terms /\ Next[t] \subseteq Terms
  BY TermsAssumption DEF Path!ReachableFrom
<1> SUFFICES ASSUME NEW u \in Next[t], NEW C \in SUBSET Terms,
                    S \subseteq C, \A c \in C : Next[c] \subseteq C
             PROVE  u \in C
  BY <1>1 DEF Path!ReachableFrom
<1>2. t \in C
  BY DEF Path!ReachableFrom
<1> QED  BY <1>2

LEMMA ReachableLeast ==
  ASSUME NEW C \in SUBSET Terms, NEW S \in SUBSET C, \A c \in C : Next[c] \subseteq C
  PROVE  Path!ReachableFrom(S) \subseteq C
BY DEF Path!ReachableFrom

LEMMA SolutionsFacts ==
  /\ Path!Solutions \subseteq Terms
  /\ \A t \in Path!Solutions : Next[t] \subseteq Path!Solutions
  /\ emitFirstSubject => Subject \in Path!Solutions
  /\ ~emitFirstSubject => Next[Subject] \subseteq Path!Solutions
<1> DEFINE S == IF emitFirstSubject THEN {Subject} ELSE Next[Subject]
<1>1. S \in SUBSET Terms
  BY TermsAssumption
<1>2. Path!Solutions = Path!ReachableFrom(S)
  BY DEF Path!Solutions
<1> HIDE DEF S
<1>3. /\ S \subseteq Path!Solutions /\ Path!Solutions \subseteq Terms
      /\ \A t \in Path!Solutions : Next[t] \subseteq Path!Solutions
  BY <1>1, <1>2, ReachableContains, ReachableClosed
<1> QED  BY <1>3 DEF S

LEMMA ResultsAreSolutions ==
  ASSUME Inv, SearchInv, NEW o \in Operations, operation[o] # "none"
  PROVE  results(o) \subseteq Path!Solutions
<1>1. CASE o = Start
  <2>1. ~emitFirstSubject
    BY <1>1 DEF SearchInv, Sound
  <2> QED  BY <1>1, <2>1, SolutionsFacts DEF results
<1>2. CASE o # Start
  <2>1. o \in Terms /\ o \in termHashes
    BY <1>2 DEF Operations, Inv, OperationsTracked
  <2> QED  BY <1>2, <2>1, SolutionsFacts DEF results, SearchInv, Sound
<1> QED  BY <1>1, <1>2

(* A stream that closed without an error found all solutions.              *)
ClosedWithoutError == state \in {"closed", "ended"} /\ ~errorEmitted

FoundAll == termHashes = Path!Solutions

LEMMA AllFound == Inv /\ SearchInv /\ ClosedWithoutError => FoundAll
<1> SUFFICES ASSUME Inv, SearchInv, ClosedWithoutError PROVE FoundAll
  OBVIOUS
<1>1. pending = {} /\ \A o \in Operations : operation[o] \in {"none", "ended"}
  BY DEF SearchInv, Finished, ClosedWithoutError
<1>2. termHashes \in SUBSET Terms
  BY DEF Inv, TypeOK
<1>3. \A t \in termHashes \cup {first} : t \in Operations /\ results(t) \subseteq termHashes
  BY <1>1, <1>2, FirstIsAnOperation DEF SearchInv, Covered, Complete, Operations
<1>4. \A t \in termHashes : Next[t] \subseteq termHashes
  BY <1>2, <1>3, TermsAssumption DEF results
<1> DEFINE S == IF emitFirstSubject THEN {Subject} ELSE Next[Subject]
<1>5. S \in SUBSET termHashes
  BY <1>3 DEF SearchInv, Covered, first, results
<1>6. Path!Solutions = Path!ReachableFrom(S)
  BY DEF Path!Solutions
<1> HIDE DEF S
<1>7. Path!Solutions \subseteq termHashes
  BY <1>2, <1>4, <1>5, <1>6, ReachableLeast
<1> QED  BY <1>7 DEF SearchInv, Sound, FoundAll

-----------------------------------------------------------------------------
LEMMA SearchInit == Init => SearchInv
<1> SUFFICES ASSUME Init PROVE SearchInv
  OBVIOUS
<1>1. first \in Operations
  BY FirstIsAnOperation
<1>2. Sound
  BY SolutionsFacts, TermsAssumption DEF Init, Sound, Operations, first
<1>3. Covered
  BY <1>1 DEF Init, Covered, first
<1>4. Complete /\ Finished /\ Buffered
  BY DEF Init, Complete, Finished, Buffered
<1> QED  BY <1>2, <1>3, <1>4 DEF SearchInv

(* Steps that push nothing and begin nothing.                              *)
LEMMA QuietSearch ==
  ASSUME Inv, SearchInv,
         UNCHANGED <<emitFirstSubject, termHashes, pending>>,
         \A o \in Operations : operation'[o] = "none" <=> operation[o] = "none",
         \A o \in Operations :
           operation'[o] = "running" =>
             \/ operation[o] = "running"
                /\ unread[o] \cup ready[o] \subseteq unread'[o] \cup ready'[o]
             \/ results(o) \subseteq unread'[o],
         \A o \in Operations :
           operation'[o] = "ended" =>
             \/ operation[o] = "ended"
             \/ operation[o] = "running" /\ unread[o] = {} /\ ready[o] = {},
         \A o \in Operations :
           \/ unread'[o] \cup ready'[o] \subseteq unread[o] \cup ready[o]
           \/ /\ operation[o] # "none"
              /\ unread'[o] \cup ready'[o] \subseteq unread[o] \cup ready[o] \cup results(o),
         Finished', Buffered'
  PROVE  SearchInv'
<1>1. Path!Solutions' = Path!Solutions /\ first' = first
      /\ \A o : results(o)' = results(o)
  BY DEF Path!Solutions, Path!ReachableFrom, first, results
<1>2. \A o \in Operations : operation[o] # "none" => results(o) \subseteq Path!Solutions
  BY ResultsAreSolutions
<1>3. Sound'
  <2>1. Start \in Operations
    BY DEF Operations
  <2> QED  BY <1>1, <1>2, <2>1 DEF SearchInv, Sound
<1>4. Covered'
  <2>1. termHashes \cup {first} \subseteq Operations
    BY FirstIsAnOperation DEF Inv, TypeOK, Operations
  <2> QED  BY <1>1, <2>1 DEF SearchInv, Covered
<1>5. Complete'
  BY <1>1 DEF SearchInv, Complete
<1> QED  BY <1>3, <1>4, <1>5 DEF SearchInv

-----------------------------------------------------------------------------
(* What the end of _read pushes was ready, and what it read is pushed.     *)
LEMMA ReadItemsKeeps ==
  ASSUME NEW running \in SUBSET Operations, NEW limit, ReadItems(running, limit)
  PROVE  \E fresh \in SUBSET (Terms \ termHashes) :
           /\ buffer' = buffer \cup fresh
           /\ termHashes' = termHashes \cup fresh
           /\ pending' = pending \cup fresh
           /\ \A t \in fresh : \E o \in Operations : t \in ready[o]
           /\ \A o \in Operations : /\ ready'[o] \subseteq ready[o]
                                    /\ ready[o] \subseteq ready'[o] \cup termHashes'
           /\ ReadDone(closeIfNeeded(running, pending'), fresh # {})
<1>1. PICK read \in [running -> SUBSET Terms] :
        LET fresh == {t \in UNION {read[o] : o \in running} : isNew(t)}
        IN /\ \A o \in running : read[o] \subseteq ready[o]
           /\ buffer' = buffer \cup fresh
           /\ termHashes' = termHashes \cup fresh
           /\ pending' = pending \cup fresh
           /\ ready' = [o \in Operations |-> IF o \in running THEN ready[o] \ read[o]
                                                              ELSE ready[o]]
           /\ ReadDone(closeIfNeeded(running, pending'), fresh # {})
  BY DEF ReadItems
<1> DEFINE fresh == {t \in UNION {read[o] : o \in running} : isNew(t)}
<1>2. fresh \in SUBSET (Terms \ termHashes)
  BY DEF isNew
<1>3. \A t \in fresh : \E o \in Operations : t \in ready[o]
  BY <1>1
<1>4. \A o \in Operations : /\ ready'[o] \subseteq ready[o]
                            /\ ready[o] \subseteq ready'[o] \cup termHashes'
  <2> SUFFICES ASSUME NEW o \in Operations
               PROVE  /\ ready'[o] \subseteq ready[o]
                      /\ ready[o] \subseteq ready'[o] \cup termHashes'
    OBVIOUS
  <2>1. CASE o \in running
    <3>1. read[o] \subseteq termHashes \cup fresh
      BY <2>1 DEF isNew
    <3> QED  BY <1>1, <2>1, <3>1
  <2>2. CASE o \notin running
    BY <1>1, <2>2
  <2> QED  BY <2>1, <2>2
<1> QED  BY <1>1, <1>2, <1>3, <1>4

(* ReadOn, when no other operation is being started.                       *)
LEMMA ReadOnSearch ==
  ASSUME Inv, SearchInv, ~done, NEW limit,
         NEW ops \in [Operations -> Statuses],
         \A o \in Operations : ops[o] = "none" <=> operation[o] = "none",
         \A o \in Operations : ops[o] # "starting",
         \A o \in Operations : ops[o] = "ended" => operation[o] = "ended",
         \A o \in Operations : ops[o] = "running" =>
           \/ operation[o] = "running" /\ unread'[o] = unread[o]
           \/ results(o) \subseteq unread'[o],
         \A o \in Operations :
           \/ unread'[o] \subseteq unread[o]
           \/ operation[o] # "none" /\ unread'[o] \subseteq results(o),
         ~errorEmitted => /\ state = "open"
                          /\ \A o \in Operations : ops[o] \in {"none", "running", "ended"},
         UNCHANGED <<emitFirstSubject, delivered, kickstart, errorEmitted>>,
         ReadOn(ops, limit)
  PROVE  SearchInv'
<1> DEFINE running == {o \in Operations : ops[o] = "running"}
<1>1. Path!Solutions' = Path!Solutions /\ first' = first
      /\ \A o : results(o)' = results(o)
  BY DEF Path!Solutions, Path!ReachableFrom, first, results
<1>2. \A o \in Operations : operation[o] # "none" => results(o) \subseteq Path!Solutions
  BY ResultsAreSolutions
<1>3. /\ Start \in Operations /\ Start \notin Terms
      /\ termHashes \cup {first} \subseteq Operations
  BY TermsAssumption, FirstIsAnOperation DEF Operations, Inv, TypeOK
<1>4. \A o \in Operations : unread'[o] \subseteq Path!Solutions
  BY <1>2 DEF SearchInv, Sound
<1>5. CASE canStart(running) /\ pending # {}
  <2>1. PICK o \in pending : /\ pending' = pending \ {o}
                             /\ operation' = [ops EXCEPT ![o] = "starting"]
    BY <1>5 DEF ReadOn
  <2>2. UNCHANGED <<state, buffer, termHashes, ready>> /\ o \in Operations
    BY <1>5 DEF ReadOn, Inv, TypeOK
  <2>3. Sound'
    BY <1>1, <1>3, <1>4, <2>1, <2>2 DEF SearchInv, Sound
  <2>4. Covered'
    BY <1>1, <1>3, <2>1, <2>2 DEF SearchInv, Covered
  <2>5. Complete'
    BY <1>1, <2>1, <2>2 DEF SearchInv, Complete
  <2>6. Finished'
    BY <2>1, <2>2 DEF Finished
  <2>7. Buffered'
    BY <2>2 DEF SearchInv, Buffered
  <2> QED  BY <2>3, <2>4, <2>5, <2>6, <2>7 DEF SearchInv
<1>6. CASE ~(canStart(running) /\ pending # {})
  <2>1. ReadItems(running, limit) /\ operation' = ops
    BY <1>6 DEF ReadOn
  <2>2. PICK fresh \in SUBSET (Terms \ termHashes) :
           /\ buffer' = buffer \cup fresh
           /\ termHashes' = termHashes \cup fresh
           /\ pending' = pending \cup fresh
           /\ \A t \in fresh : \E o \in Operations : t \in ready[o]
           /\ \A o \in Operations : /\ ready'[o] \subseteq ready[o]
                                    /\ ready[o] \subseteq ready'[o] \cup termHashes'
           /\ ReadDone(closeIfNeeded(running, pending'), fresh # {})
    BY <2>1, ReadItemsKeeps
  <2>3. Sound'
    BY <1>1, <1>3, <1>4, <2>1, <2>2 DEF SearchInv, Sound
  <2>4. Covered'
    <3>1. \A o \in termHashes \cup {first} : o \in pending' \/ operation'[o] # "none"
      BY <1>3, <2>1, <2>2 DEF SearchInv, Covered
    <3> QED  BY <1>1, <2>2, <3>1 DEF SearchInv, Covered
  <2>5. Complete'
    <3> SUFFICES ASSUME NEW o \in Operations
                 PROVE  /\ ops[o] = "running" =>
                             results(o) \subseteq termHashes' \cup unread'[o] \cup ready'[o]
                        /\ ops[o] = "ended" => results(o) \subseteq termHashes'
      BY <1>1, <2>1 DEF Complete
    <3>1. ops[o] = "running" =>
            results(o) \subseteq termHashes' \cup unread'[o] \cup ready'[o]
      BY <2>2 DEF SearchInv, Complete
    <3>2. ops[o] = "ended" => results(o) \subseteq termHashes'
      BY <2>2 DEF SearchInv, Complete
    <3> QED  BY <3>1, <3>2
  <2>6. Finished'
    <3>1. CASE closeIfNeeded(running, pending')
      BY <2>1, <3>1 DEF Finished, closeIfNeeded
    <3>2. CASE ~closeIfNeeded(running, pending')
      BY <2>1, <2>2, <3>2 DEF Finished, ReadDone
    <3> QED  BY <3>1, <3>2
  <2>7. Buffered'
    <3>1. termHashes' = delivered' \cup buffer'
      BY <2>2 DEF SearchInv, Buffered, done
    <3>2. state' = "ended" => buffer' = {}
      BY <2>2 DEF ReadDone, CompleteClose, done
    <3> QED  BY <3>1, <3>2 DEF Buffered
  <2> QED  BY <2>3, <2>4, <2>5, <2>6, <2>7 DEF SearchInv
<1> QED  BY <1>5, <1>6

(* An operation that was begun or runs fails, and the iterator with it.    *)
LEMMA DestroySearch ==
  ASSUME Inv, SearchInv, NEW ops \in [Operations -> Statuses], Destroy(ops),
         \A o \in Operations : ops[o] = "none" <=> operation[o] = "none",
         \A o \in Operations : ops[o] \in {"running", "ended"} => operation[o] = ops[o],
         \/ ops = operation /\ ~done
         \/ \E o \in Operations : operation[o] \in {"starting", "running"},
         UNCHANGED <<emitFirstSubject, termHashes, pending, delivered, unread, ready,
                     errorEmitted>>
  PROVE  SearchInv'
<1>1. /\ \A o \in Operations : operation'[o] = "none" <=> operation[o] = "none"
      /\ \A o \in Operations : operation'[o] \in {"running", "ended"} =>
                               operation[o] = operation'[o]
  <2>1. CASE done
    BY <2>1 DEF Destroy
  <2>2. CASE ~done
    BY <2>2 DEF Destroy, EndOperations, Statuses
  <2> QED  BY <2>1, <2>2
<1>2. Finished'
  <2>1. CASE done
    <3>1. \E o \in Operations : operation[o] \in {"starting", "running"}
      BY <2>1
    <3>2. errorEmitted \/ state = "destroyed"
      BY <2>1, <3>1 DEF SearchInv, Finished, done
    <3>3. state' = state
      BY <2>1 DEF Destroy
    <3> QED  BY <3>2, <3>3 DEF Finished
  <2>2. CASE ~done
    BY <2>2 DEF Destroy, Finished
  <2> QED  BY <2>1, <2>2
<1>3. Buffered'
  BY DEF SearchInv, Buffered, Destroy
<1> QED  BY <1>1, <1>2, <1>3, QuietSearch

(* An operation that was being started runs.                               *)
LEMMA RunSearch ==
  ASSUME Inv, SearchInv, NEW o \in Operations, operation[o] = "starting",
         operation' = [operation EXCEPT ![o] = "running"],
         unread' = [unread EXCEPT ![o] = results(o)],
         UNCHANGED <<emitFirstSubject, bufferVars, termHashes, pending, errorEmitted, ready>>
  PROVE  SearchInv'
<1>t. operation \in [Operations -> Statuses] /\ unread \in [Operations -> SUBSET Terms]
  BY DEF Inv, TypeOK, Statuses
<1>1. \A p \in Operations : operation'[p] = "none" <=> operation[p] = "none"
  BY <1>t
<1>2. \A p \in Operations : p # o => operation'[p] = operation[p] /\ unread'[p] = unread[p]
  BY <1>t
<1>3. operation'[o] = "running" /\ unread'[o] = results(o)
  BY <1>t
<1>4. Finished' /\ Buffered'
  BY <1>t DEF SearchInv, Finished, Buffered, bufferVars
<1> QED  BY <1>1, <1>2, <1>3, <1>4, QuietSearch

LEMMA SearchStep ==
  ASSUME MetadataFirst
  PROVE  Inv /\ LimitsInv /\ SearchInv /\ [NextStep]_vars => SearchInv'
<1> SUFFICES ASSUME Inv, LimitsInv, SearchInv, [NextStep]_vars PROVE SearchInv'
  OBVIOUS
<1>t. operation \in [Operations -> Statuses]
  BY DEF Inv, TypeOK, Statuses
<1>f. first \in Operations
  BY FirstIsAnOperation
<1>1. CASE ConsumerReads
  <2>1. UNCHANGED <<emitFirstSubject, termHashes, pending, unread, ready, errorEmitted>>
    BY <1>1 DEF ConsumerReads
  <2>2. \/ UNCHANGED <<state, operation>>
        \/ /\ closed /\ ~done /\ state' = "ended" /\ buffer' = {}
           /\ operation' = EndOperations(operation)
    BY <1>1 DEF ConsumerReads
  <2>3. Finished'
    <3>1. CASE UNCHANGED <<state, operation>>
      BY <3>1, <2>1 DEF SearchInv, Finished
    <3>2. CASE closed /\ ~done /\ operation' = EndOperations(operation)
      <4>1. state = "closed"
        BY <3>2 DEF closed, done, Inv, TypeOK
      <4> QED  BY <3>2, <4>1, <2>1, <1>t DEF SearchInv, Finished, EndOperations
    <3> QED  BY <2>2, <3>1, <3>2
  <2>4. Buffered'
    <3>1. termHashes = delivered' \cup buffer'
      BY <1>1 DEF ConsumerReads, SearchInv, Buffered, done
    <3>2. state' = "ended" => buffer' = {}
      BY <1>1 DEF ConsumerReads, done
    <3> QED  BY <2>1, <3>1, <3>2 DEF Buffered
  <2>5. /\ \A o \in Operations : operation'[o] = "none" <=> operation[o] = "none"
        /\ \A o \in Operations : operation'[o] \in {"running", "ended"} =>
                                 operation[o] = operation'[o]
    BY <2>2, <1>t DEF EndOperations, Statuses
  <2> QED  BY <2>1, <2>3, <2>4, <2>5, QuietSearch
<1>2. CASE ConsumerDestroys
  <2>1. Destroy(operation) /\ ~done
    BY <1>2 DEF ConsumerDestroys
  <2>2. UNCHANGED <<emitFirstSubject, termHashes, pending, delivered, unread, ready,
                    errorEmitted>>
    BY <1>2 DEF ConsumerDestroys
  <2> QED  BY <2>1, <2>2, <1>t, DestroySearch
<1>3. CASE RequestMetadata
  <2>1. /\ pending = {first} /\ pending' = {}
        /\ operation' = [operation EXCEPT ![first] = "starting"]
        /\ \A o \in Operations : operation[o] = "none"
        /\ UNCHANGED <<emitFirstSubject, state, buffer, delivered, termHashes, unread, ready,
                       errorEmitted>>
    BY <1>3 DEF RequestMetadata, StartNextOperation, Inv, FirstOperation, bufferVars
  <2>2. first' = first /\ Path!Solutions' = Path!Solutions
    BY <2>1 DEF first, Path!Solutions, Path!ReachableFrom
  <2>3. Sound'
    <3>1. emitFirstSubject => first # Start
      BY TermsAssumption DEF first
    <3> QED  BY <2>1, <2>2, <3>1, <1>t, <1>f DEF SearchInv, Sound
  <2>4. Covered'
    <3>1. termHashes \cup {first} \subseteq Operations
      BY <1>f DEF Inv, TypeOK, Operations
    <3> QED  BY <2>1, <2>2, <3>1, <1>t, <1>f DEF SearchInv, Covered
  <2>5. Complete'
    BY <2>1, <1>t, <1>f DEF Complete
  <2>6. Finished'
    BY <2>1, <1>t, <1>f DEF SearchInv, Finished
  <2>7. Buffered'
    BY <2>1 DEF SearchInv, Buffered
  <2> QED  BY <2>3, <2>4, <2>5, <2>6, <2>7 DEF SearchInv
<1>4. CASE KickstartResolves
  <2>1. /\ kickstart = "pending"
        /\ operation' = [operation EXCEPT ![first] = "running"]
        /\ unread' = [unread EXCEPT ![first] = results(first)]
        /\ UNCHANGED <<emitFirstSubject, bufferVars, termHashes, pending, errorEmitted,
                       ready>>
    BY <1>4 DEF KickstartResolves, Run
  <2>2. operation[first] = "starting"
    BY <2>1 DEF Inv, FirstOperation
  <2> QED  BY <2>1, <2>2, <1>t, <1>f, RunSearch
<1>5. CASE KickstartRejects
  <2>1. /\ kickstart = "pending" /\ errorEmitted' = TRUE
        /\ operation' = [operation EXCEPT ![first] = "rejected"]
        /\ UNCHANGED <<emitFirstSubject, bufferVars, termHashes, pending, unread, ready>>
    BY <1>5 DEF KickstartRejects
  <2>2. operation[first] = "starting"
    BY <2>1 DEF Inv, FirstOperation
  <2>3. /\ \A o \in Operations : operation'[o] = "none" <=> operation[o] = "none"
        /\ \A o \in Operations : operation'[o] \in {"running", "ended"} =>
                                 operation[o] = operation'[o]
    BY <2>1, <2>2, <1>t, <1>f
  <2>4. Finished' /\ Buffered'
    BY <2>1 DEF SearchInv, Finished, Buffered, bufferVars
  <2> QED  BY <2>1, <2>3, <2>4, QuietSearch
<1>6. CASE ScheduledFillClosed \/ ScheduledFillFull
  <2>1. /\ UNCHANGED <<emitFirstSubject, buffer, delivered, searchVars, errorEmitted>>
        /\ \/ state' = state
           \/ /\ state = "closed" /\ state' \in {"closed", "ended"}
              /\ state' = "ended" => buffer = {}
    BY <1>6 DEF ScheduledFillClosed, ScheduledFillFull, CompleteClose, done, closed, Inv,
                TypeOK
  <2>2. Finished' /\ Buffered'
    BY <2>1 DEF SearchInv, Finished, Buffered, searchVars
  <2> QED  BY <2>1, <2>2, QuietSearch DEF searchVars
<1>7. CASE ScheduledFill
  <2>1. /\ ~done /\ reading = "scheduled" /\ state = "open"
        /\ UNCHANGED <<emitFirstSubject, delivered, unread, kickstart, errorEmitted>>
        /\ ReadOn(operation, count')
    BY <1>7 DEF ScheduledFill, closed, done
  <2>2. \A o \in Operations : operation[o] # "starting"
    BY <2>1 DEF LimitsInv, OneAtATime
  <2>3. ~errorEmitted =>
          \A o \in Operations : operation[o] \in {"none", "running", "ended"}
    BY <2>1, <2>2 DEF SearchInv, Finished
  <2> QED  BY <2>1, <2>2, <2>3, <1>t, ReadOnSearch
<1>8. ASSUME NEW o \in Operations, OperationStarts(o) PROVE SearchInv'
  <2> DEFINE ops == [operation EXCEPT ![o] = "running"]
  <2>1. /\ ~done /\ reading = "starting" /\ operation[o] = "starting"
        /\ UNCHANGED <<emitFirstSubject, kickstart, delivered, errorEmitted>>
        /\ unread' = [unread EXCEPT ![o] = results(o)] /\ ReadOn(ops, count)
    BY <1>8 DEF OperationStarts, awaited
  <2>2. \A p \in Operations : ops[p] # "starting"
    BY <2>1, <1>t DEF LimitsInv, OneAtATime
  <2>3. /\ ops \in [Operations -> Statuses]
        /\ \A p \in Operations : ops[p] = "none" <=> operation[p] = "none"
        /\ \A p \in Operations : ops[p] = "ended" => operation[p] = "ended"
    BY <2>1, <1>t DEF Statuses
  <2>4. ~errorEmitted =>
          state = "open" /\ \A p \in Operations : ops[p] \in {"none", "running", "ended"}
    BY <2>1, <2>2, <1>t DEF SearchInv, Finished, done, Inv, TypeOK
  <2>5. unread \in [Operations -> SUBSET Terms]
    BY DEF Inv, TypeOK
  <2>6. /\ \A p \in Operations : ops[p] = "running" =>
             \/ operation[p] = "running" /\ unread'[p] = unread[p]
             \/ results(p) \subseteq unread'[p]
        /\ \A p \in Operations :
             \/ unread'[p] \subseteq unread[p]
             \/ operation[p] # "none" /\ unread'[p] \subseteq results(p)
    BY <2>1, <2>5, <1>t
  <2> HIDE DEF ops
  <2> QED  BY <2>1, <2>2, <2>3, <2>4, <2>6, ReadOnSearch
<1>9. ASSUME NEW o \in Operations, OperationStartsTooLate(o) PROVE SearchInv'
  <2>1. /\ operation[o] = "starting"
        /\ operation' = [operation EXCEPT ![o] = "running"]
        /\ unread' = [unread EXCEPT ![o] = results(o)]
        /\ UNCHANGED <<emitFirstSubject, bufferVars, termHashes, pending, errorEmitted,
                       ready>>
    BY <1>9 DEF OperationStartsTooLate, awaited, Run
  <2> QED  BY <2>1, <1>t, RunSearch
<1>10. ASSUME NEW o \in Operations, OperationRejects(o) PROVE SearchInv'
  <2> DEFINE ops == [operation EXCEPT ![o] = "rejected"]
  <2>1. Destroy(ops) /\ operation[o] = "starting"
    BY <1>10 DEF OperationRejects, awaited
  <2>2. UNCHANGED <<emitFirstSubject, termHashes, pending, delivered, unread, ready,
                    errorEmitted>>
    BY <1>10 DEF OperationRejects
  <2>3. /\ ops \in [Operations -> Statuses]
        /\ \A p \in Operations : ops[p] = "none" <=> operation[p] = "none"
        /\ \A p \in Operations : ops[p] \in {"running", "ended"} => operation[p] = ops[p]
    BY <2>1, <1>t DEF Statuses
  <2> HIDE DEF ops
  <2> QED  BY <2>1, <2>2, <2>3, DestroySearch
<1>11. ASSUME NEW o \in Operations, OperationReadable(o) PROVE SearchInv'
  <2>1. /\ UNCHANGED <<emitFirstSubject, state, buffer, delivered, termHashes, pending,
                       operation, errorEmitted>>
        /\ \E come \in SUBSET unread[o] :
             /\ unread' = [unread EXCEPT ![o] = unread[o] \ come]
             /\ ready' = [ready EXCEPT ![o] = ready[o] \cup come]
    BY <1>11 DEF OperationReadable
  <2>2. \A p \in Operations : unread'[p] \cup ready'[p] = unread[p] \cup ready[p]
    BY <2>1 DEF Inv, TypeOK
  <2>3. Finished' /\ Buffered'
    BY <2>1 DEF SearchInv, Finished, Buffered
  <2> QED  BY <2>1, <2>2, <2>3, QuietSearch
<1>12. ASSUME NEW o \in Operations, OperationEnds(o) PROVE SearchInv'
  <2>1. /\ operation[o] = "running" /\ unread[o] = {} /\ ready[o] = {}
        /\ operation' = [operation EXCEPT ![o] = "ended"]
        /\ UNCHANGED <<emitFirstSubject, state, buffer, delivered, termHashes, pending,
                       unread, ready, errorEmitted>>
    BY <1>12 DEF OperationEnds
  <2>2. Finished' /\ Buffered'
    BY <2>1, <1>t DEF SearchInv, Finished, Buffered
  <2> QED  BY <2>1, <2>2, <1>t, QuietSearch
<1>13. ASSUME NEW o \in Operations, OperationFails(o) PROVE SearchInv'
  <2> DEFINE ops == [operation EXCEPT ![o] = "failed"]
  <2>1. Destroy(ops) /\ operation[o] = "running"
    BY <1>13 DEF OperationFails
  <2>2. UNCHANGED <<emitFirstSubject, termHashes, pending, delivered, unread, ready,
                    errorEmitted>>
    BY <1>13 DEF OperationFails
  <2>3. /\ ops \in [Operations -> Statuses]
        /\ \A p \in Operations : ops[p] = "none" <=> operation[p] = "none"
        /\ \A p \in Operations : ops[p] \in {"running", "ended"} => operation[p] = ops[p]
    BY <2>1, <1>t DEF Statuses
  <2> HIDE DEF ops
  <2> QED  BY <2>1, <2>2, <2>3, DestroySearch
<1>14. CASE UNCHANGED vars
  <2>1. UNCHANGED <<emitFirstSubject, state, buffer, delivered, termHashes, pending,
                    operation, unread, ready, errorEmitted>>
    BY <1>14 DEF vars, bufferVars, searchVars
  <2>2. Finished' /\ Buffered'
    BY <2>1 DEF SearchInv, Finished, Buffered
  <2> QED  BY <2>1, <2>2, QuietSearch
<1> QED
  BY <1>1, <1>2, <1>3, <1>4, <1>5, <1>6, <1>7, <1>8, <1>9, <1>10, <1>11, <1>12, <1>13,
     <1>14 DEF NextStep, Consumer

-----------------------------------------------------------------------------
(* What any step may do to what the consumer sees.                         *)
LEMMA StepFacts ==
  ASSUME Inv, SearchInv, [NextStep]_vars
  PROVE  /\ emitFirstSubject' = emitFirstSubject
         /\ \/ delivered' = delivered
            \/ /\ \E t \in buffer : delivered' = delivered \cup {t}
               /\ ~done /\ errorEmitted' = errorEmitted /\ state' # "destroyed"
         /\ errorEmitted => errorEmitted'
         /\ state = "destroyed" => state' = "destroyed"
         /\ state = "ended" => state' = "ended"
         /\ state = "ended" /\ errorEmitted' => errorEmitted
<1>1. CASE ConsumerReads
  BY <1>1 DEF ConsumerReads, done
<1>2. CASE ConsumerDestroys
  BY <1>2 DEF ConsumerDestroys, Destroy, done
<1>3. CASE RequestMetadata \/ KickstartResolves
  BY <1>3 DEF RequestMetadata, KickstartResolves, bufferVars
<1>4. CASE KickstartRejects
  <2>1. /\ kickstart = "pending" /\ errorEmitted' = TRUE
        /\ UNCHANGED <<emitFirstSubject, bufferVars>>
    BY <1>4 DEF KickstartRejects
  <2>2. operation[first] = "starting" /\ first \in Operations
    BY <2>1, FirstIsAnOperation DEF Inv, FirstOperation
  <2>3. state = "ended" => errorEmitted
    BY <2>2 DEF SearchInv, Finished
  <2> QED  BY <2>1, <2>3 DEF bufferVars
<1>5. CASE ScheduledFillClosed \/ ScheduledFillFull
  BY <1>5 DEF ScheduledFillClosed, ScheduledFillFull, CompleteClose, done
<1>6. CASE ScheduledFill \/ \E o \in Operations : OperationStarts(o)
  <2>1. UNCHANGED <<emitFirstSubject, delivered, errorEmitted>> /\ ~done
    BY <1>6 DEF ScheduledFill, OperationStarts, closed, done
  <2> QED  BY <2>1 DEF done
<1>7. ASSUME NEW o \in Operations,
             OperationStartsTooLate(o) \/ OperationReadable(o) \/ OperationEnds(o)
      PROVE  UNCHANGED <<emitFirstSubject, delivered, errorEmitted, state>>
  BY <1>7 DEF OperationStartsTooLate, OperationReadable, OperationEnds, bufferVars
<1>8. ASSUME NEW o \in Operations, OperationRejects(o) \/ OperationFails(o)
      PROVE  /\ UNCHANGED <<emitFirstSubject, delivered, errorEmitted>>
             /\ done => state' = state
  BY <1>8 DEF OperationRejects, OperationFails, Destroy
<1>9. CASE UNCHANGED vars
  BY <1>9 DEF vars, bufferVars
<1> QED
  BY <1>1, <1>2, <1>3, <1>4, <1>5, <1>6, <1>7, <1>8, <1>9 DEF NextStep, Consumer, done

LEMMA AbsStep ==
  ASSUME Inv, Inv', SearchInv, SearchInv', [NextStep]_vars
  PROVE  [Path!AbsNext]_(Path!absVars)
<1>1. /\ emitFirstSubject' = emitFirstSubject
      /\ \/ delivered' = delivered
         \/ /\ \E t \in buffer : delivered' = delivered \cup {t}
            /\ ~done /\ errorEmitted' = errorEmitted /\ state' # "destroyed"
      /\ errorEmitted => errorEmitted'
      /\ state = "destroyed" => state' = "destroyed"
      /\ state = "ended" => state' = "ended"
      /\ state = "ended" /\ errorEmitted' => errorEmitted
  BY StepFacts
<1>2. Path!Solutions' = Path!Solutions
  BY <1>1 DEF Path!Solutions, Path!ReachableFrom
<1>3. \A t \in buffer : t \in Path!Solutions \ delivered
  BY DEF Inv, TypeOK, DeliveredOnce, SearchInv, Sound
<1>4. CASE outcome' = "ended" /\ outcome # "ended"
  <2>1. state' = "ended" /\ ~errorEmitted' /\ outcome = "running"
    BY <1>1, <1>4 DEF outcome
  <2>2. termHashes' = Path!Solutions'
    <3>1. ClosedWithoutError'
      BY <2>1 DEF ClosedWithoutError
    <3>2. FoundAll'
      BY <3>1, AllFound, PTL
    <3> QED  BY <3>2 DEF FoundAll
  <2>3. delivered' = Path!Solutions
    BY <1>2, <2>1, <2>2 DEF SearchInv, Buffered
  <2>4. \A t, u \in Path!Solutions \ delivered : t = u
    BY <1>1, <2>3
  <2> QED  BY <1>1, <1>4, <2>1, <2>3, <2>4 DEF Path!AbsNext, Path!AbsEnd
<1>5. CASE outcome' = outcome
  <2>1. CASE delivered' = delivered
    BY <1>1, <1>5, <2>1 DEF Path!absVars
  <2>2. CASE delivered' # delivered
    <3>1. PICK t \in buffer : delivered' = delivered \cup {t}
      BY <1>1, <2>2
    <3>2. outcome # "ended"
      BY <1>1, <2>2 DEF outcome, done
    <3> QED  BY <1>1, <1>3, <1>5, <3>1, <3>2 DEF Path!AbsNext, Path!AbsDeliver
  <2> QED  BY <2>1, <2>2
<1>6. CASE outcome' # outcome /\ outcome' # "ended"
  <2>1. outcome = "running" /\ outcome' = "failed" /\ delivered' = delivered
    BY <1>1, <1>6 DEF outcome, done
  <2> QED  BY <1>1, <2>1 DEF Path!AbsNext, Path!AbsFail
<1> QED  BY <1>4, <1>5, <1>6

(* The terms delivered are solutions of the path and no end is reported    *)
(* before all of them were, for a consumer that asks for metadata first:   *)
(* PathVariableObjectIterator and its closeIfNeeded.                       *)
THEOREM PathReachabilityImplemented ==
  ASSUME MetadataFirst PROVE Spec => ImplementsPathReachability
<1>1. Init => Path!AbsInit
  BY DEF Init, Path!AbsInit, outcome
<1>2. Init => LimitsInv /\ SearchInv
  BY LimitsInit, SearchInit
<1>3. Inv /\ LimitsInv /\ [NextStep]_vars => LimitsInv'
  BY LimitsStep
<1>4. Inv /\ LimitsInv /\ SearchInv /\ [NextStep]_vars => SearchInv'
  BY SearchStep
<1>5. Inv /\ Inv' /\ SearchInv /\ SearchInv' /\ [NextStep]_vars
        => [Path!AbsNext]_(Path!absVars)
  BY AbsStep
<1> QED
  BY <1>1, <1>2, <1>3, <1>4, <1>5, InvHolds, PTL
  DEF Spec, ImplementsPathReachability, Path!AbsSpec

=============================================================================
