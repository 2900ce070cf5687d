----------------------- MODULE LinkedRdfSources_proof -----------------------
(* Proofs about LinkedRdfSources, for any set of documents, any links       *)
(* between them and any bounds.                                             *)
EXTENDS LinkedRdfSources, FiniteSetTheorems, TLAPS

Inv == /\ TypeOK /\ SlotsAccounted /\ LinksInv /\ BindingsInv
       /\ ClosesOnlyWhenFinished

-----------------------------------------------------------------------------
(* The actions change the sets that the counters count by one element or   *)
(* by the set of links that are started.                                   *)
LEMMA SlotSetsFinite ==
  /\ IsFiniteSet(creationSlots) /\ Cardinality(creationSlots) \in Nat
  /\ IsFiniteSet(terminationSlots) /\ Cardinality(terminationSlots) \in Nat
  /\ IsFiniteSet(currentIterators) /\ Cardinality(currentIterators) \in Nat
<1>1. /\ creationSlots \subseteq Links /\ terminationSlots \subseteq Links
      /\ currentIterators \subseteq Links
  BY DEF creationSlots, terminationSlots, currentIterators
<1> QED  BY <1>1, LinksAssumption, FS_Subset, FS_CardinalityType

LEMMA AddOne ==
  ASSUME NEW S, NEW T, NEW x, IsFiniteSet(S), x \notin S, T = S \cup {x}
  PROVE  Cardinality(T) = Cardinality(S) + 1
BY FS_AddElement

LEMMA RemoveOne ==
  ASSUME NEW S, NEW T, NEW x, IsFiniteSet(S), x \in S, T = S \ {x}
  PROVE  Cardinality(T) = Cardinality(S) - 1
<1>1. Cardinality(S \ {x}) = Cardinality(S) - 1
  BY FS_RemoveElement
<1> QED  BY <1>1

LEMMA AddSet ==
  ASSUME NEW S, NEW R, NEW T, IsFiniteSet(S), IsFiniteSet(R), S \cap R = {},
         T = S \cup R
  PROVE  Cardinality(T) = Cardinality(S) + Cardinality(R)
<1>1. Cardinality(S \cup R) = Cardinality(S) + Cardinality(R) - Cardinality(S \cap R)
  BY FS_Union
<1>2. Cardinality(S \cap R) = 0
  BY FS_EmptySet
<1>3. Cardinality(S) \in Nat /\ Cardinality(R) \in Nat
  BY FS_CardinalityType
<1> QED  BY <1>1, <1>2, <1>3

-----------------------------------------------------------------------------
LEMMA InitInv == Init => Inv
<1> SUFFICES ASSUME Init PROVE Inv
  OBVIOUS
<1>1. TypeOK
  <2>1. readable \in BOOLEAN /\ started \in BOOLEAN /\ unhandled \in BOOLEAN
        /\ propValid \in BOOLEAN
    BY DEF Init
  <2>2. scheduled \in 0..MaxScheduled
    BY BoundsAssumption DEF Init
  <2>3. inner \in [Links -> InnerStates] /\ meta \in [Links -> MetaStates]
    BY DEF Init, InnerStates, MetaStates
  <2> QED  BY <2>1, <2>2, <2>3, LinksAssumption DEF Init, TypeOK
<1>2. SlotsAccounted
  <2>1. creationSlots = {} /\ terminationSlots = {}
    BY DEF Init, creationSlots, terminationSlots
  <2> QED  BY <2>1, FS_EmptySet DEF Init, SlotsAccounted
<1>3. LinksInv
  BY LinksAssumption DEF Init, LinksInv
<1>4. BindingsInv
  BY BindingsAssumption DEF Init, BindingsInv
<1>5. ClosesOnlyWhenFinished
  BY DEF Init, ClosesOnlyWhenFinished
<1> QED  BY <1>1, <1>2, <1>3, <1>4, <1>5 DEF Inv

(* What each part of the invariant depends on. *)
LEMMA SlotsFrame ==
  SlotsAccounted /\ UNCHANGED <<inner, meta, countVars>> => SlotsAccounted'
BY DEF SlotsAccounted, creationSlots, terminationSlots, countVars

LEMMA LinksFrame ==
  LinksInv /\ UNCHANGED <<state, reading, started, inner, meta, linkVars, closingCalls>>
    => LinksInv'
BY DEF LinksInv, linkVars

LEMMA BindingsFrame ==
  BindingsInv /\ UNCHANGED <<state, buffer, delivered, inner, unread, handledUrls>>
    => BindingsInv'
BY DEF BindingsInv

LEMMA ClosesFrame ==
  ClosesOnlyWhenFinished /\ UNCHANGED <<state, inner, meta, linkVars>>
    => ClosesOnlyWhenFinished'
BY DEF ClosesOnlyWhenFinished, finished, linkVars

(* Steps that touch neither the documents nor the bindings. *)
QuietAction == kickstart \/ RequestPreflight \/ PreflightResolves
                         \/ PreflightRejects \/ ScheduledRejects

LEMMA QuietStep == Inv /\ (QuietAction \/ UNCHANGED vars) => Inv'
<1> SUFFICES ASSUME Inv, QuietAction \/ UNCHANGED vars PROVE Inv'
  OBVIOUS
<1> USE DEF kickstart, RequestPreflight, PreflightResolves, PreflightRejects,
            ScheduledRejects, QuietAction, vars, bufferVars,
            linkVars, countVars, callVars, propVars
<1>1. TypeOK'
  <2>1. /\ preflight' \in {"none", "pending", "resolved", "rejected"}
        /\ prop' \in {"unset", "preflight", "linked"}
    BY DEF Inv, TypeOK
  <2>5. propValid' \in BOOLEAN
    <3>1. \/ UNCHANGED propValid
          \/ propValid' = (\A l \in Links : meta[l] \in {"none", "rejected"})
      OBVIOUS
    <3>2. (\A l \in Links : meta[l] \in {"none", "rejected"}) \in BOOLEAN
      OBVIOUS
    <3> QED  BY ONLY <3>1, <3>2, Inv, Zenon DEF Inv, TypeOK
  <2>2. reading' \in {"no", "scheduled", "first"} /\ unhandled' \in BOOLEAN
    BY DEF Inv, TypeOK
  <2>3. scheduled' \in 0..MaxScheduled
    <3>1. \/ UNCHANGED scheduled
          \/ scheduled > 0 /\ scheduled' = scheduled - 1
      OBVIOUS
    <3>2. scheduled \in 0..MaxScheduled /\ MaxScheduled \in Nat
      BY BoundsAssumption DEF Inv, TypeOK
    <3> QED  BY ONLY <3>1, <3>2
  <2>4. UNCHANGED <<state, readable, started, buffer, delivered, inner, unread, meta,
                    linkVars, countVars, closingCalls>>
    OBVIOUS
  <2> QED  BY <2>1, <2>2, <2>3, <2>4, <2>5 DEF Inv, TypeOK
<1>2. SlotsAccounted'
  BY SlotsFrame DEF Inv
<1>3. LinksInv'
  <2>1. reading' = "first" => reading = "first"
    OBVIOUS
  <2>2. UNCHANGED <<state, started, inner, meta, linkVars, closingCalls>>
    OBVIOUS
  <2> QED  BY <2>1, <2>2 DEF Inv, LinksInv
<1>4. BindingsInv'
  BY BindingsFrame DEF Inv
<1>5. ClosesOnlyWhenFinished'
  BY ClosesFrame DEF Inv
<1> QED  BY <1>1, <1>2, <1>3, <1>4, <1>5 DEF Inv
-----------------------------------------------------------------------------
(* destroy.                                                                *)
LEMMA EndInnerFacts ==
  ASSUME NEW in, in \in [Links -> InnerStates]
  PROVE  /\ EndInner(in) \in [Links -> InnerStates]
         /\ \A l \in Links : EndInner(in)[l] =
                              IF in[l] = "running" THEN "destroyed" ELSE in[l]
BY DEF EndInner, InnerStates

(* The steps that only destroy the linked iterator. *)
DestroyAction ==
  \/ ConsumerDestroys \/ EagerFetchRejects \/ LinkQueueRejects
  \/ \E l \in Links : InnerFails(l)

LEMMA DestroyStep == Inv /\ DestroyAction => Inv'
<1> SUFFICES ASSUME Inv, DestroyAction PROVE Inv'
  OBVIOUS
<1>1. /\ state' = "destroyed" /\ readable' = FALSE /\ buffer' = {}
      /\ inner' = EndInner(inner)
      /\ \/ closingCalls' = closingCalls
         \/ closingCalls > 0 /\ closingCalls' = closingCalls - 1
      /\ UNCHANGED <<reading, started, delivered, unread, meta, linkVars, countVars,
                     scheduled, unhandled, propVars>>
  <2>1. CASE ConsumerDestroys \/ EagerFetchRejects \/ LinkQueueRejects
    BY <2>1 DEF ConsumerDestroys, EagerFetchRejects, LinkQueueRejects, DestroyWith,
                callVars
  <2>2. CASE \E l \in Links : InnerFails(l)
    BY <2>2 DEF InnerFails, DestroyWith, callVars
  <2> QED  BY <2>1, <2>2 DEF DestroyAction
<1>2. /\ inner' \in [Links -> InnerStates]
      /\ \A l \in Links : inner'[l] = IF inner[l] = "running" THEN "destroyed"
                                        ELSE inner[l]
  BY <1>1, EndInnerFacts DEF Inv, TypeOK
<1>3. TypeOK'
  <2>1. readable' \in BOOLEAN
    BY <1>1
  <2>2. closingCalls' \in Nat
    BY <1>1 DEF Inv, TypeOK
  <2> QED  BY <1>1, <1>2, <2>1, <2>2
           DEF Inv, TypeOK, linkVars, countVars, propVars
<1>4. SlotsAccounted'
  <2>1. creationSlots' = creationSlots /\ terminationSlots' = terminationSlots
    BY <1>1, <1>2 DEF creationSlots, terminationSlots
  <2> QED  BY <1>1, <2>1 DEF Inv, SlotsAccounted, countVars
<1>5. LinksInv'
  BY <1>1, <1>2 DEF Inv, TypeOK, LinksInv, linkVars
<1>6. BindingsInv'
  BY <1>1, <1>2 DEF Inv, TypeOK, BindingsInv, linkVars
<1>7. ClosesOnlyWhenFinished'
  BY <1>1 DEF ClosesOnlyWhenFinished
<1> QED  BY <1>3, <1>4, <1>5, <1>6, <1>7 DEF Inv

(* destroy on behalf of a step that leaves the inner streams as in: either *)
(* it was done already, or the running inner streams are destroyed too.    *)
LEMMA DestroyWithFacts ==
  ASSUME TypeOK, NEW in, in \in [Links -> InnerStates], DestroyWith(in)
  PROVE  /\ inner' \in [Links -> InnerStates]
         /\ readable' \in BOOLEAN
         /\ \/ /\ done /\ UNCHANGED <<state, buffer>> /\ inner' = in
            \/ /\ ~done /\ state' = "destroyed" /\ buffer' = {}
               /\ \A l \in Links : inner'[l] =
                    IF in[l] = "running" THEN "destroyed" ELSE in[l]
<1>1. CASE done
  BY <1>1 DEF DestroyWith, TypeOK
<1>2. CASE ~done
  BY <1>2, EndInnerFacts DEF DestroyWith
<1> QED  BY <1>1, <1>2

(* A source under construction means that nothing ended by itself. *)
LEMMA CreatingMeansNotEnded ==
  ASSUME Inv, NEW l \in Links, inner[l] \in {"creating", "running"}
  PROVE  state \in {"open", "destroyed"} /\ l \in handledUrls
BY DEF Inv, TypeOK, LinksInv, ClosesOnlyWhenFinished, finished

LEMMA FirstSourceRejectsStep == Inv /\ FirstSourceRejects => Inv'
<1> SUFFICES ASSUME Inv, FirstSourceRejects PROVE Inv'
  OBVIOUS
<1> DEFINE in == [inner EXCEPT ![FirstLink] = "failed"]
<1>1. /\ in \in [Links -> InnerStates]
      /\ in[FirstLink] = "failed"
      /\ \A l \in Links \ {FirstLink} : in[l] = inner[l]
  BY LinksAssumption DEF Inv, TypeOK, InnerStates
<1>2. state \in {"open", "destroyed"} /\ FirstLink \in handledUrls
  BY CreatingMeansNotEnded, LinksAssumption DEF FirstSourceRejects
<1>3. DestroyWith(in)
  BY DEF FirstSourceRejects
<1> HIDE DEF in
<1>4. /\ state' = "destroyed" /\ readable' \in BOOLEAN
      /\ inner' \in [Links -> InnerStates]
      /\ buffer' \subseteq buffer
      /\ inner'[FirstLink] = "failed"
      /\ \A l \in Links \ {FirstLink} :
           inner'[l] = inner[l] \/ (inner[l] = "running" /\ inner'[l] = "destroyed")
  BY <1>1, <1>2, <1>3, DestroyWithFacts, LinksAssumption DEF Inv, done
<1>5. /\ inner[FirstLink] = "creating"
      /\ UNCHANGED <<reading, started, delivered, unread, meta, linkVars, countVars,
                     callVars, propVars>>
  BY DEF FirstSourceRejects
<1>6. TypeOK'
  BY <1>4, <1>5 DEF Inv, TypeOK, linkVars, countVars, callVars, propVars
<1>7. SlotsAccounted'
  <2>1. creationSlots' = creationSlots /\ terminationSlots' = terminationSlots
    BY <1>4, <1>5 DEF creationSlots, terminationSlots
  <2> QED  BY <1>5, <2>1 DEF Inv, SlotsAccounted, countVars
<1>8. LinksInv'
  BY <1>4, <1>5, LinksAssumption DEF Inv, TypeOK, LinksInv, linkVars, callVars
<1>9. BindingsInv'
  BY <1>4, <1>5, LinksAssumption DEF Inv, TypeOK, BindingsInv, linkVars
<1>10. ClosesOnlyWhenFinished'
  BY <1>4 DEF ClosesOnlyWhenFinished
<1> QED  BY <1>6, <1>7, <1>8, <1>9, <1>10 DEF Inv

LEMMA AccumulateRejectsStep ==
  ASSUME Inv, NEW l \in Links, AccumulateRejects(l) PROVE Inv'
<1>1. /\ inner[l] \in {"running", "ended", "destroyed"} /\ meta[l] = "none"
      /\ meta' = [meta EXCEPT ![l] = "rejected"]
      /\ DestroyWith(inner)
      /\ UNCHANGED <<reading, started, delivered, unread, linkVars, countVars,
                     callVars, propVars>>
  BY DEF AccumulateRejects
<1>2. state # "ended"
  BY <1>1 DEF Inv, TypeOK, LinksInv, ClosesOnlyWhenFinished, finished
<1>3. /\ state' = "destroyed" /\ readable' \in BOOLEAN
      /\ inner' \in [Links -> InnerStates]
      /\ buffer' \subseteq buffer
      /\ \A k \in Links :
           inner'[k] = inner[k] \/ (inner[k] = "running" /\ inner'[k] = "destroyed")
  BY <1>1, <1>2, DestroyWithFacts DEF Inv, TypeOK, done
<1>4. /\ meta' \in [Links -> MetaStates]
      /\ meta'[l] = "rejected"
      /\ \A k \in Links \ {l} : meta'[k] = meta[k]
  BY <1>1 DEF Inv, TypeOK, MetaStates
<1>5. TypeOK'
  BY <1>1, <1>3, <1>4 DEF Inv, TypeOK, linkVars, countVars, callVars, propVars
<1>6. SlotsAccounted'
  <2>1. creationSlots' = creationSlots /\ terminationSlots' = terminationSlots
    BY <1>1, <1>3, <1>4 DEF creationSlots, terminationSlots
  <2> QED  BY <1>1, <2>1 DEF Inv, SlotsAccounted, countVars
<1>7. LinksInv'
  BY <1>1, <1>3, <1>4 DEF Inv, TypeOK, LinksInv, linkVars, callVars
<1>8. BindingsInv'
  BY <1>1, <1>3 DEF Inv, TypeOK, BindingsInv, linkVars
<1>9. ClosesOnlyWhenFinished'
  BY <1>3 DEF ClosesOnlyWhenFinished
<1> QED  BY <1>5, <1>6, <1>7, <1>8, <1>9 DEF Inv

-----------------------------------------------------------------------------
(* Fetching sources and starting inner streams.                            *)
LEMMA FirstReadStep == Inv /\ FirstRead => Inv'
<1> SUFFICES ASSUME Inv, FirstRead PROVE Inv'
  OBVIOUS
<1> USE LinksAssumption
<1>1. /\ inner[FirstLink] = "none" /\ inner'[FirstLink] = "creating"
      /\ \A l \in Links \ {FirstLink} : inner'[l] = inner[l]
      /\ inner' \in [Links -> InnerStates]
      /\ reading' = "first" /\ started' = TRUE
      /\ state = "open"
      /\ UNCHANGED <<state, readable, buffer, delivered, unread, meta, linkVars,
                     countVars, callVars, propVars>>
  BY DEF FirstRead, closed, Inv, TypeOK, LinksInv, InnerStates
<1>2. TypeOK'
  <2>1. started' \in BOOLEAN
    BY <1>1
  <2> QED  BY <1>1, <2>1 DEF Inv, TypeOK, linkVars, countVars, callVars, propVars
<1>3. SlotsAccounted'
  <2>1. creationSlots' = creationSlots /\ terminationSlots' = terminationSlots
    BY <1>1 DEF creationSlots, terminationSlots
  <2> QED  BY <1>1, <2>1 DEF Inv, SlotsAccounted, countVars
<1>4. LinksInv'
  BY <1>1 DEF Inv, TypeOK, LinksInv, linkVars, callVars
<1>5. BindingsInv'
  BY <1>1 DEF Inv, TypeOK, BindingsInv, linkVars
<1>6. ClosesOnlyWhenFinished'
  BY <1>1 DEF ClosesOnlyWhenFinished
<1> QED  BY <1>2, <1>3, <1>4, <1>5, <1>6 DEF Inv

(* startIterator on a source that was being created. *)
LEMMA StartIteratorFacts ==
  ASSUME Inv, NEW l \in Links, inner[l] = "creating", startIterator(l)
  PROVE  /\ readable' \in BOOLEAN
         /\ state' \in {"open", "destroyed"} /\ l \in handledUrls
         /\ state = "destroyed" => state' = "destroyed"
         /\ inner' \in [Links -> InnerStates]
         /\ \/ inner'[l] = "running" /\ UNCHANGED <<state, buffer>>
            \/ inner'[l] = "failed" /\ state' = "destroyed" /\ UNCHANGED unread
         /\ inner'[l] = "running" =>
              unread' = [unread EXCEPT ![l] = BindingsOf[l]]
         /\ \A k \in Links \ {l} :
              \/ inner'[k] = inner[k]
              \/ inner[k] = "running" /\ inner'[k] = "destroyed" /\ state' = "destroyed"
         /\ buffer' \subseteq buffer
<1> DEFINE in == [inner EXCEPT ![l] = "failed"]
<1>1. state \in {"open", "destroyed"} /\ l \in handledUrls
  BY CreatingMeansNotEnded
<1>2. /\ in \in [Links -> InnerStates]
      /\ in[l] = "failed"
      /\ \A k \in Links \ {l} : in[k] = inner[k]
  BY DEF Inv, TypeOK, InnerStates
<1>3. CASE /\ inner' = [inner EXCEPT ![l] = "running"]
           /\ unread' = [unread EXCEPT ![l] = BindingsOf[l]]
           /\ UNCHANGED <<state, readable, buffer>>
  <2>1. inner' \in [Links -> InnerStates] /\ inner'[l] = "running"
        /\ \A k \in Links \ {l} : inner'[k] = inner[k]
    BY <1>3 DEF Inv, TypeOK, InnerStates
  <2> QED  BY <1>1, <1>3, <2>1 DEF Inv, TypeOK
<1>4. CASE DestroyWith(in) /\ UNCHANGED unread
  <2> HIDE DEF in
  <2> QED  BY <1>1, <1>2, <1>4, DestroyWithFacts DEF Inv, TypeOK, done
<1> QED  BY <1>3, <1>4 DEF startIterator

LEMMA FirstSourceResolvesStep == Inv /\ FirstSourceResolves => Inv'
<1> SUFFICES ASSUME Inv, FirstSourceResolves PROVE Inv'
  OBVIOUS
<1> USE LinksAssumption
<1>1. /\ inner[FirstLink] = "creating" /\ reading' = "no"
      /\ startIterator(FirstLink)
      /\ UNCHANGED <<started, delivered, meta, linkVars, countVars, callVars, propVars>>
  BY DEF FirstSourceResolves
<1>2. /\ readable' \in BOOLEAN
      /\ state' \in {"open", "destroyed"}
      /\ inner' \in [Links -> InnerStates]
      /\ inner'[FirstLink] \in {"running", "failed"}
      /\ \A k \in Links \ {FirstLink} : inner'[k] = inner[k]
      /\ inner'[FirstLink] = "failed" => state' = "destroyed" /\ UNCHANGED unread
      /\ inner'[FirstLink] = "running" =>
           unread' = [unread EXCEPT ![FirstLink] = BindingsOf[FirstLink]]
      /\ state = "destroyed" => state' = "destroyed"
      /\ buffer' \subseteq buffer
      /\ handledUrls = {FirstLink}
      /\ inner'[FirstLink] = "running" => UNCHANGED <<state, buffer>>
  BY <1>1, StartIteratorFacts DEF Inv, LinksInv
<1>3. TypeOK'
  <2>1. unread' \in [Links -> SUBSET Bindings]
    BY <1>2, BindingsAssumption DEF Inv, TypeOK
  <2> QED  BY <1>1, <1>2, <2>1 DEF Inv, TypeOK, linkVars, countVars, callVars, propVars
<1>4. SlotsAccounted'
  <2>1. creationSlots' = creationSlots /\ terminationSlots' = terminationSlots
    BY <1>1, <1>2 DEF creationSlots, terminationSlots
  <2> QED  BY <1>1, <2>1 DEF Inv, SlotsAccounted, countVars
<1>5. LinksInv'
  BY <1>1, <1>2 DEF Inv, TypeOK, LinksInv, linkVars, callVars
<1>6. BindingsInv'
  BY <1>1, <1>2, BindingsAssumption DEF Inv, TypeOK, BindingsInv, linkVars
<1>7. ClosesOnlyWhenFinished'
  BY <1>2 DEF ClosesOnlyWhenFinished
<1> QED  BY <1>3, <1>4, <1>5, <1>6, <1>7 DEF Inv

LEMMA SourceResolvesStep ==
  ASSUME Inv, NEW l \in Links, SourceResolves(l) PROVE Inv'
<1>1. /\ l # FirstLink /\ inner[l] = "creating"
      /\ startIterator(l)
      /\ iteratorsPendingCreation' = iteratorsPendingCreation - 1
      /\ UNCHANGED <<reading, started, delivered, meta, linkVars,
                     iteratorsPendingTermination, callVars, propVars>>
  BY DEF SourceResolves
<1>2. /\ readable' \in BOOLEAN
      /\ state' \in {"open", "destroyed"}
      /\ l \in handledUrls
      /\ inner' \in [Links -> InnerStates]
      /\ inner'[l] \in {"running", "failed"}
      /\ \A k \in Links \ {l} :
           \/ inner'[k] = inner[k]
           \/ inner[k] = "running" /\ inner'[k] = "destroyed" /\ state' = "destroyed"
      /\ inner'[l] = "failed" => state' = "destroyed" /\ UNCHANGED unread
      /\ inner'[l] = "running" => unread' = [unread EXCEPT ![l] = BindingsOf[l]]
      /\ state = "destroyed" => state' = "destroyed"
      /\ buffer' \subseteq buffer
      /\ inner'[l] = "running" => UNCHANGED <<state, buffer>>
  BY <1>1, StartIteratorFacts
<1>3. SlotsAccounted' /\ iteratorsPendingCreation' \in Nat
  <2>1. terminationSlots' = terminationSlots
    BY <1>1, <1>2 DEF terminationSlots
  <2>2. l \in creationSlots /\ creationSlots' = creationSlots \ {l}
    BY <1>1, <1>2 DEF creationSlots
  <2>3. Cardinality(creationSlots') = Cardinality(creationSlots) - 1
    BY <2>2, SlotSetsFinite, RemoveOne
  <2>4. Cardinality(creationSlots') \in Nat
    BY <2>2, SlotSetsFinite, FS_Subset, FS_CardinalityType
  <2> QED  BY <1>1, <2>1, <2>3, <2>4 DEF Inv, SlotsAccounted
<1>4. TypeOK'
  <2>1. unread' \in [Links -> SUBSET Bindings]
    BY <1>2, BindingsAssumption DEF Inv, TypeOK
  <2> QED  BY <1>1, <1>2, <1>3, <2>1 DEF Inv, TypeOK, linkVars, callVars, propVars
<1>5. LinksInv'
  BY <1>1, <1>2, LinksAssumption DEF Inv, TypeOK, LinksInv, linkVars, callVars
<1>6. BindingsInv'
  BY <1>1, <1>2, BindingsAssumption DEF Inv, TypeOK, BindingsInv, linkVars
<1>7. ClosesOnlyWhenFinished'
  BY <1>2 DEF ClosesOnlyWhenFinished
<1> QED  BY <1>3, <1>4, <1>5, <1>6, <1>7 DEF Inv

LEMMA SourceRejectsStep ==
  ASSUME Inv, NEW l \in Links, SourceRejects(l) PROVE Inv'
<1>1. /\ l # FirstLink /\ inner[l] = "creating" /\ inner'[l] = "rejected"
      /\ \A k \in Links \ {l} : inner'[k] = inner[k]
      /\ inner' \in [Links -> InnerStates]
      /\ UNCHANGED <<bufferVars, unread, meta, linkVars, countVars, callVars, propVars>>
  BY DEF SourceRejects, Inv, TypeOK, InnerStates
<1>2. TypeOK'
  BY <1>1 DEF Inv, TypeOK, bufferVars, linkVars, countVars, callVars, propVars
<1>3. SlotsAccounted'
  <2>1. creationSlots' = creationSlots /\ terminationSlots' = terminationSlots
    BY <1>1 DEF creationSlots, terminationSlots
  <2> QED  BY <1>1, <2>1 DEF Inv, SlotsAccounted, countVars
<1>4. LinksInv'
  BY <1>1, LinksAssumption DEF Inv, TypeOK, LinksInv, bufferVars, linkVars, callVars
<1>5. BindingsInv'
  BY <1>1 DEF Inv, TypeOK, BindingsInv, bufferVars, linkVars
<1>6. ClosesOnlyWhenFinished'
  BY <1>1, CreatingMeansNotEnded DEF ClosesOnlyWhenFinished, bufferVars
<1> QED  BY <1>2, <1>3, <1>4, <1>5, <1>6 DEF Inv

LEMMA InnerEndsStep ==
  ASSUME Inv, NEW l \in Links, InnerEnds(l) PROVE Inv'
<1>1. /\ inner[l] = "running" /\ unread[l] = {} /\ inner'[l] = "ended"
      /\ \A k \in Links \ {l} : inner'[k] = inner[k]
      /\ inner' \in [Links -> InnerStates]
      /\ UNCHANGED <<bufferVars, unread, meta, linkVars, iteratorsPendingCreation,
                     scheduled, unhandled, propVars>>
  BY DEF InnerEnds, Inv, TypeOK, InnerStates
<1>2. \/ /\ meta[l] = "received" /\ closingCalls' = closingCalls + 1
         /\ UNCHANGED iteratorsPendingTermination
      \/ /\ meta[l] # "received" /\ UNCHANGED closingCalls
         /\ iteratorsPendingTermination' = iteratorsPendingTermination + 1
  BY DEF InnerEnds, receivedMetadata
<1>3. TypeOK'
  <2>1. closingCalls' \in Nat /\ iteratorsPendingTermination' \in Nat
    BY <1>2 DEF Inv, TypeOK
  <2> QED  BY <1>1, <2>1 DEF Inv, TypeOK, bufferVars, linkVars, propVars
<1>4. SlotsAccounted'
  <2>1. creationSlots' = creationSlots
    BY <1>1 DEF creationSlots
  <2>2. CASE meta[l] = "received"
    <3>1. terminationSlots' = terminationSlots
      BY <1>1, <2>2 DEF terminationSlots
    <3> QED  BY <1>1, <1>2, <2>1, <2>2, <3>1 DEF Inv, SlotsAccounted
  <2>3. CASE meta[l] # "received"
    <3>1. l \notin terminationSlots /\ terminationSlots' = terminationSlots \cup {l}
      BY <1>1, <2>3 DEF terminationSlots
    <3>2. Cardinality(terminationSlots') = Cardinality(terminationSlots) + 1
      BY <3>1, SlotSetsFinite, AddOne
    <3> QED  BY <1>1, <1>2, <2>1, <2>3, <3>2 DEF Inv, SlotsAccounted
  <2> QED  BY <2>2, <2>3
<1>5. LinksInv'
  BY <1>1, <1>2 DEF Inv, TypeOK, LinksInv, bufferVars, linkVars
<1>6. BindingsInv'
  BY <1>1 DEF Inv, TypeOK, BindingsInv, bufferVars, linkVars
<1>7. ClosesOnlyWhenFinished'
  BY <1>1, CreatingMeansNotEnded DEF ClosesOnlyWhenFinished, bufferVars
<1> QED  BY <1>3, <1>4, <1>5, <1>6, <1>7 DEF Inv

-----------------------------------------------------------------------------
(* Metadata and links.                                                     *)
LEMMA AccumulateMetadataStep ==
  ASSUME Inv, NEW l \in Links, AccumulateMetadata(l) PROVE Inv'
<1>1. /\ inner[l] \in {"running", "ended", "destroyed"} /\ meta[l] = "none"
      /\ meta'[l] = "resolving"
      /\ \A k \in Links \ {l} : meta'[k] = meta[k]
      /\ meta' \in [Links -> MetaStates]
      /\ prop' = "linked" /\ propValid' = TRUE
      /\ UNCHANGED <<bufferVars, inner, unread, linkVars, countVars, callVars, preflight>>
  BY DEF AccumulateMetadata, Inv, TypeOK, MetaStates
<1>2. TypeOK'
  <2>1. propValid' \in BOOLEAN
    BY <1>1
  <2> QED  BY <1>1, <2>1 DEF Inv, TypeOK, bufferVars, linkVars, countVars, callVars
<1>3. SlotsAccounted'
  <2>1. creationSlots' = creationSlots /\ terminationSlots' = terminationSlots
    BY <1>1 DEF creationSlots, terminationSlots
  <2> QED  BY <1>1, <2>1 DEF Inv, SlotsAccounted, countVars
<1>4. LinksInv'
  BY <1>1 DEF Inv, TypeOK, LinksInv, bufferVars, linkVars, callVars
<1>5. BindingsInv'
  BY <1>1, BindingsFrame DEF Inv, bufferVars, linkVars
<1>6. ClosesOnlyWhenFinished'
  BY <1>1 DEF Inv, TypeOK, LinksInv, ClosesOnlyWhenFinished, finished, bufferVars, linkVars
<1> QED  BY <1>2, <1>3, <1>4, <1>5, <1>6 DEF Inv

LEMMA ReceiveLinksStep ==
  ASSUME Inv, NEW l \in Links, ReceiveLinks(l) PROVE Inv'
<1>1. /\ meta[l] = "resolving" /\ meta'[l] = "received"
      /\ \A k \in Links \ {l} : meta'[k] = meta[k]
      /\ meta' \in [Links -> MetaStates]
      /\ linkQueue' = linkQueue \cup (NextLinks[l] \ handledUrls)
      /\ handledUrls' = handledUrls \cup (NextLinks[l] \ handledUrls)
      /\ closingCalls' = closingCalls + 1
      /\ UNCHANGED <<bufferVars, inner, unread, iteratorsPendingCreation, scheduled,
                     unhandled, propVars>>
  BY DEF ReceiveLinks, newLinks, Inv, TypeOK, MetaStates
<1>2. iteratorsPendingTermination' =
        iteratorsPendingTermination - (IF inner[l] = "ended" THEN 1 ELSE 0)
  BY DEF ReceiveLinks, receivedEndEvent
<1>3. NextLinks[l] \subseteq Links
  BY LinksAssumption
<1>4. /\ SlotsAccounted'
      /\ iteratorsPendingTermination' \in Nat
  <2>1. creationSlots' = creationSlots
    BY <1>1 DEF creationSlots
  <2>2. CASE inner[l] = "ended"
    <3>1. l \in terminationSlots /\ terminationSlots' = terminationSlots \ {l}
      BY <1>1, <2>2 DEF terminationSlots
    <3>2. Cardinality(terminationSlots') = Cardinality(terminationSlots) - 1
      BY <3>1, SlotSetsFinite, RemoveOne
    <3>3. Cardinality(terminationSlots') \in Nat
      BY <3>1, SlotSetsFinite, FS_Subset, FS_CardinalityType
    <3> QED  BY <1>1, <1>2, <2>1, <2>2, <3>2, <3>3 DEF Inv, SlotsAccounted
  <2>3. CASE inner[l] # "ended"
    <3>1. terminationSlots' = terminationSlots
      BY <1>1, <2>3 DEF terminationSlots
    <3> QED  BY <1>1, <1>2, <2>1, <2>3, <3>1 DEF Inv, TypeOK, SlotsAccounted
  <2> QED  BY <2>2, <2>3
<1>5. TypeOK'
  BY <1>1, <1>3, <1>4 DEF Inv, TypeOK, bufferVars, propVars
<1>6. LinksInv'
  <2>1. inner[l] \in {"running", "ended", "destroyed"}
    BY <1>1 DEF Inv, LinksInv
  <2>2. \A k \in linkQueue' : inner[k] = "none" /\ k # FirstLink
    BY <1>1, <1>3 DEF Inv, LinksInv
  <2>3. \A k \in Links : meta'[k] = "received" => NextLinks[k] \subseteq handledUrls'
    BY <1>1 DEF Inv, LinksInv
  <2>4. inner[FirstLink] \notin {"none", "creating"}
    BY <1>1, <2>1, LinksAssumption DEF Inv, LinksInv
  <2> QED  BY <1>1, <2>1, <2>2, <2>3, <2>4 DEF Inv, TypeOK, LinksInv, bufferVars
<1>7. BindingsInv'
  BY <1>1 DEF Inv, BindingsInv, bufferVars
<1>8. ClosesOnlyWhenFinished'
  BY <1>1 DEF Inv, TypeOK, LinksInv, ClosesOnlyWhenFinished, finished, bufferVars
<1> QED  BY <1>4, <1>5, <1>6, <1>7, <1>8 DEF Inv

-----------------------------------------------------------------------------
(* The buffer.                                                             *)
LEMMA ConsumerReadsStep == Inv /\ ConsumerReads => Inv'
<1> SUFFICES ASSUME Inv, ConsumerReads PROVE Inv'
  OBVIOUS
<1>1. /\ ~done
      /\ UNCHANGED <<started, unread, meta, linkVars, countVars, callVars, propVars>>
  BY DEF ConsumerReads
<1>2. /\ readable' \in BOOLEAN
      /\ buffer' \subseteq buffer
      /\ delivered' \subseteq buffer \cup delivered
      /\ delivered \subseteq delivered'
      /\ buffer' \cup delivered' = buffer \cup delivered
      /\ buffer' \cap delivered' = {}
  <2>1. CASE buffer = {}
    <3>1. readable' = FALSE /\ UNCHANGED <<buffer, delivered>>
      BY <2>1 DEF ConsumerReads
    <3>2. readable' \in BOOLEAN
      BY <3>1
    <3> QED  BY <3>1, <3>2 DEF Inv, BindingsInv
  <2>2. CASE buffer # {}
    <3>1. PICK b \in buffer : /\ buffer' = buffer \ {b}
                              /\ delivered' = delivered \cup {b}
                              /\ UNCHANGED readable
      BY <2>2 DEF ConsumerReads
    <3>2. readable' \in BOOLEAN
      BY <3>1 DEF Inv, TypeOK
    <3> QED  BY <3>1, <3>2 DEF Inv, BindingsInv
  <2> QED  BY <2>1, <2>2
<1>3. \/ ~closed /\ reading = "no" /\ reading' = "scheduled" /\ UNCHANGED <<state, inner>>
      \/ UNCHANGED <<reading, state, inner>>
      \/ /\ closed /\ state' = "ended" /\ inner' = EndInner(inner)
         /\ UNCHANGED reading
  BY DEF ConsumerReads
<1>4. /\ UNCHANGED inner /\ state' \in {state, "ended"}
      /\ state' # state => state \in {"closing", "closed"}
  <2>1. CASE closed /\ state' = "ended" /\ inner' = EndInner(inner)
    <3>1. state \in {"closing", "closed"}
      BY <1>1, <2>1 DEF closed, done
    <3>2. \A l \in Links : inner[l] # "running"
      BY <3>1 DEF Inv, TypeOK, LinksInv, ClosesOnlyWhenFinished, finished
    <3>3. EndInner(inner) = inner
      BY <3>2 DEF EndInner, Inv, TypeOK
    <3> QED  BY <2>1, <3>1, <3>3
  <2> QED  BY <1>3, <2>1 DEF Inv, TypeOK
<1>5. reading' \in {reading, "scheduled"}
  BY <1>3
<1>6. TypeOK'
  BY <1>1, <1>2, <1>4, <1>5 DEF Inv, TypeOK, linkVars, countVars, callVars, propVars
<1>7. SlotsAccounted'
  BY <1>1, <1>4, SlotsFrame DEF Inv
<1>8. LinksInv'
  <2>1. state = "destroyed" => state' = "destroyed"
    BY <1>1 DEF done
  <2>2. reading' = "first" => reading = "first"
    BY <1>5 DEF Inv, TypeOK
  <2> QED  BY <1>1, <1>4, <2>1, <2>2 DEF Inv, LinksInv, linkVars, callVars
<1>9. BindingsInv'
  <2>1. state' = "ended" => buffer' = {}
    BY <1>1 DEF ConsumerReads, done
  <2>2. state' # "destroyed" => state # "destroyed"
    BY <1>1 DEF done
  <2> QED  BY <1>1, <1>2, <1>4, <2>1, <2>2 DEF Inv, BindingsInv, linkVars
<1>10. ClosesOnlyWhenFinished'
  BY <1>1, <1>4 DEF Inv, ClosesOnlyWhenFinished, finished, linkVars
<1> QED  BY <1>6, <1>7, <1>8, <1>9, <1>10 DEF Inv

LEMMA ScheduledFillClosedStep == Inv /\ ScheduledFillClosed => Inv'
<1> SUFFICES ASSUME Inv, ScheduledFillClosed PROVE Inv'
  OBVIOUS
<1>1. /\ reading' = "no" /\ closed /\ state' = ClosedState
      /\ UNCHANGED <<readable, started, buffer, delivered, unread, meta, linkVars,
                     countVars, callVars, propVars>>
  BY DEF ScheduledFillClosed
<1>2. /\ state' \in {state, "closed", "ended"}
      /\ state' # state => state = "closing"
      /\ state' \in {"closing", "closed", "ended", "destroyed"}
  BY <1>1 DEF ClosedState, closed, Inv, TypeOK
<1>3. UNCHANGED inner
  <2>1. CASE state' = "ended"
    <3>1. \A l \in Links : inner[l] # "running"
      BY <1>2, <2>1 DEF Inv, TypeOK, LinksInv, ClosesOnlyWhenFinished, finished
    <3>2. EndInner(inner) = inner
      BY <3>1 DEF EndInner, Inv, TypeOK
    <3> QED  BY <2>1, <3>2 DEF ScheduledFillClosed
  <2> QED  BY <2>1 DEF ScheduledFillClosed
<1>4. TypeOK'
  BY <1>1, <1>2, <1>3 DEF Inv, TypeOK, linkVars, countVars, callVars, propVars
<1>5. SlotsAccounted'
  BY <1>1, <1>3, SlotsFrame DEF Inv
<1>6. LinksInv'
  BY <1>1, <1>2, <1>3 DEF Inv, LinksInv, linkVars, callVars
<1>7. BindingsInv'
  <2>1. state' = "ended" => buffer' = {}
    BY <1>1 DEF ClosedState, closed, Inv, BindingsInv
  <2>2. state' # "destroyed" => state # "destroyed"
    BY <1>2
  <2> QED  BY <1>1, <1>3, <2>1, <2>2 DEF Inv, BindingsInv, linkVars
<1>8. ClosesOnlyWhenFinished'
  BY <1>1, <1>2, <1>3 DEF Inv, ClosesOnlyWhenFinished, finished, linkVars
<1> QED  BY <1>4, <1>5, <1>6, <1>7, <1>8 DEF Inv

LEMMA FillStep ==
  ASSUME Inv, NEW batch, InnerReadable(batch) \/ ScheduledFill(batch) PROVE Inv'
<1>1. /\ ~closed
      /\ ReadFromIterators(batch)
      /\ UNCHANGED <<delivered, meta, linkVars, countVars, closingCalls, unhandled,
                     propVars>>
  BY DEF InnerReadable, ScheduledFill
<1>2. /\ batch \subseteq UNION {unread[l] : l \in currentIterators}
      /\ buffer' = buffer \cup batch
      /\ unread' = [l \in Links |-> unread[l] \ batch]
      /\ reading' \in {"no", "scheduled"}
      /\ UNCHANGED <<state, started, inner>>
  BY <1>1 DEF ReadFromIterators, LockAfterFill
<1>3. /\ \/ UNCHANGED scheduled
         \/ scheduled < MaxScheduled /\ scheduled' = scheduled + 1
      /\ readable' = (readable \/ batch # {})
  BY <1>1 DEF ReadFromIterators
<1>4. \A b \in batch : \E l \in Links : /\ l \in handledUrls
                                        /\ inner[l] \in {"running", "destroyed"}
                                        /\ b \in unread[l]
                                        /\ b \in BindingsOf[l]
                                        /\ b \notin buffer \cup delivered
  BY <1>2 DEF currentIterators, Inv, LinksInv, BindingsInv
<1>5. batch \subseteq Bindings
  BY <1>4, BindingsAssumption
<1>6. TypeOK'
  <2>1. readable' \in BOOLEAN
    BY <1>3
  <2>2. scheduled' \in 0..MaxScheduled
    <3>1. scheduled \in 0..MaxScheduled /\ MaxScheduled \in Nat
      BY BoundsAssumption DEF Inv, TypeOK
    <3> QED  BY ONLY <1>3, <3>1
  <2>3. buffer' \subseteq Bindings /\ unread' \in [Links -> SUBSET Bindings]
    BY <1>2, <1>5 DEF Inv, TypeOK
  <2> QED  BY <1>1, <1>2, <2>1, <2>2, <2>3
           DEF Inv, TypeOK, linkVars, countVars, propVars
<1>7. SlotsAccounted'
  BY <1>1, <1>2, SlotsFrame DEF Inv
<1>8. LinksInv'
  BY <1>1, <1>2 DEF Inv, LinksInv, linkVars
<1>9. BindingsInv'
  <2>1. buffer' \cap delivered' = {}
    BY <1>1, <1>2, <1>4 DEF Inv, BindingsInv
  <2>2. \A l \in Links :
          /\ unread'[l] \subseteq BindingsOf[l] \ (buffer' \cup delivered')
          /\ inner'[l] = "ended" => unread'[l] = {}
    BY <1>1, <1>2 DEF Inv, BindingsInv
  <2>3. \A b \in buffer' \cup delivered' :
          \E l \in handledUrls' : inner'[l] # "none" /\ b \in BindingsOf[l]
    BY <1>1, <1>2, <1>4 DEF Inv, BindingsInv, linkVars
  <2>4. \A l \in Links : state' # "destroyed" /\ inner'[l] \in {"running", "ended"} =>
          BindingsOf[l] \subseteq unread'[l] \cup buffer' \cup delivered'
    BY <1>1, <1>2 DEF Inv, BindingsInv
  <2>5. ASSUME NEW l \in Links, inner'[l] \in {"none", "creating", "rejected"}
        PROVE  BindingsOf[l] \cap (buffer' \cup delivered') = {}
    <3>1. BindingsOf[l] \cap (buffer \cup delivered) = {}
      BY <1>2, <2>5 DEF Inv, BindingsInv
    <3>2. BindingsOf[l] \cap batch = {}
      BY <1>2, <1>4, <2>5, BindingsAssumption
    <3> QED  BY <1>1, <1>2, <3>1, <3>2
  <2>6. state' # "ended"
    BY <1>1, <1>2 DEF closed
  <2> QED  BY <2>1, <2>2, <2>3, <2>4, <2>5, <2>6 DEF BindingsInv
<1>10. ClosesOnlyWhenFinished'
  BY <1>1, <1>2, ClosesFrame DEF Inv, TypeOK
<1> QED  BY <1>6, <1>7, <1>8, <1>9, <1>10 DEF Inv

-----------------------------------------------------------------------------
(* startIteratorsForNextUrls.                                              *)

(* When the queue is empty and no slot is in use, nothing is left to do.   *)
LEMMA CloseableMeansFinished ==
  ASSUME Inv, ~closed, closingCalls > 0, isCloseable
  PROVE  \A l \in handledUrls : finished(l)
<1>1. /\ linkQueue = {}
      /\ ~(Cardinality(currentIterators) + iteratorsPendingCreation
             + iteratorsPendingTermination > 0)
  BY DEF isCloseable, areIteratorsRunning, iteratorsInUse
<1>2. /\ Cardinality(currentIterators) = 0
      /\ Cardinality(creationSlots) = 0
      /\ Cardinality(terminationSlots) = 0
  BY <1>1, SlotSetsFinite DEF Inv, SlotsAccounted
<1>3. currentIterators = {} /\ creationSlots = {} /\ terminationSlots = {}
  BY <1>2, SlotSetsFinite, FS_EmptySet
<1>4. inner[FirstLink] \notin {"none", "creating"}
  BY DEF Inv, TypeOK, LinksInv
<1>5. ASSUME NEW l \in handledUrls PROVE finished(l)
  <2>1. l \in Links /\ inner[l] # "none"
    BY <1>1, <1>4 DEF Inv, TypeOK, LinksInv
  <2>2. inner[l] \notin {"creating", "rejected"}
    <3>1. CASE l = FirstLink
      <4>1. inner[l] # "rejected"
        BY <3>1 DEF Inv, LinksInv
      <4> QED  BY <1>4, <3>1, <4>1
    <3>2. CASE l # FirstLink
      BY <1>3, <2>1, <3>2 DEF creationSlots
    <3> QED  BY <3>1, <3>2
  <2>3. inner[l] \notin {"running", "destroyed"}
    BY <1>3, <2>1 DEF currentIterators
  <2>4. inner[l] # "failed"
    BY <2>1 DEF Inv, LinksInv, closed
  <2>5. inner[l] = "ended"
    BY <2>1, <2>2, <2>3, <2>4 DEF Inv, TypeOK, InnerStates
  <2> QED  BY <1>3, <2>1, <2>5 DEF terminationSlots, finished
<1> QED  BY <1>5

LEMMA StartStep ==
  ASSUME Inv, NEW s, ClosingCall(s) \/ ScheduledCall(s) PROVE Inv'
<1>1. PICK canClose \in BOOLEAN :
        /\ startIteratorsForNextUrls(canClose, s)
        /\ UNCHANGED unhandled
        /\ IF canClose
           THEN closingCalls > 0 /\ closingCalls' = closingCalls - 1 /\ UNCHANGED scheduled
           ELSE scheduled > 0 /\ scheduled' = scheduled - 1 /\ UNCHANGED closingCalls
  BY DEF ClosingCall, ScheduledCall
<1>2. /\ s \subseteq linkQueue
      /\ linkQueue' = linkQueue \ s
      /\ iteratorsPendingCreation' = iteratorsPendingCreation + Cardinality(s)
      /\ UNCHANGED <<reading, readable, started, buffer, delivered, unread, meta,
                     handledUrls, iteratorsPendingTermination, propVars>>
  BY <1>1 DEF startIteratorsForNextUrls
<1>3. IsFiniteSet(s) /\ Cardinality(s) \in Nat
  BY <1>2, LinksAssumption, FS_Subset, FS_CardinalityType DEF Inv, TypeOK
<1>4. closingCalls' \in Nat /\ scheduled' \in 0..MaxScheduled
  <2>1. scheduled \in 0..MaxScheduled /\ closingCalls \in Nat /\ MaxScheduled \in Nat
    BY BoundsAssumption DEF Inv, TypeOK
  <2> QED  BY ONLY <1>1, <2>1
<1>5. closingCalls' # closingCalls => closingCalls > 0
  BY <1>1
<1>6. CASE canClose /\ s = {} /\ isCloseable
  <2>1. /\ close
        /\ inner' = IF state' = "ended" THEN EndInner(inner) ELSE inner
    BY <1>1, <1>6 DEF startIteratorsForNextUrls
  <2>2. \/ UNCHANGED state
        \/ /\ ~closed /\ state' \in {"closing", "closed", "ended"}
           /\ \A l \in handledUrls : finished(l)
    BY <1>1, <1>6, <2>1, CloseableMeansFinished DEF close, ClosedState, closed
  <2>3. linkQueue = {} /\ linkQueue' = {}
    BY <1>2, <1>6 DEF isCloseable
  <2>4. state' = "ended" => \A l \in handledUrls : finished(l)
    BY <2>2 DEF Inv, ClosesOnlyWhenFinished
  <2>5. UNCHANGED inner
    <3>1. CASE state' = "ended"
      <4>1. \A l \in Links : inner[l] # "running"
        BY <2>4, <3>1 DEF Inv, LinksInv, finished
      <4>2. EndInner(inner) = inner
        BY <4>1 DEF EndInner, Inv, TypeOK
      <4> QED  BY <2>1, <3>1, <4>2
    <3> QED  BY <2>1, <3>1
  <2>6. UNCHANGED <<linkQueue, iteratorsPendingCreation>>
    BY <1>2, <1>6, <2>3, FS_EmptySet DEF Inv, TypeOK
  <2>7. state = "destroyed" => state' = "destroyed"
    BY <2>2 DEF closed
  <2>8. TypeOK'
    BY <1>2, <1>4, <1>1, <2>2, <2>5, <2>6 DEF Inv, TypeOK, propVars
  <2>9. SlotsAccounted'
    BY <1>2, <2>5, <2>6, SlotsFrame DEF Inv, countVars
  <2>10. LinksInv'
    BY <1>2, <1>4, <1>5, <2>5, <2>6, <2>7 DEF Inv, TypeOK, LinksInv
  <2>11. BindingsInv'
    <3>1. state' = "ended" => buffer' = {}
      BY <1>2, <2>1 DEF close, ClosedState, closed, Inv, BindingsInv
    <3> QED  BY <1>2, <2>5, <2>7, <3>1 DEF Inv, BindingsInv
  <2>12. ClosesOnlyWhenFinished'
    BY <1>2, <2>2, <2>3, <2>5 DEF Inv, ClosesOnlyWhenFinished, finished
  <2> QED  BY <2>8, <2>9, <2>10, <2>11, <2>12 DEF Inv
<1>7. CASE ~(canClose /\ s = {} /\ isCloseable)
  <2>1. /\ inner' = [l \in Links |-> IF l \in s THEN "creating" ELSE inner[l]]
        /\ UNCHANGED state
    BY <1>1, <1>7 DEF startIteratorsForNextUrls
  <2>2. /\ inner' \in [Links -> InnerStates]
        /\ \A l \in Links : inner'[l] = IF l \in s THEN "creating" ELSE inner[l]
    BY <2>1 DEF Inv, TypeOK, InnerStates
  <2>3. \A l \in s : /\ l \in Links /\ l # FirstLink /\ inner[l] = "none"
                     /\ l \in handledUrls
    BY <1>2 DEF Inv, LinksInv, TypeOK
  <2>4. TypeOK'
    BY <1>1, <1>2, <1>3, <1>4, <2>1, <2>2 DEF Inv, TypeOK, propVars
  <2>5. SlotsAccounted'
    <3>1. terminationSlots' = terminationSlots
      BY <1>2, <2>2, <2>3 DEF terminationSlots
    <3>2. creationSlots \cap s = {} /\ creationSlots' = creationSlots \cup s
      BY <2>2, <2>3 DEF creationSlots
    <3>3. Cardinality(creationSlots') = Cardinality(creationSlots) + Cardinality(s)
      BY <1>3, <3>2, SlotSetsFinite, AddSet
    <3> QED  BY <1>2, <3>1, <3>3 DEF Inv, SlotsAccounted
  <2>6. LinksInv'
    <3>1. inner'[FirstLink] = inner[FirstLink]
      BY <2>2, <2>3, LinksAssumption
    <3>2. inner[FirstLink] \in {"none", "creating"} => closingCalls' = 0
      BY <1>5 DEF Inv, LinksInv
    <3> QED  BY <1>2, <2>1, <2>2, <2>3, <3>1, <3>2 DEF Inv, TypeOK, LinksInv
  <2>7. BindingsInv'
    <3>1. UNCHANGED state
      BY <2>1
    <3>2. /\ UNCHANGED <<buffer, delivered, unread, handledUrls>>
          /\ handledUrls \subseteq Links
      BY <1>2 DEF Inv, TypeOK
    <3>3. \A l \in Links :
            \/ inner'[l] = inner[l]
            \/ inner[l] = "none" /\ inner'[l] = "creating"
      <4> TAKE l \in Links
      <4>1. CASE l \in s
        BY <2>2, <2>3, <4>1
      <4>2. CASE l \notin s
        BY <2>2, <4>2
      <4> QED  BY <4>1, <4>2
    <3> QED  BY <3>1, <3>2, <3>3 DEF Inv, BindingsInv
  <2>8. ClosesOnlyWhenFinished'
    <3>1. state \in {"closing", "closed", "ended"} => s = {}
      BY <1>2 DEF Inv, ClosesOnlyWhenFinished
    <3> QED  BY <1>2, <2>1, <2>2, <3>1
             DEF Inv, TypeOK, ClosesOnlyWhenFinished, finished
  <2> QED  BY <2>4, <2>5, <2>6, <2>7, <2>8 DEF Inv
<1> QED  BY <1>6, <1>7

-----------------------------------------------------------------------------
LEMMA InvStep == Inv /\ [Next]_vars => Inv'
<1> SUFFICES ASSUME Inv, [Next]_vars PROVE Inv'
  OBVIOUS
<1>1. CASE Progress
  BY <1>1, ConsumerReadsStep, ScheduledFillClosedStep, QuietStep, FirstReadStep,
     FirstSourceResolvesStep, SourceResolvesStep, InnerEndsStep,
     AccumulateMetadataStep, ReceiveLinksStep, StartStep
  DEF Progress, QuietAction
<1>2. CASE Fills
  BY <1>2, FillStep DEF Fills
<1>3. CASE Failures
  BY <1>3, DestroyStep, FirstSourceRejectsStep, QuietStep, SourceRejectsStep,
     AccumulateRejectsStep
  DEF Failures, DestroyAction, QuietAction
<1>4. CASE Consumer
  BY <1>4, QuietStep, DestroyStep DEF Consumer, QuietAction, DestroyAction
<1>5. CASE Preflight
  BY <1>5, QuietStep DEF Preflight, QuietAction
<1>6. CASE UNCHANGED vars
  BY <1>6, QuietStep
<1> QED  BY <1>1, <1>2, <1>3, <1>4, <1>5, <1>6 DEF Next

LEMMA Invariance == Spec => []Inv
BY InitInv, InvStep, PTL DEF Spec

(* The state of a linked iterator has the shape its code gives it.         *)
THEOREM TypeCorrect == Spec => []TypeOK
<1>1. Inv => TypeOK
  BY DEF Inv
<1> QED  BY <1>1, Invariance, PTL

(* A slot of the linked iterator is held exactly for the sources that are  *)
(* being created or failed to be, and for the inner streams that ended     *)
(* before their links were known: for any number of documents.             *)
THEOREM SlotsCorrect == Spec => []SlotsAccounted
<1>1. Inv => SlotsAccounted
  BY DEF Inv
<1> QED  BY <1>1, Invariance, PTL

(* The linked iterator never closes while a document it knows of is still  *)
(* queued, being fetched, being read or not yet asked for its links.       *)
THEOREM ClosingCorrect == Spec => []ClosesOnlyWhenFinished
<1>1. Inv => ClosesOnlyWhenFinished
  BY DEF Inv
<1> QED  BY <1>1, Invariance, PTL

-----------------------------------------------------------------------------
(* What a step may do to one inner stream, to the state and to the         *)
(* delivered bindings.                                                     *)
LEMMA StepShape ==
  ASSUME Inv, [Next]_vars
  PROVE  /\ \A l \in Links : inner'[l] = "creating" => inner[l] \in {"none", "creating"}
         /\ done => UNCHANGED state
         /\ ConsumerReads \/ UNCHANGED delivered
         /\ UNCHANGED handledUrls \/ \E l \in Links : ReceiveLinks(l)
<1> DEFINE Shape ==
      /\ \A l \in Links : inner'[l] = "creating" => inner[l] \in {"none", "creating"}
      /\ done => UNCHANGED state
      /\ ConsumerReads \/ UNCHANGED delivered
      /\ UNCHANGED handledUrls \/ \E l \in Links : ReceiveLinks(l)
<1> USE DEF Shape, bufferVars, linkVars
<1>1. ASSUME NEW in, in \in [Links -> InnerStates], DestroyWith(in)
      PROVE  /\ \A l \in Links : inner'[l] = "creating" => in[l] = "creating"
             /\ done => UNCHANGED state
  BY <1>1, DestroyWithFacts DEF Inv, TypeOK
<1>2. \A l \in Links : EndInner(inner)[l] = "creating" => inner[l] = "creating"
  BY EndInnerFacts DEF Inv, TypeOK
<1>3. CASE QuietAction \/ UNCHANGED vars
  BY <1>3 DEF QuietAction, kickstart, RequestPreflight, PreflightResolves,
              PreflightRejects, ScheduledRejects, vars
<1>4. CASE DestroyAction
  BY <1>1, <1>4 DEF DestroyAction, ConsumerDestroys, EagerFetchRejects,
                    LinkQueueRejects, InnerFails, Inv, TypeOK
<1>5. CASE FirstSourceRejects
  <2> DEFINE in == [inner EXCEPT ![FirstLink] = "failed"]
  <2>1. in \in [Links -> InnerStates]
        /\ \A l \in Links : in[l] = "creating" => inner[l] = "creating"
    BY DEF Inv, TypeOK, InnerStates
  <2>2. DestroyWith(in) /\ UNCHANGED <<delivered, handledUrls>>
    BY <1>5 DEF FirstSourceRejects
  <2> HIDE DEF in
  <2> QED  BY <1>1, <2>1, <2>2
<1>6. ASSUME NEW l \in Links, AccumulateRejects(l) PROVE Shape
  BY <1>1, <1>6 DEF AccumulateRejects, Inv, TypeOK
<1>7. CASE FirstRead \/ ScheduledFillClosed
  <2>1. done => ClosedState = state
    BY DEF ClosedState, closed, done
  <2>2. CASE FirstRead
    BY <2>2, LinksAssumption DEF FirstRead, closed, done, Inv, LinksInv, TypeOK
  <2>3. CASE ScheduledFillClosed
    BY <1>2, <2>1, <2>3 DEF ScheduledFillClosed
  <2> QED  BY <1>7, <2>2, <2>3
<1>8. ASSUME NEW l \in Links, inner[l] = "creating", startIterator(l)
      PROVE  /\ \A k \in Links : inner'[k] = "creating" => inner[k] \in {"none", "creating"}
             /\ done => UNCHANGED state
  <2>1. /\ inner'[l] \in {"running", "failed"}
        /\ \A k \in Links \ {l} : inner'[k] = inner[k] \/ inner'[k] = "destroyed"
        /\ state = "destroyed" => state' = "destroyed"
    BY <1>8, StartIteratorFacts
  <2>2. state # "ended"
    BY <1>8, CreatingMeansNotEnded
  <2> QED  BY <2>1, <2>2 DEF done
<1>9. CASE FirstSourceResolves
  BY <1>8, <1>9, LinksAssumption DEF FirstSourceResolves
<1>10. ASSUME NEW l \in Links, SourceResolves(l) PROVE Shape
  BY <1>8, <1>10 DEF SourceResolves
<1>11. ASSUME NEW l \in Links, SourceRejects(l) \/ InnerEnds(l) PROVE Shape
  BY <1>11 DEF SourceRejects, InnerEnds, Inv, TypeOK
<1>12. ASSUME NEW l \in Links, AccumulateMetadata(l) \/ ReceiveLinks(l) PROVE Shape
  BY <1>12 DEF AccumulateMetadata, ReceiveLinks
<1>13. CASE ConsumerReads
  BY <1>2, <1>13 DEF ConsumerReads
<1>14. ASSUME NEW b, InnerReadable(b) \/ ScheduledFill(b) PROVE Shape
  BY <1>14 DEF InnerReadable, ScheduledFill, ReadFromIterators
<1>15. ASSUME NEW s, ClosingCall(s) \/ ScheduledCall(s) PROVE Shape
  <2>1. PICK canClose \in BOOLEAN : startIteratorsForNextUrls(canClose, s)
    BY <1>15 DEF ClosingCall, ScheduledCall
  <2>2. s \subseteq linkQueue /\ UNCHANGED <<delivered, handledUrls>>
    BY <2>1 DEF startIteratorsForNextUrls
  <2>3. \A l \in s : inner[l] = "none"
    BY <2>2 DEF Inv, LinksInv
  <2>4. \/ /\ close
           /\ inner' = EndInner(inner) \/ inner' = inner
        \/ /\ inner' = [l \in Links |-> IF l \in s THEN "creating" ELSE inner[l]]
           /\ UNCHANGED state
    BY <2>1 DEF startIteratorsForNextUrls
  <2>5. close => (done => UNCHANGED state)
    BY DEF close, closed, done
  <2> QED  BY <1>2, <2>2, <2>3, <2>4, <2>5
<1> QED
  BY <1>3, <1>4, <1>5, <1>6, <1>7, <1>9, <1>10, <1>11, <1>12, <1>13, <1>14, <1>15
  DEF Next, Progress, Fills, Failures, Consumer, Preflight, QuietAction, DestroyAction

(* A document is fetched at most once, however the links go round.         *)
THEOREM FetchedOnceCorrect == Spec => FetchedOnce
<1>1. Inv /\ [Next]_vars =>
        [\A l \in Links : inner[l] # "none" /\ inner'[l] = "creating"
                            => inner[l] = "creating"]_vars
  BY StepShape
<1> QED  BY <1>1, Invariance, PTL DEF Spec, FetchedOnce

-----------------------------------------------------------------------------
(* maxIterators.                                                           *)

(* The documents that hold a slot; the first one holds none while it is    *)
(* being fetched.                                                          *)
busy == {l \in Links : \/ inner[l] \in {"running", "destroyed"}
                       \/ l # FirstLink /\ inner[l] \in {"creating", "rejected"}
                       \/ inner[l] = "ended" /\ meta[l] # "received"}

BusyCounted == /\ IsFiniteSet(busy) /\ Cardinality(busy) \in Nat
               /\ iteratorsInUse = Cardinality(busy)

LEMMA BusySlots == Inv => BusyCounted
<1> SUFFICES ASSUME Inv PROVE BusyCounted
  OBVIOUS
<1>1. /\ busy = (currentIterators \cup creationSlots) \cup terminationSlots
      /\ currentIterators \cap creationSlots = {}
      /\ (currentIterators \cup creationSlots) \cap terminationSlots = {}
  BY DEF busy, currentIterators, creationSlots, terminationSlots
<1>2. /\ IsFiniteSet(currentIterators \cup creationSlots)
      /\ Cardinality(currentIterators \cup creationSlots) =
           Cardinality(currentIterators) + Cardinality(creationSlots)
  BY <1>1, SlotSetsFinite, AddSet, FS_Union
<1>3. Cardinality(busy) =
        Cardinality(currentIterators \cup creationSlots) + Cardinality(terminationSlots)
  BY <1>1, <1>2, SlotSetsFinite, AddSet
<1>4. IsFiniteSet(busy) /\ Cardinality(busy) \in Nat
  BY <1>1, <1>2, SlotSetsFinite, FS_Union, FS_CardinalityType
<1> QED  BY <1>2, <1>3, <1>4 DEF Inv, SlotsAccounted, iteratorsInUse, BusyCounted

(* As long as the iterator runs, only startIteratorsForNextUrls and the    *)
(* first source take a slot.                                               *)
LEMMA BusyStep ==
  ASSUME Inv, [Next]_vars, ~done'
  PROVE  \/ busy' \subseteq busy
         \/ busy' \subseteq {FirstLink}
         \/ \E s : /\ busy' \subseteq busy \cup s /\ s \subseteq linkQueue
                  /\ Cardinality(s) = numberToStart
<1> DEFINE Goal == \/ busy' \subseteq busy
                   \/ busy' \subseteq {FirstLink}
                   \/ \E s : /\ busy' \subseteq busy \cup s /\ s \subseteq linkQueue
                            /\ Cardinality(s) = numberToStart
<1> USE DEF bufferVars
<1>1. ASSUME NEW in, in \in [Links -> InnerStates], DestroyWith(in) PROVE FALSE
  BY <1>1, DestroyWithFacts DEF Inv, TypeOK, done
<1>2. ASSUME UNCHANGED <<inner, meta>> PROVE Goal
  BY <1>2 DEF busy
<1>3. CASE QuietAction \/ UNCHANGED vars
  BY <1>2, <1>3 DEF QuietAction, kickstart, RequestPreflight, PreflightResolves,
                    PreflightRejects, ScheduledRejects, vars
<1>4. CASE DestroyAction
  BY <1>1, <1>4 DEF DestroyAction, ConsumerDestroys, EagerFetchRejects,
                    LinkQueueRejects, InnerFails, Inv, TypeOK
<1>5. CASE FirstSourceRejects
  <2> DEFINE in == [inner EXCEPT ![FirstLink] = "failed"]
  <2>1. in \in [Links -> InnerStates]
    BY DEF Inv, TypeOK, InnerStates
  <2>2. DestroyWith(in)
    BY <1>5 DEF FirstSourceRejects
  <2> HIDE DEF in
  <2> QED  BY <1>1, <2>1, <2>2
<1>6. ASSUME NEW l \in Links, AccumulateRejects(l) PROVE Goal
  BY <1>1, <1>6 DEF AccumulateRejects, Inv, TypeOK
<1>7. CASE FirstRead
  <2>1. /\ \A l \in Links \ {FirstLink} : inner'[l] = inner[l]
        /\ inner'[FirstLink] = "creating" /\ meta' = meta
    BY <1>7, LinksAssumption DEF FirstRead, Inv, TypeOK
  <2> QED  BY <2>1 DEF busy
<1>8. CASE ScheduledFillClosed \/ ConsumerReads
  BY <1>2, <1>8 DEF ScheduledFillClosed, ConsumerReads, done
<1>9. ASSUME NEW b, InnerReadable(b) \/ ScheduledFill(b) PROVE Goal
  BY <1>2, <1>9 DEF InnerReadable, ScheduledFill, ReadFromIterators
<1>10. CASE FirstSourceResolves
  <2>1. /\ handledUrls = {FirstLink}
        /\ \A l \in Links \ {FirstLink} : inner[l] = "none"
    BY <1>10 DEF FirstSourceResolves, Inv, LinksInv
  <2>2. \A l \in Links \ {FirstLink} : inner'[l] = inner[l]
    BY <1>10, <2>1, StartIteratorFacts, LinksAssumption DEF FirstSourceResolves
  <2> QED  BY <2>1, <2>2 DEF busy
<1>11. ASSUME NEW l \in Links, SourceResolves(l) PROVE Goal
  <2>1. /\ l # FirstLink /\ inner[l] = "creating" /\ meta' = meta
        /\ \A k \in Links \ {l} : inner'[k] = inner[k]
    BY <1>11, StartIteratorFacts DEF SourceResolves, done
  <2> QED  BY <2>1 DEF busy
<1>12. ASSUME NEW l \in Links, SourceRejects(l) \/ InnerEnds(l) PROVE Goal
  <2>1. /\ (l # FirstLink /\ inner[l] = "creating") \/ inner[l] = "running"
        /\ meta' = meta
        /\ \A k \in Links \ {l} : inner'[k] = inner[k]
    BY <1>12 DEF SourceRejects, InnerEnds, Inv, TypeOK
  <2> QED  BY <2>1 DEF busy
<1>13. ASSUME NEW l \in Links, AccumulateMetadata(l) \/ ReceiveLinks(l) PROVE Goal
  <2>1. /\ inner' = inner
        /\ \A k \in Links : meta[k] = "received" => meta'[k] = "received"
    BY <1>13 DEF AccumulateMetadata, ReceiveLinks, Inv, TypeOK
  <2> QED  BY <2>1 DEF busy
<1>14. ASSUME NEW s, ClosingCall(s) \/ ScheduledCall(s) PROVE Goal
  <2>1. PICK canClose \in BOOLEAN : startIteratorsForNextUrls(canClose, s)
    BY <1>14 DEF ClosingCall, ScheduledCall
  <2>2. /\ s \subseteq linkQueue /\ Cardinality(s) = numberToStart /\ meta' = meta
    BY <2>1 DEF startIteratorsForNextUrls
  <2>3. \A l \in Links \ s : inner'[l] = inner[l]
    BY <2>1 DEF startIteratorsForNextUrls, done
  <2>4. busy' \subseteq busy \cup s
    BY <2>2, <2>3 DEF busy
  <2> QED  BY <2>2, <2>4
<1> QED
  BY <1>3, <1>4, <1>5, <1>6, <1>7, <1>8, <1>9, <1>10, <1>11, <1>12, <1>13, <1>14
  DEF Next, Progress, Fills, Failures, Consumer, Preflight, QuietAction, DestroyAction

LEMMA SlotsStep ==
  ASSUME Inv, MaxIteratorsRespected, [Next]_vars
  PROVE  MaxIteratorsRespected'
<1> SUFFICES ASSUME ~done' PROVE iteratorsInUse' <= MaxIterators
  BY DEF MaxIteratorsRespected
<1>1. ~done
  BY StepShape DEF done
<1>2. Inv'
  BY InvStep
<1>3. /\ IsFiniteSet(busy) /\ Cardinality(busy) \in Nat
      /\ Cardinality(busy) <= MaxIterators
  BY <1>1, BusySlots DEF MaxIteratorsRespected, BusyCounted
<1>4. Cardinality(busy') \in Nat /\ iteratorsInUse' = Cardinality(busy')
  <2>1. BusyCounted'
    BY <1>2, BusySlots, PTL
  <2> QED  BY <2>1 DEF BusyCounted
<1>5. MaxIterators \in Nat /\ 1 <= MaxIterators
  BY BoundsAssumption
<1>6. CASE busy' \subseteq busy
  <2>1. Cardinality(busy') <= Cardinality(busy)
    BY <1>3, <1>6, FS_Subset
  <2> QED  BY <1>3, <1>4, <1>5, <2>1
<1>7. CASE busy' \subseteq {FirstLink}
  <2>1. Cardinality(busy') <= 1
    <3>1. IsFiniteSet({FirstLink}) /\ Cardinality({FirstLink}) = 1
      BY FS_Singleton
    <3> QED  BY <1>7, <3>1, FS_Subset
  <2> QED  BY <1>4, <1>5, <2>1
<1>8. ASSUME NEW s, busy' \subseteq busy \cup s, s \subseteq linkQueue,
             Cardinality(s) = numberToStart
      PROVE  iteratorsInUse' <= MaxIterators
  <2>1. IsFiniteSet(s) /\ Cardinality(s) \in Nat /\ Cardinality(linkQueue) \in Nat
    BY <1>8, LinksAssumption, FS_Subset, FS_CardinalityType DEF Inv, TypeOK
  <2>2. /\ IsFiniteSet(busy \cup s)
        /\ Cardinality(busy \cup s) <= Cardinality(busy) + Cardinality(s)
    <3>1. /\ IsFiniteSet(busy \cup s)
          /\ Cardinality(busy \cup s) =
               Cardinality(busy) + Cardinality(s) - Cardinality(busy \cap s)
      BY <1>3, <2>1, FS_Union
    <3>2. Cardinality(busy \cap s) \in Nat
      BY <1>3, FS_Subset, FS_CardinalityType
    <3> QED  BY <1>3, <2>1, <3>1, <3>2
  <2>3. Cardinality(busy') <= Cardinality(busy \cup s) /\ Cardinality(busy \cup s) \in Nat
    BY <1>8, <2>2, FS_Subset, FS_CardinalityType
  <2>4. Cardinality(s) <= MaxIterators - Cardinality(busy)
    BY <1>3, <1>5, <1>8, <2>1, BusySlots DEF numberToStart, smaller, BusyCounted
  <2> QED  BY <1>3, <1>4, <1>5, <2>1, <2>2, <2>3, <2>4
<1> QED  BY <1>6, <1>7, <1>8, BusyStep

(* However many links there are, at most maxIterators documents are being  *)
(* fetched, read or asked for their links while the stream runs.           *)
THEOREM MaxIteratorsCorrect == Spec => []MaxIteratorsRespected
<1>1. Init => MaxIteratorsRespected
  <2> SUFFICES ASSUME Init PROVE MaxIteratorsRespected
    OBVIOUS
  <2>1. currentIterators = {} /\ Cardinality(currentIterators) = 0
    BY FS_EmptySet DEF Init, currentIterators
  <2> QED  BY <2>1, BoundsAssumption DEF Init, MaxIteratorsRespected, iteratorsInUse
<1>2. Inv /\ MaxIteratorsRespected /\ [Next]_vars => MaxIteratorsRespected'
  BY SlotsStep
<1> QED  BY <1>1, <1>2, Invariance, PTL DEF Spec

-----------------------------------------------------------------------------
(* The linked iterator implements LinkTraversal.                           *)
LEMMA ReachableFacts ==
  /\ FirstLink \in Traversal!Reachable
  /\ Traversal!Reachable \subseteq Links
  /\ \A l \in Traversal!Reachable : NextLinks[l] \subseteq Traversal!Reachable
  /\ \A S \in SUBSET Links :
       FirstLink \in S /\ Traversal!ClosedUnderNext(S) => Traversal!Reachable \subseteq S
<1>1. ASSUME NEW l \in Traversal!Reachable, NEW m \in NextLinks[l]
      PROVE  m \in Traversal!Reachable
  BY LinksAssumption DEF Traversal!Reachable, Traversal!ClosedUnderNext
<1> QED  BY <1>1, LinksAssumption DEF Traversal!Reachable

(* Only reachable documents are ever queued. *)
HandledReachable == handledUrls \subseteq Traversal!Reachable

LEMMA HandledInvariance == Spec => []HandledReachable
<1>1. Init => HandledReachable
  BY ReachableFacts DEF Init, HandledReachable
<1>2. Inv /\ HandledReachable /\ [Next]_vars => HandledReachable'
  <2> SUFFICES ASSUME Inv, HandledReachable, [Next]_vars PROVE HandledReachable'
    OBVIOUS
  <2>1. CASE UNCHANGED handledUrls
    BY <2>1 DEF HandledReachable
  <2>2. ASSUME NEW l \in Links, ReceiveLinks(l) PROVE HandledReachable'
    <3>1. l \in handledUrls
      BY <2>2 DEF ReceiveLinks, Inv, LinksInv
    <3> QED  BY <2>2, <3>1, ReachableFacts DEF ReceiveLinks, newLinks, HandledReachable
  <2> QED  BY <2>1, <2>2, StepShape
<1> QED  BY <1>1, <1>2, Invariance, PTL DEF Spec

(* At the end every reachable document was handled, and all was delivered. *)
AllDelivered == state = "ended" => delivered = Traversal!ReachableBindings
OnlyReachable == buffer \cup delivered \subseteq Traversal!ReachableBindings

LEMMA DeliveredFacts == Inv /\ HandledReachable => AllDelivered /\ OnlyReachable
<1> SUFFICES ASSUME Inv, HandledReachable PROVE AllDelivered /\ OnlyReachable
  OBVIOUS
<1>1. OnlyReachable
  BY DEF OnlyReachable, HandledReachable, Inv, BindingsInv, Traversal!ReachableBindings
<1>2. ASSUME state = "ended" PROVE Traversal!ReachableBindings \subseteq delivered
  <2>1. \A l \in handledUrls : inner[l] = "ended" /\ meta[l] = "received"
    BY <1>2 DEF Inv, ClosesOnlyWhenFinished, finished
  <2>2. handledUrls \in SUBSET Links /\ FirstLink \in handledUrls
    BY DEF Inv, TypeOK, LinksInv
  <2>3. Traversal!ClosedUnderNext(handledUrls)
    BY <2>1, <2>2 DEF Inv, LinksInv, Traversal!ClosedUnderNext
  <2>4. Traversal!Reachable \subseteq handledUrls
    BY <2>2, <2>3, ReachableFacts
  <2>5. \A l \in handledUrls : BindingsOf[l] \subseteq delivered
    BY <1>2, <2>1, <2>2 DEF Inv, BindingsInv
  <2> QED  BY <2>4, <2>5 DEF Traversal!ReachableBindings
<1> QED  BY <1>1, <1>2 DEF AllDelivered, OnlyReachable

LEMMA RefinementStep ==
  ASSUME Inv, HandledReachable, [Next]_vars, AllDelivered', OnlyReachable
  PROVE  [Traversal!AbsNext]_(Traversal!absVars)
<1> USE DEF Traversal!absVars
<1>1. Inv'
  BY InvStep
<1>2. state' \in {"open", "closing", "closed", "ended", "destroyed"}
  BY <1>1 DEF Inv, TypeOK
<1>3. CASE done
  <2>1. UNCHANGED <<state, delivered>>
    BY <1>3, StepShape DEF ConsumerReads
  <2> QED  BY <2>1 DEF outcome, done
<1>4. CASE ~done /\ UNCHANGED delivered
  <2>1. outcome = "running"
    BY <1>4 DEF outcome
  <2>2. CASE state' = "destroyed"
    <3>1. outcome' = "destroyed"
      BY <2>2 DEF outcome, done
    <3> QED  BY <1>4, <2>1, <3>1 DEF Traversal!AbsNext, Traversal!AbsDestroy
  <2>3. CASE state' = "ended"
    <3>1. outcome' = "ended" /\ delivered' = Traversal!ReachableBindings
      BY <2>3 DEF outcome, done, AllDelivered, Traversal!ReachableBindings,
                  Traversal!Reachable, Traversal!ClosedUnderNext
    <3>2. \A b, c \in Traversal!ReachableBindings \ delivered : b = c
      BY <1>4, <3>1
    <3> QED  BY <2>1, <3>1, <3>2 DEF Traversal!AbsNext, Traversal!AbsEnd
  <2>4. CASE state' \notin {"ended", "destroyed"}
    <3>1. outcome' = "running"
      BY <2>4 DEF outcome, done
    <3> QED  BY <1>4, <2>1, <3>1
  <2> QED  BY <2>2, <2>3, <2>4
<1>5. CASE ~done /\ ConsumerReads /\ delivered' # delivered
  <2>1. outcome = "running"
    BY <1>5 DEF outcome
  <2>2. PICK b \in buffer : delivered' = delivered \cup {b}
    BY <1>5 DEF ConsumerReads
  <2>3. b \in Traversal!ReachableBindings \ delivered
    BY <2>2 DEF OnlyReachable, Inv, BindingsInv
  <2>4. state' \in {state, "ended"}
    BY <1>5 DEF ConsumerReads
  <2>5. CASE state' = "ended"
    <3>1. outcome' = "ended" /\ delivered' = Traversal!ReachableBindings
      BY <2>5 DEF outcome, done, AllDelivered, Traversal!ReachableBindings,
                  Traversal!Reachable, Traversal!ClosedUnderNext
    <3>2. \A c, d \in Traversal!ReachableBindings \ delivered : c = d
      BY <2>2, <3>1
    <3> QED  BY <2>1, <3>1, <3>2 DEF Traversal!AbsNext, Traversal!AbsEnd
  <2>6. CASE state' # "ended"
    <3>1. outcome' = "running"
      BY <1>5, <2>4, <2>6 DEF outcome, done
    <3> QED  BY <2>1, <2>2, <2>3, <3>1 DEF Traversal!AbsNext, Traversal!AbsDeliver
  <2> QED  BY <2>5, <2>6
<1> QED  BY <1>3, <1>4, <1>5, StepShape

(* Whatever the links, the failures and the order of the callbacks: the    *)
(* stream delivers only bindings of reachable documents, each once, ends   *)
(* only after all of them, and never leaves its final state.               *)
THEOREM LinkTraversalImplemented == Spec => ImplementsLinkTraversal
<1>1. Init => Traversal!AbsInit
  BY DEF Init, Traversal!AbsInit, outcome, done
<1>2. Inv /\ HandledReachable /\ [Next]_vars /\ Inv' /\ HandledReachable' =>
        [Traversal!AbsNext]_(Traversal!absVars)
  <2>1. Inv' /\ HandledReachable' => AllDelivered'
    BY DeliveredFacts, PTL
  <2> QED  BY <2>1, DeliveredFacts, RefinementStep
<1> QED  BY <1>1, <1>2, Invariance, HandledInvariance, PTL
         DEF Spec, ImplementsLinkTraversal, Traversal!AbsSpec
=============================================================================
