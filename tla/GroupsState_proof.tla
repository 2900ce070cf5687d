------------------------ MODULE GroupsState_proof ------------------------
(* Proofs about GroupsState, for any solutions, groups and aggregates, and *)
(* any values of the expressions.                                          *)
EXTENDS GroupsState, FiniteSetTheorems, TLAPS

Inv == TypeOK /\ CounterAccounts /\ StepsInv /\ AggregatorsInv

(* The conjuncts of TypeOK that no action disturbs silently. *)
PutStates == {"none", "creating", "evaluating", "done"}
StepStates == {"none", "waiting", "putting", "done", "rejected"}
AggregatorStates == [error: BOOLEAN, terms: SUBSET Solutions]

LEMMA InputFacts ==
  ASSUME TypeOK
  PROVE  \A s \in Solutions :
           /\ key(s) \in Groups
           /\ \A a \in Aggregates : evaluation(s, a) \in Terms \cup {Unbound, Failed}
<1>1. input \in [key: [Solutions -> Groups],
                 evaluation: [Solutions -> [Aggregates -> Terms \cup {Unbound, Failed}]]]
  BY GroupsAssumption DEF TypeOK
<1> QED  BY <1>1 DEF key, evaluation

LEMMA CountFacts ==
  ASSUME TypeOK
  PROVE  IsFiniteSet(unfinished) /\ Cardinality(unfinished) \in Nat
<1>1. unfinished \subseteq Solutions
  BY DEF TypeOK, unfinished
<1> QED  BY <1>1, GroupsAssumption, FS_Subset, FS_CardinalityType

(* The counter accounts for what is left: with one to go, nothing else is. *)
LEMMA LastOne ==
  ASSUME TypeOK, CounterAccounts
  PROVE  /\ waitCounter = 0 => ended /\ unfinished = {}
         /\ waitCounter = 1 /\ ~ended => unfinished = {}
         /\ waitCounter = 1 => \A s, t \in unfinished : s = t
         /\ unfinished # {} => waitCounter > 0
         /\ ~ended => waitCounter > 0
         /\ \A s \in unfinished : waitCounter = 1 => ended
<1>1. IsFiniteSet(unfinished) /\ Cardinality(unfinished) \in Nat
  BY CountFacts
<1>2. Cardinality(unfinished) = 0 <=> unfinished = {}
  BY <1>1, FS_EmptySet
<1>3. Cardinality(unfinished) = 1 => \A s, t \in unfinished : s = t
  <2> SUFFICES ASSUME Cardinality(unfinished) = 1,
                      NEW s \in unfinished, NEW t \in unfinished
               PROVE  s = t
    OBVIOUS
  <2>1. IsFiniteSet(unfinished \ {s}) /\ Cardinality(unfinished \ {s}) = 0
    BY <1>1, FS_RemoveElement
  <2> QED  BY <2>1, FS_EmptySet
<1>4. waitCounter = Cardinality(unfinished) + (IF ended THEN 0 ELSE 1)
  BY DEF CounterAccounts
<1> QED  BY <1>1, <1>2, <1>3, <1>4 DEF TypeOK

LEMMA InitInv == Init => Inv
<1> SUFFICES ASSUME Init PROVE Inv
  OBVIOUS
<1>1. TypeOK
  <2>1. NewAggregator \in AggregatorStates
    BY DEF NewAggregator, AggregatorStates
  <2> QED  BY <2>1 DEF Init, TypeOK, initialCount, AggregatorStates
<1>2. CounterAccounts
  <2>1. unfinished = {}
    BY DEF Init, unfinished
  <2> QED  BY <2>1, FS_EmptySet DEF Init, CounterAccounts, initialCount
<1>3. StepsInv
  <2>1. \A g \in Groups : ~hasInitializer(g)
    BY DEF Init, hasInitializer
  <2> QED  BY <2>1 DEF Init, StepsInv
<1>4. AggregatorsInv
  <2>1. \A g \in Groups, a \in Aggregates : putIn(g, a) = {}
    BY DEF Init, putIn
  <2>2. \A g \in Groups, a \in Aggregates :
          aggregator[g][a].terms = {} /\ aggregator[g][a].error = FALSE
    BY DEF Init, NewAggregator
  <2> QED  BY <2>1, <2>2 DEF AggregatorsInv, rightSoFar
<1> QED  BY <1>1, <1>2, <1>3, <1>4 DEF Inv

-----------------------------------------------------------------------------
(* An aggregator that is not touched stays right when no solution is put,  *)
(* or when it has failed already.                                          *)
LEMMA AggregatorsFrame ==
  ASSUME AggregatorsInv, UNCHANGED <<input, aggregator>>,
         \A g \in Groups, a \in Aggregates :
           /\ putIn(g, a) \subseteq putIn(g, a)'
           /\ ~aggregator[g][a].error => putIn(g, a)' = putIn(g, a)
  PROVE  AggregatorsInv'
BY DEF AggregatorsInv, rightSoFar, evaluation

LEMMA PutInFrame ==
  ASSUME UNCHANGED <<input, consumed, put>>
  PROVE  \A g, a : putIn(g, a)' = putIn(g, a)
BY DEF putIn, key

-----------------------------------------------------------------------------
(* The 'data' listener. *)
LEMMA ConsumeStep ==
  ASSUME Inv, NEW s \in Solutions, Consume(s)
  PROVE  Inv'
<1> USE DEF Inv
<1>1. key(s) \in Groups /\ UNCHANGED input
  BY InputFacts DEF Consume
<1>2. step[s] = "none" /\ ~isCreator(s)
      /\ \A a \in Aggregates : put[s][a] = "none"
  <2>1. step[s] = "none"
    BY DEF Consume, StepsInv
  <2>2. initializer[key(s)] # s
    <3>1. CASE hasInitializer(key(s))
      BY <1>1, <3>1 DEF StepsInv, Consume
    <3>2. CASE ~hasInitializer(key(s))
      BY <3>2, GroupsAssumption DEF hasInitializer
    <3> QED  BY <3>1, <3>2
  <2> QED  BY <2>1, <2>2 DEF StepsInv, isCreator
<1>3. TypeOK'
  <2>1. step' \in [Solutions -> StepStates]
    <3>1. \/ step' = [step EXCEPT ![s] = "waiting"]
          \/ step' = [step EXCEPT ![s] = "putting"]
      BY DEF Consume
    <3> QED  BY <3>1 DEF TypeOK, StepStates
  <2>5. initializer' \in [Groups -> Solutions \cup {NoSolution}]
    <3>1. \/ initializer' = initializer
          \/ initializer' = [initializer EXCEPT ![key(s)] = s]
      BY DEF Consume
    <3> QED  BY <3>1, <1>1 DEF TypeOK
  <2>2. put' \in [Solutions -> [Aggregates -> PutStates]]
    <3>1. [a \in Aggregates |-> "creating"] \in [Aggregates -> PutStates]
      BY DEF PutStates
    <3> QED  BY <3>1 DEF Consume, TypeOK, PutStates
  <2>3. waitCounter' \in Nat /\ consumed' \subseteq Solutions
    BY DEF Consume, TypeOK
  <2>4. UNCHANGED <<input, ended, groups, aggregator, status>>
    BY DEF Consume
  <2> QED  BY <2>1, <2>2, <2>3, <2>4, <2>5 DEF TypeOK, StepStates, PutStates
<1>4. CounterAccounts'
  <2>1. unfinished' = unfinished \cup {s} /\ s \notin unfinished
    BY DEF Consume, unfinished, TypeOK
  <2>2. Cardinality(unfinished \cup {s}) = Cardinality(unfinished) + 1
    BY <2>1, CountFacts, FS_AddElement
  <2>3. waitCounter' = waitCounter + 1 /\ ended' = ended
    BY DEF Consume
  <2> QED  BY <2>1, <2>2, <2>3, CountFacts DEF CounterAccounts
<1>5. StepsInv'
  <2>1. \A t \in Solutions : t # s => step'[t] = step[t] /\ put'[t] = put[t]
    BY DEF Consume, TypeOK
  <2>2. /\ step'[s] \in {"waiting", "putting"}
        /\ \A a \in Aggregates : put'[s][a] \in {"none", "creating"}
        /\ step'[s] = "waiting" => \A a \in Aggregates : put'[s][a] = "none"
    BY <1>2 DEF Consume, TypeOK
  <2>4. ~ hasInitializer(key(s)) => ~(\E t \in Solutions : key(t) = key(s) /\ isCreator(t))
    BY <1>1, GroupsAssumption DEF hasInitializer, isCreator
  <2>5. \A t \in Solutions : t # s => (isCreator(t)' <=> isCreator(t))
    <3> SUFFICES ASSUME NEW t \in Solutions, t # s PROVE isCreator(t)' <=> isCreator(t)
      OBVIOUS
    <3>1. key(t)' = key(t) /\ key(t) \in Groups
      BY <1>1, InputFacts DEF key
    <3>2. CASE initializer' = initializer
      BY <3>1, <3>2 DEF isCreator
    <3>3. CASE /\ ~hasInitializer(key(s))
               /\ initializer' = [initializer EXCEPT ![key(s)] = s]
      BY <3>1, <3>3, <2>4, <1>1 DEF isCreator, TypeOK
    <3> QED  BY <3>2, <3>3 DEF Consume
  <2>6. isCreator(s)' <=> step'[s] = "putting"
    <3>1. CASE hasInitializer(key(s))
      BY <1>1, <1>2, <3>1 DEF Consume, isCreator, key, TypeOK
    <3>2. CASE ~hasInitializer(key(s))
      BY <1>1, <3>2 DEF Consume, isCreator, key, TypeOK
    <3> QED  BY <3>1, <3>2
  <2>7. \A g \in Groups :
          /\ hasInitializer(g)' <=> hasInitializer(g) \/ g = key(s)
          /\ hasInitializer(g) => initializer'[g] = initializer[g]
          /\ ~hasInitializer(g) /\ g = key(s) => initializer'[g] = s
    BY <1>1, GroupsAssumption DEF Consume, hasInitializer, TypeOK
  <2>8. consumed' = consumed \cup {s} /\ UNCHANGED <<groups, status>>
    BY DEF Consume
  <2>9. (\A t \in Solutions : step[t] = "none" <=> t \notin consumed)'
    BY <2>1, <2>2, <2>8 DEF StepsInv
  <2>10. (\A g \in Groups : hasInitializer(g) =>
            initializer[g] \in consumed /\ key(initializer[g]) = g)'
    BY <2>7, <2>8, <1>1 DEF StepsInv, key
  <2>11. (\A t \in consumed : hasInitializer(key(t)))'
    BY <2>7, <2>8, <1>1, InputFacts DEF StepsInv, key, TypeOK
  <2>12. (\A t \in Solutions : step[t] = "waiting" => ~isCreator(t))'
    BY <2>1, <2>2, <2>5, <2>6 DEF StepsInv
  <2>13. (groups = {g \in Groups : hasInitializer(g) /\ step[initializer[g]] = "done"})'
    <3>1. \A g \in Groups : hasInitializer(g) => initializer[g] # s /\ initializer[g] \in Solutions
      BY <1>2, <2>8 DEF StepsInv, TypeOK
    <3>2. \A g \in Groups : (hasInitializer(g) /\ step[initializer[g]] = "done")' <=>
                            (hasInitializer(g) /\ step[initializer[g]] = "done")
      BY <3>1, <2>7, <2>1, <2>2
    <3> QED  BY <3>2, <2>8 DEF StepsInv
  <2>14. (\A t \in Solutions, a \in Aggregates :
           /\ step[t] \in {"none", "waiting"} => put[t][a] = "none"
           /\ step[t] = "done" => put[t][a] = "done"
           /\ put[t][a] = "creating" => isCreator(t)
           /\ put[t][a] # "none" => isCreator(t) \/ key(t) \in groups)'
    <3>1. \A t \in Solutions : key(t)' = key(t)
      BY <1>1 DEF key
    <3>2. \A a \in Aggregates : put'[s][a] # "none" => isCreator(s)'
      BY <2>2, <2>6
    <3> QED  BY <2>1, <2>2, <2>5, <2>8, <3>1, <3>2 DEF StepsInv
  <2>15. (\A t \in Solutions : step[t] = "rejected" => status = "failed")'
    BY <2>1, <2>2, <2>8 DEF StepsInv
  <2>16. (status = "finished" => waitCounter = 0)'
    BY <2>8, LastOne DEF StepsInv, Consume
  <2> QED  BY ONLY <2>9, <2>10, <2>11, <2>12, <2>13, <2>14, <2>15, <2>16 DEF StepsInv
<1>6. AggregatorsInv'
  <2>1. \A g, a : a \in Aggregates => putIn(g, a)' = putIn(g, a)
    <3> SUFFICES ASSUME NEW g, NEW a \in Aggregates PROVE putIn(g, a)' = putIn(g, a)
      OBVIOUS
    <3>1. put'[s][a] # "done" /\ put[s][a] # "done"
      BY <1>2 DEF Consume, TypeOK
    <3>2. \A t \in Solutions : t # s => put'[t] = put[t]
      BY DEF Consume, TypeOK
    <3>3. consumed' = consumed \cup {s} /\ consumed \subseteq Solutions
      BY DEF Consume, TypeOK
    <3> QED  BY <3>1, <3>2, <3>3, <1>1 DEF putIn, key
  <2>2. UNCHANGED <<input, aggregator>>
    BY DEF Consume
  <2> QED  BY <2>1, <2>2, AggregatorsFrame
<1> QED  BY <1>3, <1>4, <1>5, <1>6

(* Unfinished solutions stay so unless a step sets one to "done". *)
LEMMA CounterFrame ==
  ASSUME CounterAccounts, UNCHANGED <<consumed, ended, waitCounter>>,
         \A s \in consumed : (step[s] = "done") <=> (step'[s] = "done")
  PROVE  CounterAccounts'
<1>1. unfinished' = unfinished
  BY DEF unfinished
<1> QED  BY <1>1 DEF CounterAccounts

(* A step in the puts of a solution that is being put. *)
LEMMA PutFrame ==
  ASSUME TypeOK, StepsInv, NEW s \in Solutions, NEW b \in Aggregates,
         NEW v \in {"evaluating", "done"},
         put[s][b] # "none", step[s] # "done",
         put' = [put EXCEPT ![s][b] = v],
         UNCHANGED <<input, consumed, waitCounter, initializer, step, groups, status>>
  PROVE  StepsInv'
<1>1. \A t \in Solutions, a \in Aggregates :
        \/ put'[t][a] = put[t][a]
        \/ t = s /\ a = b /\ put'[t][a] = v
  BY DEF TypeOK
<1>2. step[s] \notin {"none", "waiting"}
  BY DEF StepsInv
<1>3. \A t \in Solutions : (isCreator(t)' <=> isCreator(t)) /\ key(t)' = key(t)
  BY DEF isCreator, key
<1>4. \A g \in Groups : hasInitializer(g)' <=> hasInitializer(g)
  BY DEF hasInitializer
<1>5. (\A t \in Solutions, a \in Aggregates :
        /\ step[t] \in {"none", "waiting"} => put[t][a] = "none"
        /\ step[t] = "done" => put[t][a] = "done"
        /\ put[t][a] = "creating" => isCreator(t)
        /\ put[t][a] # "none" => isCreator(t) \/ key(t) \in groups)'
  BY <1>1, <1>2, <1>3 DEF StepsInv
<1> QED  BY <1>3, <1>4, <1>5 DEF StepsInv, hasInitializer, isCreator, key

(* A new aggregator is in its initial state already: nothing was put yet.  *)
LEMMA NothingPutYet ==
  ASSUME Inv, NEW s \in Solutions, NEW a \in Aggregates, put[s][a] = "creating"
  PROVE  putIn(key(s), a) = {}
<1> USE DEF Inv
<1>1. isCreator(s) /\ step[s] # "done" /\ key(s) \in Groups
  BY InputFacts DEF StepsInv
<1>2. key(s) \notin groups
  BY <1>1 DEF StepsInv, isCreator
<1>3. \A t \in consumed : key(t) = key(s) /\ put[t][a] = "done" => isCreator(t)
  BY <1>2 DEF StepsInv, TypeOK
<1>4. \A t \in consumed : key(t) = key(s) /\ isCreator(t) => t = s
  BY <1>1 DEF isCreator
<1> QED  BY <1>3, <1>4 DEF putIn

(* The mediator hands over an aggregator. *)
LEMMA AggregatorCreatedStep ==
  ASSUME Inv, NEW s \in Solutions, NEW b \in Aggregates, AggregatorCreated(s, b)
  PROVE  Inv'
<1> USE DEF Inv
<1>k. PICK k \in Groups : k = key(s)
  BY InputFacts
<1>1. /\ k = key(s) /\ put[s][b] = "creating" /\ step[s] \in {"putting", "rejected"}
      /\ put' = [put EXCEPT ![s][b] = "evaluating"]
      /\ aggregator' = [aggregator EXCEPT ![k][b] = NewAggregator]
      /\ UNCHANGED <<input, consumed, ended, waitCounter, initializer, step, groups, status>>
  BY <1>k DEF AggregatorCreated
<1>2. TypeOK'
  <2>1. NewAggregator \in AggregatorStates
    BY DEF NewAggregator, AggregatorStates
  <2>2. aggregator' \in [Groups -> [Aggregates -> AggregatorStates]]
    BY <1>1, <2>1 DEF TypeOK, AggregatorStates
  <2>3. put' \in [Solutions -> [Aggregates -> PutStates]]
    BY <1>1 DEF TypeOK, PutStates
  <2> QED  BY <1>1, <2>2, <2>3 DEF TypeOK, AggregatorStates, PutStates
<1>3. CounterAccounts'
  BY <1>1, CounterFrame
<1>4. StepsInv'
  BY <1>1, PutFrame
<1>5. \A g \in Groups, a \in Aggregates : putIn(g, a)' = putIn(g, a)
  <2>1. \A t \in Solutions, a \in Aggregates :
          (put'[t][a] = "done") <=> (put[t][a] = "done")
    BY <1>1 DEF TypeOK
  <2> QED  BY <1>1, <2>1 DEF putIn, key, TypeOK
<1>6. AggregatorsInv'
  <2>1. putIn(k, b)' = {}
    <3>1. putIn(k, b) = {}
      BY <1>1, NothingPutYet
    <3> QED  BY <3>1, <1>5, <1>1
  <2>2. aggregator'[k][b] = NewAggregator
    <3>1. aggregator \in [Groups -> [Aggregates -> AggregatorStates]]
      BY DEF TypeOK, AggregatorStates
    <3> QED  BY ONLY <1>1, <3>1, b \in Aggregates
  <2>3. \A g \in Groups, a \in Aggregates :
          g # k \/ a # b => aggregator'[g][a] = aggregator[g][a]
    BY <1>1 DEF TypeOK
  <2>4. \A t, a : evaluation(t, a)' = evaluation(t, a)
    BY <1>1 DEF evaluation
  <2> SUFFICES ASSUME NEW g \in Groups, NEW a \in Aggregates
               PROVE  rightSoFar(g, a)'
    BY DEF AggregatorsInv
  <2>5. CASE g = k /\ a = b
    <3>1. putIn(g, a)' = {} /\ aggregator'[g][a] = NewAggregator
      BY <2>1, <2>2, <2>5
    <3>2. aggregator'[g][a].terms = {} /\ aggregator'[g][a].error = FALSE
      BY <3>1 DEF NewAggregator
    <3> QED  BY <3>1, <3>2 DEF rightSoFar
  <2>6. CASE g # k \/ a # b
    <3>1. rightSoFar(g, a)
      BY DEF AggregatorsInv
    <3> QED  BY <3>1, <2>3, <2>4, <2>6, <1>5 DEF rightSoFar
  <2> QED  BY <2>5, <2>6
<1> QED  BY <1>2, <1>3, <1>4, <1>6

LEMMA UpdateOne ==
  ASSUME NEW S, NEW f \in [Groups -> [Aggregates -> S]], NEW r \in S,
         NEW k \in Groups, NEW b \in Aggregates,
         NEW h, h = [f EXCEPT ![k][b] = r]
  PROVE  /\ h \in [Groups -> [Aggregates -> S]]
         /\ h[k][b] = r
         /\ \A g \in Groups, a \in Aggregates :
              g # k \/ a # b => h[g][a] = f[g][a]
OBVIOUS

(* The expression was evaluated. *)
LEMMA EvaluatedStep ==
  ASSUME Inv, NEW s \in Solutions, NEW b \in Aggregates, Evaluated(s, b)
  PROVE  Inv'
<1> USE DEF Inv
<1>k. PICK k \in Groups : k = key(s)
  BY InputFacts
<1>1. /\ k = key(s) /\ put[s][b] = "evaluating" /\ step[s] \in {"putting", "rejected"}
      /\ put' = [put EXCEPT ![s][b] = "done"]
      /\ UNCHANGED <<input, consumed, ended, waitCounter, initializer, step, groups, status>>
  BY <1>k DEF Evaluated
<1> DEFINE failing  == /\ evaluation(s, b) = Failed
                       /\ aggregator' = [aggregator EXCEPT ![k][b].error = TRUE]
           putting  == /\ evaluation(s, b) \in Terms /\ ~aggregator[k][b].error
                       /\ ~isDuplicate(s, b)
                       /\ aggregator' = [aggregator EXCEPT ![k][b].terms = @ \cup {s}]
           ignoring == /\ \/ evaluation(s, b) = Unbound
                          \/ /\ evaluation(s, b) \in Terms
                             /\ aggregator[k][b].error \/ isDuplicate(s, b)
                       /\ UNCHANGED aggregator
<1>2. failing \/ putting \/ ignoring
  BY <1>k DEF Evaluated
<1>3. aggregator \in [Groups -> [Aggregates -> AggregatorStates]]
  BY DEF TypeOK, AggregatorStates
<1>4. /\ aggregator' \in [Groups -> [Aggregates -> AggregatorStates]]
      /\ \A g \in Groups, a \in Aggregates :
           g # k \/ a # b => aggregator'[g][a] = aggregator[g][a]
      /\ failing => aggregator'[k][b] = [aggregator[k][b] EXCEPT !.error = TRUE]
      /\ putting => aggregator'[k][b] = [aggregator[k][b] EXCEPT !.terms = @ \cup {s}]
      /\ ignoring => aggregator'[k][b] = aggregator[k][b]
  <2> DEFINE unlike == \A g \in Groups, a \in Aggregates :
                         g # k \/ a # b => aggregator'[g][a] = aggregator[g][a]
  <2>1. ASSUME aggregator' = [aggregator EXCEPT ![k][b].error = TRUE]
        PROVE  /\ aggregator' \in [Groups -> [Aggregates -> AggregatorStates]]
               /\ aggregator'[k][b] = [aggregator[k][b] EXCEPT !.error = TRUE]
               /\ unlike
    <3>1. aggregator[k][b] \in AggregatorStates
      BY <1>3
    <3>2. PICK r \in AggregatorStates : r = [aggregator[k][b] EXCEPT !.error = TRUE]
      BY <3>1 DEF AggregatorStates
    <3>3. aggregator' = [aggregator EXCEPT ![k][b] = [aggregator[k][b] EXCEPT !.error = TRUE]]
      BY <2>1, <1>3, Zenon
    <3>4. aggregator' = [aggregator EXCEPT ![k][b] = r]
      BY <3>2, <3>3
    <3>5. /\ aggregator' \in [Groups -> [Aggregates -> AggregatorStates]]
          /\ aggregator'[k][b] = r /\ unlike
      BY <3>4, <1>3, UpdateOne
    <3> QED  BY <3>2, <3>5
  <2>2. ASSUME aggregator' = [aggregator EXCEPT ![k][b].terms = @ \cup {s}]
        PROVE  /\ aggregator' \in [Groups -> [Aggregates -> AggregatorStates]]
               /\ aggregator'[k][b] = [aggregator[k][b] EXCEPT !.terms = @ \cup {s}]
               /\ unlike
    <3>1. aggregator[k][b] \in AggregatorStates
      BY <1>3
    <3>2. PICK r \in AggregatorStates : r = [aggregator[k][b] EXCEPT !.terms = @ \cup {s}]
      BY <3>1 DEF AggregatorStates
    <3>3. aggregator' = [aggregator EXCEPT ![k][b] = [aggregator[k][b] EXCEPT !.terms = @ \cup {s}]]
      BY <2>2, <1>3, Zenon
    <3>4. aggregator' = [aggregator EXCEPT ![k][b] = r]
      BY <3>2, <3>3
    <3>5. /\ aggregator' \in [Groups -> [Aggregates -> AggregatorStates]]
          /\ aggregator'[k][b] = r /\ unlike
      BY <3>4, <1>3, UpdateOne
    <3> QED  BY <3>2, <3>5
  <2> QED  BY <1>2, <1>3, <2>1, <2>2
<1>5. TypeOK'
  <2>1. put' \in [Solutions -> [Aggregates -> PutStates]]
    BY <1>1 DEF TypeOK, PutStates
  <2> QED  BY <1>1, <1>4, <2>1 DEF TypeOK, AggregatorStates, PutStates
<1>6. CounterAccounts'
  BY <1>1, CounterFrame
<1>7. StepsInv'
  BY <1>1, PutFrame
<1>8. AggregatorsInv'
  <2>1. s \in consumed
    BY <1>1 DEF StepsInv
  <2>2. /\ putIn(k, b)' = putIn(k, b) \cup {s} /\ s \notin putIn(k, b)
        /\ \A g \in Groups, a \in Aggregates :
             g # k \/ a # b => putIn(g, a)' = putIn(g, a)
    <3>1. \A t \in Solutions, a \in Aggregates :
            /\ t # s \/ a # b => put'[t][a] = put[t][a]
            /\ t = s /\ a = b => put'[t][a] = "done"
      BY <1>1 DEF TypeOK
    <3> QED  BY <1>1, <2>1, <3>1 DEF putIn, key, TypeOK
  <2>3. \A t, a : evaluation(t, a)' = evaluation(t, a)
    BY <1>1 DEF evaluation
  <2> SUFFICES ASSUME NEW g \in Groups, NEW a \in Aggregates
               PROVE  rightSoFar(g, a)'
    BY DEF AggregatorsInv
  <2>4. rightSoFar(g, a)
    BY DEF AggregatorsInv
  <2>5. CASE g # k \/ a # b
    BY <2>4, <2>5, <2>2, <2>3, <1>4 DEF rightSoFar
  <2>6. CASE g = k /\ a = b
    <3>1. aggregator[k][b] \in AggregatorStates /\ aggregator'[k][b] \in AggregatorStates
      BY <1>3, <1>4
    <3>2. CASE failing
      <4>1. /\ aggregator'[g][a].terms = aggregator[g][a].terms
            /\ aggregator'[g][a].error = TRUE
        BY <2>6, <3>1, <3>2, <1>4 DEF AggregatorStates
      <4> QED  BY <4>1, <2>2, <2>3, <2>4, <2>6, <3>2 DEF rightSoFar
    <3>3. CASE putting
      <4>1. /\ aggregator'[g][a].terms = aggregator[g][a].terms \cup {s}
            /\ aggregator'[g][a].error = FALSE /\ aggregator[g][a].error = FALSE
        BY <2>6, <3>1, <3>3, <1>4 DEF AggregatorStates
      <4>2. a \in Distinct =>
              \A t \in aggregator[g][a].terms : evaluation(t, a) # evaluation(s, a)
        BY <2>6, <3>3, <1>k DEF isDuplicate
      <4>3. evaluation(s, a) # Failed /\ evaluation(s, a) \in Terms
        BY <2>6, <3>3, GroupsAssumption
      <4> QED  BY <4>1, <4>2, <4>3, <2>2, <2>3, <2>4, <2>6 DEF rightSoFar
    <3>4. CASE ignoring
      <4>1. aggregator'[g][a] = aggregator[g][a]
        BY <2>6, <3>4, <1>4
      <4>2. evaluation(s, a) # Failed
        BY <2>6, <3>4, GroupsAssumption
      <4>3. \/ evaluation(s, a) \notin Terms
            \/ aggregator[g][a].error
            \/ a \in Distinct /\ \E t \in aggregator[g][a].terms :
                                   evaluation(t, a) = evaluation(s, a)
        BY <2>6, <3>4, <1>k, GroupsAssumption DEF isDuplicate
      <4> QED  BY <4>1, <4>2, <4>3, <2>2, <2>3, <2>4, <2>6 DEF rightSoFar
    <3> QED  BY <1>2, <3>2, <3>3, <3>4
  <2> QED  BY <2>5, <2>6
<1> QED  BY <1>5, <1>6, <1>7, <1>8

-----------------------------------------------------------------------------
(* While a solution is unfinished, the rows are not there yet. *)
LEMMA NotFinished ==
  ASSUME Inv, \/ ~ended
              \/ \E s \in Solutions : step[s] \in {"waiting", "putting", "rejected"}
  PROVE  status # "finished"
<1> USE DEF Inv
<1>1. ASSUME NEW s \in Solutions, step[s] \in {"waiting", "putting", "rejected"}
      PROVE  s \in unfinished
  BY <1>1 DEF StepsInv, unfinished
<1> QED  BY <1>1, LastOne DEF StepsInv

(* A solution is rejected, and with it the stream. *)
LEMMA RejectedStep ==
  ASSUME Inv, NEW s \in Solutions, step[s] \in {"waiting", "putting"}, reject,
         step' = [step EXCEPT ![s] = "rejected"],
         UNCHANGED <<input, consumed, ended, waitCounter, initializer, put, groups,
                     aggregator>>
  PROVE  Inv'
<1> USE DEF Inv
<1>1. /\ step'[s] = "rejected" /\ \A t \in Solutions : t # s => step'[t] = step[t]
      /\ step' \in [Solutions -> StepStates]
  BY DEF TypeOK, StepStates
<1>2. status' = "failed"
  BY NotFinished DEF reject, TypeOK
<1>3. TypeOK'
  BY <1>1, <1>2 DEF TypeOK, StepStates
<1>4. CounterAccounts'
  <2>1. \A t \in consumed : (step[t] = "done") <=> (step'[t] = "done")
    BY <1>1 DEF TypeOK
  <2> QED  BY <2>1, CounterFrame
<1>5. StepsInv'
  <2>1. \A t \in Solutions : (isCreator(t)' <=> isCreator(t)) /\ key(t)' = key(t)
    BY DEF isCreator, key
  <2>2. \A g \in Groups : hasInitializer(g)' <=> hasInitializer(g)
    BY DEF hasInitializer
  <2>3. \A g \in Groups : hasInitializer(g) => initializer[g] \in Solutions
    BY DEF StepsInv, TypeOK
  <2>4. s \in consumed
    BY DEF StepsInv
  <2>5. (groups = {g \in Groups : hasInitializer(g) /\ step[initializer[g]] = "done"})'
    BY <1>1, <2>2, <2>3 DEF StepsInv
  <2>6. (\A t \in Solutions : step[t] = "none" <=> t \notin consumed)'
    BY <1>1, <2>4 DEF StepsInv
  <2>7. (\A g \in Groups : hasInitializer(g) =>
           initializer[g] \in consumed /\ key(initializer[g]) = g)'
    BY <2>1, <2>2, <2>3 DEF StepsInv
  <2>8. (\A t \in consumed : hasInitializer(key(t)))'
    BY <2>1, <2>2, InputFacts DEF StepsInv, TypeOK
  <2>9. (\A t \in Solutions : step[t] = "waiting" => ~isCreator(t))'
    BY <1>1, <2>1 DEF StepsInv
  <2>10. (\A t \in Solutions, a \in Aggregates :
           /\ step[t] \in {"none", "waiting"} => put[t][a] = "none"
           /\ step[t] = "done" => put[t][a] = "done"
           /\ put[t][a] = "creating" => isCreator(t)
           /\ put[t][a] # "none" => isCreator(t) \/ key(t) \in groups)'
    BY <1>1, <2>1 DEF StepsInv
  <2> QED  BY <1>2, <2>5, <2>6, <2>7, <2>8, <2>9, <2>10 DEF StepsInv
<1>6. AggregatorsInv'
  BY PutInFrame, AggregatorsFrame
<1> QED  BY <1>3, <1>4, <1>5, <1>6

LEMMA AggregatorRejectedStep ==
  ASSUME Inv, NEW s \in Solutions, NEW b \in Aggregates, AggregatorRejected(s, b)
  PROVE  Inv'
BY RejectedStep DEF AggregatorRejected

(* The solution's group is complete: it is put, unless the aggregator has  *)
(* failed, which already counts for it.                                    *)
LEMMA GroupAwaitedStep ==
  ASSUME Inv, NEW s \in Solutions, GroupAwaited(s)
  PROVE  Inv'
<1> USE DEF Inv
<1> DEFINE going == /\ key(s) \in groups
                    /\ step' = [step EXCEPT ![s] = "putting"]
                    /\ put' = [put EXCEPT ![s] = [a \in Aggregates |-> startPut(s, a)]]
                    /\ UNCHANGED status
<1>1. /\ step[s] = "waiting"
      /\ UNCHANGED <<input, consumed, ended, waitCounter, initializer, groups, aggregator>>
  BY DEF GroupAwaited
<1>2. CASE /\ step' = [step EXCEPT ![s] = "rejected"]
           /\ reject /\ UNCHANGED put
  BY <1>1, <1>2, RejectedStep
<1>3. CASE going
  <2>1. /\ step'[s] = "putting" /\ \A t \in Solutions : t # s => step'[t] = step[t]
        /\ step' \in [Solutions -> StepStates]
    BY <1>3 DEF TypeOK, StepStates
  <2>2. [a \in Aggregates |-> startPut(s, a)] \in [Aggregates -> {"done", "evaluating"}]
    BY DEF startPut
  <2>3. /\ put' \in [Solutions -> [Aggregates -> PutStates]]
        /\ \A t \in Solutions : t # s => put'[t] = put[t]
        /\ \A a \in Aggregates : put'[s][a] = startPut(s, a)
    BY <1>3, <2>2 DEF TypeOK, PutStates
  <2>4. TypeOK'
    BY <1>1, <1>3, <2>1, <2>3 DEF TypeOK, StepStates, PutStates
  <2>5. CounterAccounts'
    <3>1. \A t \in consumed : (step[t] = "done") <=> (step'[t] = "done")
      BY <1>1, <2>1 DEF TypeOK
    <3> QED  BY <1>1, <3>1, CounterFrame
  <2>6. StepsInv'
    <3>1. \A t \in Solutions : (isCreator(t)' <=> isCreator(t)) /\ key(t)' = key(t)
      BY <1>1 DEF isCreator, key
    <3>2. \A g \in Groups : hasInitializer(g)' <=> hasInitializer(g)
      BY <1>1 DEF hasInitializer
    <3>3. \A g \in Groups : hasInitializer(g) => initializer[g] \in Solutions
      BY DEF StepsInv, TypeOK
    <3>4. s \in consumed
      BY <1>1 DEF StepsInv
    <3>5. (groups = {g \in Groups : hasInitializer(g) /\ step[initializer[g]] = "done"})'
      BY <1>1, <2>1, <3>2, <3>3 DEF StepsInv
    <3>6. \A a \in Aggregates : put'[s][a] \in {"done", "evaluating"}
      BY <2>2, <2>3 DEF startPut
    <3>7. (\A t \in Solutions, a \in Aggregates :
            /\ step[t] \in {"none", "waiting"} => put[t][a] = "none"
            /\ step[t] = "done" => put[t][a] = "done"
            /\ put[t][a] = "creating" => isCreator(t)
            /\ put[t][a] # "none" => isCreator(t) \/ key(t) \in groups)'
      BY <1>1, <1>3, <2>1, <2>3, <3>1, <3>6 DEF StepsInv
    <3>8. (\A t \in Solutions : step[t] = "none" <=> t \notin consumed)'
      BY <1>1, <2>1, <3>4 DEF StepsInv
    <3>9. (\A g \in Groups : hasInitializer(g) =>
             initializer[g] \in consumed /\ key(initializer[g]) = g)'
      BY <1>1, <3>1, <3>2, <3>3 DEF StepsInv
    <3>10. (\A t \in consumed : hasInitializer(key(t)))'
      BY <1>1, <3>1, <3>2, InputFacts DEF StepsInv, TypeOK
    <3>11. (\A t \in Solutions : step[t] = "waiting" => ~isCreator(t))'
      BY <1>1, <2>1, <3>1 DEF StepsInv
    <3>12. /\ (\A t \in Solutions : step[t] = "rejected" => status = "failed")'
           /\ (status = "finished" => waitCounter = 0)'
      BY <1>1, <1>3, <2>1 DEF StepsInv
    <3> QED  BY <3>5, <3>7, <3>8, <3>9, <3>10, <3>11, <3>12 DEF StepsInv
  <2>7. AggregatorsInv'
    <3> SUFFICES ASSUME NEW g \in Groups, NEW a \in Aggregates
                 PROVE  /\ putIn(g, a) \subseteq putIn(g, a)'
                        /\ ~aggregator[g][a].error => putIn(g, a)' = putIn(g, a)
      BY <1>1, AggregatorsFrame
    <3>1. put[s][a] = "none"
      BY <1>1 DEF StepsInv
    <3>2. key(s) = g /\ ~aggregator[g][a].error => put'[s][a] # "done"
      BY <2>3 DEF startPut
    <3> QED  BY <1>1, <2>3, <3>1, <3>2 DEF putIn, key, TypeOK
  <2> QED  BY <2>4, <2>5, <2>6, <2>7
<1> QED  BY <1>1, <1>2, <1>3 DEF GroupAwaited

(* The input stream fails. *)
LEMMA InputFailsStep ==
  ASSUME Inv, InputFails
  PROVE  Inv'
<1> USE DEF Inv
<1>1. status' = "failed"
  BY DEF InputFails, reject
<1>2. TypeOK'
  BY <1>1 DEF InputFails, TypeOK
<1>3. CounterAccounts'
  BY CounterFrame DEF InputFails
<1>4. StepsInv'
  BY <1>1 DEF InputFails, StepsInv, hasInitializer, isCreator, key
<1>5. AggregatorsInv'
  BY PutInFrame, AggregatorsFrame DEF InputFails
<1> QED  BY <1>2, <1>3, <1>4, <1>5

-----------------------------------------------------------------------------
(* What subtractAndCollect does to the state of the stream. *)
LEMMA SubtractFacts ==
  ASSUME Inv, NEW gs, subtractAndCollect(gs), status # "finished"
  PROVE  /\ waitCounter' = waitCounter - 1
         /\ \/ status' = status /\ rows' = rows
            \/ /\ status = "running" /\ status' = "finished" /\ waitCounter = 1
               /\ rows' = collectedRows(gs)
         /\ status' \in {"running", "finished", "failed"}
         /\ status = "failed" => status' = "failed"
         /\ status' = "finished" => waitCounter' = 0
BY DEF subtractAndCollect, Inv, TypeOK

(* A solution is done, and its group complete with the first one. *)
LEMMA SolutionDoneStep ==
  ASSUME Inv, NEW s \in Solutions, SolutionDone(s)
  PROVE  Inv'
<1> USE DEF Inv
<1>1. /\ step[s] = "putting" /\ \A a \in Aggregates : put[s][a] = "done"
      /\ step' = [step EXCEPT ![s] = "done"]
      /\ groups' = IF isCreator(s) THEN groups \cup {key(s)} ELSE groups
      /\ subtractAndCollect(groups')
      /\ UNCHANGED <<input, consumed, ended, initializer, put, aggregator>>
  BY DEF SolutionDone
<1>2. /\ step'[s] = "done" /\ \A t \in Solutions : t # s => step'[t] = step[t]
      /\ step' \in [Solutions -> StepStates]
  BY <1>1 DEF TypeOK, StepStates
<1>3. /\ status' \in {"running", "finished", "failed"}
      /\ waitCounter' = waitCounter - 1
      /\ status = "failed" => status' = "failed"
      /\ status' = "finished" => waitCounter' = 0
  BY <1>1, NotFinished, SubtractFacts
<1>4. s \in unfinished /\ s \in consumed
  BY <1>1 DEF unfinished, StepsInv
<1>5. TypeOK'
  <2>1. waitCounter' \in Nat
    BY <1>3, <1>4, LastOne DEF TypeOK
  <2>2. groups' \subseteq Groups
    BY <1>1, InputFacts DEF TypeOK
  <2> QED  BY <1>1, <1>2, <1>3, <2>1, <2>2 DEF TypeOK, StepStates
<1>6. CounterAccounts'
  <2>1. unfinished' = unfinished \ {s}
    BY <1>1, <1>2 DEF unfinished, TypeOK
  <2>2. Cardinality(unfinished \ {s}) = Cardinality(unfinished) - 1
    BY <1>4, CountFacts, FS_RemoveElement
  <2> QED  BY <1>1, <1>3, <2>1, <2>2, CountFacts DEF CounterAccounts
<1>7. StepsInv'
  <2>1. \A t \in Solutions : (isCreator(t)' <=> isCreator(t)) /\ key(t)' = key(t)
    BY <1>1 DEF isCreator, key
  <2>2. \A g \in Groups : hasInitializer(g)' <=> hasInitializer(g)
    BY <1>1 DEF hasInitializer
  <2>3. \A g \in Groups : hasInitializer(g) =>
          initializer[g] \in Solutions /\ key(initializer[g]) = g
    BY DEF StepsInv, TypeOK
  <2>4. groups' = {g \in Groups : hasInitializer(g) /\ step'[initializer[g]] = "done"}
    <3>1. key(s) \in Groups /\ (isCreator(s) => hasInitializer(key(s)))
      BY InputFacts, GroupsAssumption DEF isCreator, hasInitializer
    <3>2. \A g \in Groups : hasInitializer(g) /\ initializer[g] = s <=>
                            isCreator(s) /\ g = key(s)
      BY <2>3, <3>1 DEF isCreator
    <3>3. \A g \in Groups :
            hasInitializer(g) /\ step'[initializer[g]] = "done" <=>
              g \in groups \/ (isCreator(s) /\ g = key(s))
      BY <1>2, <2>3, <3>2 DEF StepsInv
    <3>4. groups \subseteq Groups
      BY DEF TypeOK
    <3> QED  BY <1>1, <3>1, <3>3, <3>4
  <2>5. (groups = {g \in Groups : hasInitializer(g) /\ step[initializer[g]] = "done"})'
    BY <1>1, <2>2, <2>4
  <2>6. (\A t \in Solutions : step[t] = "none" <=> t \notin consumed)'
    BY <1>1, <1>2, <1>4 DEF StepsInv
  <2>7. (\A g \in Groups : hasInitializer(g) =>
           initializer[g] \in consumed /\ key(initializer[g]) = g)'
    BY <1>1, <2>1, <2>2, <2>3 DEF StepsInv
  <2>8. (\A t \in consumed : hasInitializer(key(t)))'
    BY <1>1, <2>1, <2>2, InputFacts DEF StepsInv, TypeOK
  <2>9. (\A t \in Solutions : step[t] = "waiting" => ~isCreator(t))'
    BY <1>2, <2>1 DEF StepsInv
  <2>10. (\A t \in Solutions, a \in Aggregates :
           /\ step[t] \in {"none", "waiting"} => put[t][a] = "none"
           /\ step[t] = "done" => put[t][a] = "done"
           /\ put[t][a] = "creating" => isCreator(t)
           /\ put[t][a] # "none" => isCreator(t) \/ key(t) \in groups)'
    <3>1. groups \subseteq groups'
      BY <1>1
    <3> QED  BY <1>1, <1>2, <2>1, <3>1 DEF StepsInv
  <2>11. /\ (\A t \in Solutions : step[t] = "rejected" => status = "failed")'
         /\ (status = "finished" => waitCounter = 0)'
    BY <1>2, <1>3 DEF StepsInv
  <2> QED  BY <2>5, <2>6, <2>7, <2>8, <2>9, <2>10, <2>11 DEF StepsInv
<1>8. AggregatorsInv'
  BY <1>1, PutInFrame, AggregatorsFrame
<1> QED  BY <1>5, <1>6, <1>7, <1>8

(* The 'end' listener, with or without the row of an empty input. *)
LEMMA EndStep ==
  ASSUME Inv, CollectResults \/ EmptyRowRejected
  PROVE  Inv'
<1> USE DEF Inv
<1>1. /\ ~ended /\ ended' = TRUE
      /\ UNCHANGED <<input, consumed, initializer, step, put, groups, aggregator>>
  BY DEF CollectResults, EmptyRowRejected
<1>2. /\ status' \in {"running", "finished", "failed"}
      /\ waitCounter' = waitCounter - 1
      /\ status = "failed" => status' = "failed"
      /\ status' = "finished" => waitCounter' = 0
  <2>1. CASE CollectResults
    BY <2>1, NotFinished, SubtractFacts DEF CollectResults
  <2>2. CASE EmptyRowRejected
    BY <2>2, NotFinished DEF EmptyRowRejected, reject, TypeOK
  <2> QED  BY <2>1, <2>2
<1>3. TypeOK'
  <2>1. waitCounter' \in Nat
    BY <1>1, <1>2, LastOne DEF TypeOK
  <2> QED  BY <1>1, <1>2, <2>1 DEF TypeOK
<1>4. CounterAccounts'
  <2>1. unfinished' = unfinished
    BY <1>1 DEF unfinished
  <2> QED  BY <1>1, <1>2, <2>1, CountFacts DEF CounterAccounts
<1>5. StepsInv'
  BY <1>1, <1>2 DEF StepsInv, hasInitializer, isCreator, key
<1>6. AggregatorsInv'
  BY <1>1, PutInFrame, AggregatorsFrame
<1> QED  BY <1>3, <1>4, <1>5, <1>6

LEMMA StutterStep == Inv /\ UNCHANGED vars => Inv'
<1> SUFFICES ASSUME Inv, UNCHANGED vars PROVE Inv'
  OBVIOUS
<1> USE DEF Inv, vars
<1>1. TypeOK'
  BY DEF TypeOK
<1>2. CounterAccounts'
  BY CounterFrame
<1>3. StepsInv'
  BY DEF StepsInv, hasInitializer, isCreator, key
<1>4. AggregatorsInv'
  BY PutInFrame, AggregatorsFrame
<1> QED  BY <1>1, <1>2, <1>3, <1>4

LEMMA InvStep == Inv /\ [Next]_vars => Inv'
<1> SUFFICES ASSUME Inv, [Next]_vars PROVE Inv'
  OBVIOUS
<1>1. ASSUME NEW s \in Solutions, Consume(s) \/ GroupAwaited(s) \/ SolutionDone(s)
      PROVE  Inv'
  BY <1>1, ConsumeStep, GroupAwaitedStep, SolutionDoneStep
<1>2. ASSUME NEW s \in Solutions, NEW a \in Aggregates,
             AggregatorCreated(s, a) \/ AggregatorRejected(s, a) \/ Evaluated(s, a)
      PROVE  Inv'
  BY <1>2, AggregatorCreatedStep, AggregatorRejectedStep, EvaluatedStep
<1>3. CASE CollectResults \/ EmptyRowRejected \/ InputFails
  BY <1>3, EndStep, InputFailsStep
<1>4. CASE UNCHANGED vars
  BY <1>4, StutterStep
<1> QED  BY <1>1, <1>2, <1>3, <1>4 DEF Next

LEMMA Invariance == Spec => []Inv
BY InitInv, InvStep, PTL DEF Spec

(* The variables keep their types: the counter never goes below zero.      *)
THEOREM TypeCorrect == Spec => []TypeOK
<1>1. Inv => TypeOK
  BY DEF Inv
<1> QED  BY <1>1, Invariance, PTL

(* The counter that decides when the rows are collected counts the         *)
(* solutions under way and the call of collectResults that is to come.     *)
THEOREM CounterCorrect == Spec => []CounterAccounts
<1>1. Inv => CounterAccounts
  BY DEF Inv
<1> QED  BY <1>1, Invariance, PTL

-----------------------------------------------------------------------------
(* The refinement: the rows that are collected are those of GROUP BY.      *)
LEMMA SameInput ==
  \A s, a : Promise!key(s) = key(s) /\ Promise!evaluation(s, a) = evaluation(s, a)
BY DEF Promise!key, Promise!evaluation, key, evaluation

(* An aggregator that was given all of its group gives the right value.    *)
LEMMA ResultCorrect ==
  ASSUME Inv, NEW g \in Groups, NEW a \in Aggregates,
         \A s \in consumed : put[s][a] = "done"
  PROVE  /\ result(g, a) \in Promise!Values
         /\ Promise!CorrectAggregate(result(g, a), g, a, consumed)
<1>1. /\ aggregator[g][a].terms \subseteq Solutions
      /\ aggregator[g][a].error \in BOOLEAN
      /\ consumed \subseteq Solutions
  BY DEF Inv, TypeOK
<1>2. putIn(g, a) = {s \in consumed : key(s) = g}
  BY DEF putIn
<1>3. rightSoFar(g, a)
  BY DEF Inv, AggregatorsInv
<1>4. result(g, a) \in Promise!Values
  BY <1>1 DEF result, Promise!Values
<1>5. Promise!termsOf(g, a, consumed) = {s \in putIn(g, a) : evaluation(s, a) \in Terms}
  BY <1>2, SameInput DEF Promise!termsOf
<1>6. CASE aggregator[g][a].error
  <2>1. \E s \in consumed : key(s) = g /\ evaluation(s, a) = Failed
    BY <1>2, <1>3, <1>6 DEF rightSoFar
  <2>2. result(g, a) = Undefined
    BY <1>6 DEF result
  <2> QED  BY <1>4, <2>1, <2>2, SameInput DEF Promise!CorrectAggregate
<1>7. CASE ~aggregator[g][a].error
  <2>1. ~ \E s \in consumed : key(s) = g /\ evaluation(s, a) = Failed
    BY <1>2, <1>3, <1>7 DEF rightSoFar
  <2>2. PICK v : v = result(g, a) /\ v = aggregator[g][a].terms
    BY <1>7 DEF result
  <2>3. v # Undefined /\ v \subseteq Promise!termsOf(g, a, consumed)
    BY <1>1, <1>3, <1>5, <2>2, GroupsAssumption DEF rightSoFar
  <2>4. a \notin Distinct => v = Promise!termsOf(g, a, consumed)
    BY <1>3, <1>5, <1>7, <2>2, <2>3 DEF rightSoFar
  <2>5. \A s \in Promise!termsOf(g, a, consumed) :
          \E t \in v : evaluation(t, a) = evaluation(s, a)
    BY <1>3, <1>5, <1>7, <2>2 DEF rightSoFar
  <2>6. a \in Distinct =>
          \A s, t \in v : evaluation(s, a) = evaluation(t, a) => s = t
    BY <1>3, <2>2 DEF rightSoFar
  <2> QED  BY <1>4, <2>1, <2>2, <2>3, <2>4, <2>5, <2>6, SameInput
           DEF Promise!CorrectAggregate
<1> QED  BY <1>6, <1>7

LEMMA CollectedRowsCorrect ==
  ASSUME Inv, NEW gs, gs = {key(s) : s \in consumed},
         \A s \in consumed, a \in Aggregates : put[s][a] = "done"
  PROVE  /\ collectedRows(gs) \in
              [Promise!groupsOf(consumed) -> [Aggregates -> Promise!Values]]
         /\ Promise!CorrectRows(collectedRows(gs), consumed)
<1>1. gs \subseteq Groups
  BY InputFacts DEF Inv, TypeOK
<1>2. CASE consumed = {} /\ groupsByNothing
  <2>1. Promise!groupsOf(consumed) = {Everything}
    BY <1>2, SameInput DEF Promise!groupsOf, groupsByNothing
  <2>2. gs = {}
    BY <1>2
  <2>3. collectedRows(gs) = [g \in {Everything} |-> [a \in Aggregates |-> {}]]
    BY <1>2, <2>2 DEF collectedRows, NewAggregator
  <2>4. {} \in Promise!Values
    BY DEF Promise!Values
  <2>5. \A g, a : Promise!CorrectAggregate({}, g, a, consumed)
    BY <1>2, GroupsAssumption DEF Promise!CorrectAggregate, Promise!termsOf
  <2> QED  BY <2>1, <2>3, <2>4, <2>5 DEF Promise!CorrectRows
<1>3. CASE ~(consumed = {} /\ groupsByNothing)
  <2>1. Promise!groupsOf(consumed) = gs
    <3>1. (\A s \in Solutions : Promise!key(s) = Everything) <=> groupsByNothing
      BY SameInput DEF groupsByNothing
    <3>2. {Promise!key(s) : s \in consumed} = gs
      BY SameInput
    <3> QED  BY <1>3, <3>1, <3>2 DEF Promise!groupsOf
  <2>2. gs = {} => consumed = {}
    OBVIOUS
  <2>3. collectedRows(gs) = [g \in gs |-> [a \in Aggregates |-> result(g, a)]]
    BY <1>3, <2>2 DEF collectedRows
  <2>4. \A g \in gs, a \in Aggregates :
          /\ result(g, a) \in Promise!Values
          /\ Promise!CorrectAggregate(result(g, a), g, a, consumed)
    BY <1>1, ResultCorrect
  <2>5. PICK r : r = collectedRows(gs)
    OBVIOUS
  <2>6. /\ DOMAIN r = gs
        /\ \A g \in gs, a \in Aggregates : r[g][a] = result(g, a)
    BY <2>3, <2>5
  <2>7. r \in [gs -> [Aggregates -> Promise!Values]]
    BY <2>3, <2>4, <2>5
  <2>8. Promise!CorrectRows(r, consumed)
    BY <2>1, <2>4, <2>6 DEF Promise!CorrectRows
  <2> QED  BY <2>1, <2>5, <2>7, <2>8
<1> QED  BY <1>2, <1>3

(* When all solutions are done, their groups are all there. *)
LEMMA FinishedGroups ==
  ASSUME Inv, \A s \in consumed : step[s] = "done"
  PROVE  groups = {key(s) : s \in consumed}
<1>1. \A g \in Groups : hasInitializer(g) => initializer[g] \in consumed /\ key(initializer[g]) = g
  BY DEF Inv, StepsInv
<1>2. \A s \in consumed : key(s) \in Groups /\ hasInitializer(key(s))
  BY InputFacts DEF Inv, StepsInv, TypeOK
<1> QED  BY <1>1, <1>2 DEF Inv, StepsInv

LEMMA SolutionDoneFinishes ==
  ASSUME Inv, NEW s \in Solutions, SolutionDone(s)
  PROVE  [Promise!Next]_(Promise!vars)
<1>1. /\ step[s] = "putting" /\ \A a \in Aggregates : put[s][a] = "done"
      /\ subtractAndCollect(groups')
      /\ UNCHANGED <<input, consumed>>
  BY DEF SolutionDone
<1>2. \/ UNCHANGED <<input, consumed, status, rows>>
      \/ /\ status = "running" /\ status' = "finished" /\ waitCounter = 1
         /\ rows' = collectedRows(groups')
  BY <1>1, NotFinished, SubtractFacts
<1>3. CASE /\ status = "running" /\ status' = "finished" /\ waitCounter = 1
           /\ rows' = collectedRows(groups')
  <2>1. s \in unfinished /\ \A t \in consumed : t # s => step[t] = "done"
    BY <1>1, <1>3, LastOne DEF Inv, StepsInv, unfinished
  <2>2. \A t \in consumed, a \in Aggregates : put[t][a] = "done"
    BY <1>1, <2>1 DEF Inv, StepsInv, TypeOK
  <2>3. groups' = {key(t) : t \in consumed}
    <3>1. \A g \in Groups : hasInitializer(g) =>
            initializer[g] \in consumed /\ key(initializer[g]) = g
      BY DEF Inv, StepsInv
    <3>2. \A t \in consumed : key(t) \in Groups /\ hasInitializer(key(t))
      BY InputFacts DEF Inv, StepsInv, TypeOK
    <3>3. groups = {g \in Groups : hasInitializer(g) /\ step[initializer[g]] = "done"}
      BY DEF Inv, StepsInv
    <3>4. \A t \in consumed : isCreator(t) <=> initializer[key(t)] = t
      BY DEF isCreator
    <3>5. s \in consumed
      BY <2>1 DEF unfinished
    <3>6. groups' = IF isCreator(s) THEN groups \cup {key(s)} ELSE groups
      BY DEF SolutionDone
    <3>7. ASSUME NEW t \in consumed PROVE key(t) \in groups'
      <4>1. CASE initializer[key(t)] = s
        BY <3>1, <3>2, <3>6, <4>1 DEF isCreator
      <4>2. CASE initializer[key(t)] # s
        BY <3>1, <3>2, <3>3, <3>6, <4>2, <2>1
      <4> QED  BY <4>1, <4>2
    <3>8. ASSUME NEW g \in groups' PROVE \E t \in consumed : g = key(t)
      BY <3>1, <3>3, <3>5, <3>6
    <3> QED  BY <3>7, <3>8
  <2>4. Promise!Finish
    BY <1>1, <1>3, <2>2, <2>3, CollectedRowsCorrect DEF Promise!Finish
  <2> QED  BY <2>4 DEF Promise!Next
<1> QED  BY <1>2, <1>3 DEF Promise!vars

LEMMA CollectResultsFinishes ==
  ASSUME Inv, CollectResults
  PROVE  [Promise!Next]_(Promise!vars)
<1>1. ~ended /\ subtractAndCollect(groups) /\ UNCHANGED <<input, consumed>>
  BY DEF CollectResults
<1>2. \/ UNCHANGED <<input, consumed, status, rows>>
      \/ /\ status = "running" /\ status' = "finished" /\ waitCounter = 1
         /\ rows' = collectedRows(groups)
  BY <1>1, NotFinished, SubtractFacts
<1>3. CASE /\ status = "running" /\ status' = "finished" /\ waitCounter = 1
           /\ rows' = collectedRows(groups)
  <2>1. \A t \in consumed : step[t] = "done"
    BY <1>1, <1>3, LastOne DEF Inv, unfinished
  <2>2. \A t \in consumed, a \in Aggregates : put[t][a] = "done"
    BY <2>1 DEF Inv, StepsInv, TypeOK
  <2>3. Promise!Finish
    BY <1>1, <1>3, <2>1, <2>2, FinishedGroups, CollectedRowsCorrect DEF Promise!Finish
  <2> QED  BY <2>3 DEF Promise!Next
<1> QED  BY <1>2, <1>3 DEF Promise!vars

(* The other steps only consume a solution or fail the stream. *)
LEMMA RefinementStep == Inv /\ [Next]_vars => [Promise!Next]_(Promise!vars)
<1> SUFFICES ASSUME Inv, [Next]_vars PROVE [Promise!Next]_(Promise!vars)
  OBVIOUS
<1>1. ASSUME NEW s \in Solutions, Consume(s) PROVE Promise!Next
  BY <1>1, NotFinished DEF Consume, Promise!Consume, Promise!Next
<1>2. ASSUME reject, UNCHANGED <<input, consumed, rows>>
      PROVE  [Promise!Next]_(Promise!vars)
  BY <1>2 DEF reject, Promise!Fail, Promise!Next, Promise!vars
<1>3. ASSUME NEW s \in Solutions, GroupAwaited(s)
      PROVE  [Promise!Next]_(Promise!vars)
  BY <1>3, <1>2 DEF GroupAwaited, Promise!vars
<1>4. ASSUME NEW s \in Solutions, NEW a \in Aggregates,
             AggregatorCreated(s, a) \/ AggregatorRejected(s, a) \/ Evaluated(s, a)
      PROVE  [Promise!Next]_(Promise!vars)
  BY <1>4, <1>2 DEF AggregatorCreated, AggregatorRejected, Evaluated, Promise!vars
<1>5. CASE EmptyRowRejected \/ InputFails
  BY <1>5, <1>2 DEF EmptyRowRejected, InputFails
<1>6. CASE UNCHANGED vars
  BY <1>6 DEF vars, Promise!vars
<1> QED  BY <1>1, <1>3, <1>4, <1>5, <1>6, SolutionDoneFinishes, CollectResultsFinishes
         DEF Next

(* GroupsState implements Aggregation: one row per group of the solutions  *)
(* that came in, made of all their terms, whatever the interleaving.       *)
THEOREM AggregationImplemented == Spec => ImplementsAggregation
<1>1. Init => Promise!Init
  BY DEF Init, Promise!Init
<1> QED  BY <1>1, RefinementStep, Invariance, PTL
         DEF Spec, ImplementsAggregation, Promise!AbsSpec
=============================================================================
