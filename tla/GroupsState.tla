---------------------------- MODULE GroupsState ----------------------------
(***************************************************************************)
(* GroupsState and the event listeners of ActorQueryOperationGroup: the    *)
(* solutions of the input stream are put into the aggregators of their     *)
(* groups as they come in, all at the same time, and the rows are collected*)
(* when the last of them is done.                                          *)
(*                                                                         *)
(* One JavaScript thread: an action runs up to the next await.  What is    *)
(* awaited is the creation of an aggregator (by a mediator), the evaluation*)
(* of an expression, and the promise of a group's first solution, which    *)
(* creates the group.                                                      *)
(***************************************************************************)
EXTENDS Integers, FiniteSets

CONSTANTS Solutions, Groups, Aggregates, Terms, Unbound, Failed, Undefined,
          Everything, Distinct, Inputs, NoSolution

ASSUME GroupsAssumption ==
  /\ IsFiniteSet(Solutions) /\ NoSolution \notin Solutions
  /\ Everything \in Groups /\ Distinct \subseteq Aggregates
  /\ Unbound \notin Terms /\ Failed \notin Terms /\ Unbound # Failed
  /\ \A S \in SUBSET Solutions : S # Undefined
  /\ Inputs \subseteq [key: [Solutions -> Groups],
                       evaluation: [Solutions -> [Aggregates -> Terms \cup {Unbound, Failed}]]]

VARIABLES
  input,        \* the groups of the solutions and what evaluates to what
  consumed,     \* the solutions consumeBindings was called with
  ended,        \* resultHasBeenCalled
  waitCounter,
  initializer,  \* groupsInitializer: per group, the solution that creates it
  step,         \* per solution: how far its consumeBindings is
  put,          \* per solution and aggregate: how far its putBindings is
  groups,       \* the groups whose aggregators are complete
  aggregator,   \* per group and aggregate: the state of the aggregator
  status, rows  \* what became of the stream of rows

vars == <<input, consumed, ended, waitCounter, initializer, step, put, groups,
          aggregator, status, rows>>

key(s) == input.key[s]
evaluation(s, a) == input.evaluation[s][a]

(* AggregateEvaluator: errorOccurred, and the solutions whose term was put.*)
NewAggregator == [error |-> FALSE, terms |-> {}]

initialCount == 1  \* the call of collectResults that is to come

Init ==
  /\ input \in Inputs
  /\ consumed = {} /\ ended = FALSE
  /\ waitCounter = initialCount
  /\ initializer = [g \in Groups |-> NoSolution]
  /\ step = [s \in Solutions |-> "none"]
  /\ put = [s \in Solutions |-> [a \in Aggregates |-> "none"]]
  /\ groups = {}
  /\ aggregator = [g \in Groups |-> [a \in Aggregates |-> NewAggregator]]
  /\ status = "running" /\ rows = [g \in {} |-> Undefined]

-----------------------------------------------------------------------------
(* consumeBindings.                                                        *)

isCreator(s) == initializer[key(s)] = s
hasInitializerWhenComplete(g) == g \in groups
hasInitializer(g) == initializer[g] # NoSolution

(* The 'data' listener: the first solution of a group starts creating its  *)
(* aggregators, the others wait for that.                                  *)
Consume(s) ==
  /\ ~ended /\ s \notin consumed
  /\ consumed' = consumed \cup {s}
  /\ waitCounter' = waitCounter + 1
  /\ IF hasInitializer(key(s))
     THEN /\ step' = [step EXCEPT ![s] = "waiting"]
          /\ UNCHANGED <<initializer, put>>
     ELSE /\ initializer' = [initializer EXCEPT ![key(s)] = s]
          /\ step' = [step EXCEPT ![s] = "putting"]
          /\ put' = [put EXCEPT ![s] = [a \in Aggregates |-> "creating"]]
  /\ UNCHANGED <<input, ended, groups, aggregator, status, rows>>

(* putBindings: nothing is evaluated any more after an error. *)
startPut(s, a) ==
  IF aggregator[key(s)][a].error THEN "done" ELSE "evaluating"

(* The mediator hands over the aggregator, and the first solution of the   *)
(* group is put into it.                                                   *)
AggregatorCreated(s, a) ==
  /\ step[s] \in {"putting", "rejected"} /\ put[s][a] = "creating"
  /\ aggregator' = [aggregator EXCEPT ![key(s)][a] = NewAggregator]
  /\ put' = [put EXCEPT ![s][a] = "evaluating"]
  /\ UNCHANGED <<input, consumed, ended, waitCounter, initializer, step, groups,
                 status, rows>>

(* The listeners of the actor reject the stream when consumeBindings does. *)
reject == status' = IF status = "running" THEN "failed" ELSE status

(* No actor creates such an aggregator: the creation of the group is       *)
(* rejected, though its other aggregators may go on.                       *)
AggregatorRejected(s, a) ==
  /\ step[s] = "putting" /\ put[s][a] = "creating"
  /\ step' = [step EXCEPT ![s] = "rejected"]
  /\ reject
  /\ UNCHANGED <<input, consumed, ended, waitCounter, initializer, put, groups,
                 aggregator, rows>>

(* The group is complete, or never will be: a waiting solution goes on.    *)
GroupAwaited(s) ==
  /\ step[s] = "waiting"
  /\ \/ /\ key(s) \in groups
        /\ step' = [step EXCEPT ![s] = "putting"]
        /\ put' = [put EXCEPT ![s] = [a \in Aggregates |-> startPut(s, a)]]
        /\ UNCHANGED status
     \/ /\ step[initializer[key(s)]] = "rejected"
        /\ step' = [step EXCEPT ![s] = "rejected"]
        /\ reject
        /\ UNCHANGED put
  /\ UNCHANGED <<input, consumed, ended, waitCounter, initializer, groups,
                 aggregator, rows>>

(* DISTINCT is handled when the term is known, after the await. *)
isDuplicate(s, a) ==
  /\ a \in Distinct
  /\ \E t \in aggregator[key(s)][a].terms : evaluation(t, a) = evaluation(s, a)

(* The expression was evaluated: its term is put, an unbound variable is   *)
(* ignored, and an error spoils the aggregator.                            *)
Evaluated(s, a) ==
  LET agg == aggregator[key(s)][a] IN
  /\ step[s] \in {"putting", "rejected"} /\ put[s][a] = "evaluating"
  /\ put' = [put EXCEPT ![s][a] = "done"]
  /\ \/ /\ evaluation(s, a) = Failed
        /\ aggregator' = [aggregator EXCEPT ![key(s)][a].error = TRUE]
     \/ /\ evaluation(s, a) \in Terms /\ ~agg.error /\ ~isDuplicate(s, a)
        /\ aggregator' = [aggregator EXCEPT ![key(s)][a].terms = @ \cup {s}]
     \/ /\ \/ evaluation(s, a) = Unbound
           \/ evaluation(s, a) \in Terms /\ (agg.error \/ isDuplicate(s, a))
        /\ UNCHANGED aggregator
  /\ UNCHANGED <<input, consumed, ended, waitCounter, initializer, step, groups,
                 status, rows>>

-----------------------------------------------------------------------------
(* subtractWaitCounterAndCollect and handleResultCollection.               *)

result(g, a) ==
  IF aggregator[g][a].error THEN Undefined ELSE aggregator[g][a].terms

(* A query that groups by nothing gets its row from new aggregators when   *)
(* there was no input.                                                     *)
groupsByNothing == \A s \in Solutions : key(s) = Everything

collectedRows(gs) ==
  IF gs = {} /\ groupsByNothing
  THEN [g \in {Everything} |-> [a \in Aggregates |-> NewAggregator.terms]]
  ELSE [g \in gs |-> [a \in Aggregates |-> result(g, a)]]

subtractAndCollectAtEndOnly(gs) ==
  /\ waitCounter' = waitCounter - 1
  /\ IF waitCounter = 1 /\ ~ended /\ status = "running"
     THEN status' = "finished" /\ rows' = collectedRows(gs)
     ELSE UNCHANGED <<status, rows>>
subtractAndCollect(gs) ==
  /\ waitCounter' = waitCounter - 1
  /\ IF waitCounter = 1 /\ status = "running"
     THEN status' = "finished" /\ rows' = collectedRows(gs)
     ELSE UNCHANGED <<status, rows>>

(* All aggregators took the solution; with the first one, the group counts.*)
SolutionDone(s) ==
  /\ step[s] = "putting" /\ \A a \in Aggregates : put[s][a] = "done"
  /\ step' = [step EXCEPT ![s] = "done"]
  /\ groups' = IF isCreator(s) THEN groups \cup {key(s)} ELSE groups
  /\ subtractAndCollect(groups')
  /\ UNCHANGED <<input, consumed, ended, initializer, put, aggregator>>

(* The 'end' listener: collectResults. *)
CollectResultsUncounted ==
  /\ ~ended
  /\ ended' = TRUE
  /\ UNCHANGED <<input, consumed, waitCounter, initializer, step, put, groups,
                 aggregator, status, rows>>
CollectResults ==
  /\ ~ended
  /\ ended' = TRUE
  /\ subtractAndCollect(groups)
  /\ UNCHANGED <<input, consumed, initializer, step, put, groups, aggregator>>

(* The aggregators for the row of an empty input cannot be created.        *)
EmptyRowRejected ==
  /\ ~ended /\ waitCounter = 1 /\ groups = {} /\ groupsByNothing
  /\ ended' = TRUE /\ waitCounter' = 0
  /\ reject
  /\ UNCHANGED <<input, consumed, initializer, step, put, groups, aggregator, rows>>

(* The 'error' listener of the input stream. *)
InputFails ==
  /\ ~ended /\ status = "running"
  /\ reject
  /\ UNCHANGED <<input, consumed, ended, waitCounter, initializer, step, put,
                 groups, aggregator, rows>>

Next ==
  \/ \E s \in Solutions :
       \/ Consume(s) \/ GroupAwaited(s) \/ SolutionDone(s)
       \/ \E a \in Aggregates :
            AggregatorCreated(s, a) \/ AggregatorRejected(s, a) \/ Evaluated(s, a)
  \/ CollectResults \/ EmptyRowRejected \/ InputFails

Spec == Init /\ [][Next]_vars

(* Promises settle and their callbacks run. *)
Fairness ==
  \A s \in Solutions :
    /\ WF_vars(GroupAwaited(s)) /\ WF_vars(SolutionDone(s))
    /\ \A a \in Aggregates :
         WF_vars(AggregatorCreated(s, a)) /\ WF_vars(Evaluated(s, a))

FairSpec == Spec /\ Fairness

-----------------------------------------------------------------------------
TypeOK ==
  /\ input \in Inputs
  /\ consumed \subseteq Solutions /\ ended \in BOOLEAN /\ waitCounter \in Nat
  /\ initializer \in [Groups -> Solutions \cup {NoSolution}]
  /\ step \in [Solutions -> {"none", "waiting", "putting", "done", "rejected"}]
  /\ put \in [Solutions -> [Aggregates -> {"none", "creating", "evaluating", "done"}]]
  /\ groups \subseteq Groups
  /\ aggregator \in
       [Groups -> [Aggregates -> [error: BOOLEAN, terms: SUBSET Solutions]]]
  /\ status \in {"running", "finished", "failed"}

unfinished == {s \in consumed : step[s] # "done"}

(* The counter that decides when the rows are collected counts exactly the *)
(* solutions under way and the call of collectResults that is to come.     *)
CounterAccounts ==
  waitCounter = Cardinality(unfinished) + (IF ended THEN 0 ELSE 1)

(* The remaining parts of the inductive invariant: how the steps of the    *)
(* solutions depend on the first one of their group, ...                   *)
StepsInv ==
  /\ \A s \in Solutions : step[s] = "none" <=> s \notin consumed
  /\ \A g \in Groups : hasInitializer(g) =>
       initializer[g] \in consumed /\ key(initializer[g]) = g
  /\ \A s \in consumed : hasInitializer(key(s))
  /\ \A s \in Solutions : step[s] = "waiting" => ~isCreator(s)
  /\ groups = {g \in Groups : hasInitializer(g) /\ step[initializer[g]] = "done"}
  /\ \A s \in Solutions, a \in Aggregates :
       /\ step[s] \in {"none", "waiting"} => put[s][a] = "none"
       /\ step[s] = "done" => put[s][a] = "done"
       /\ put[s][a] = "creating" => isCreator(s)
       /\ put[s][a] # "none" => isCreator(s) \/ key(s) \in groups
  /\ \A s \in Solutions : step[s] = "rejected" => status = "failed"
  /\ status = "finished" => waitCounter = 0

(* ... and what is in an aggregator when some solutions have been put.     *)
putIn(g, a) == {s \in consumed : key(s) = g /\ put[s][a] = "done"}

rightSoFar(g, a) ==
  LET agg == aggregator[g][a] IN
  /\ agg.terms \subseteq {s \in putIn(g, a) : evaluation(s, a) \in Terms}
  /\ agg.error => \E s \in putIn(g, a) : evaluation(s, a) = Failed
  /\ ~agg.error => \A s \in putIn(g, a) :
       /\ evaluation(s, a) # Failed
       /\ evaluation(s, a) \in Terms =>
            \E t \in agg.terms : evaluation(t, a) = evaluation(s, a)
       /\ evaluation(s, a) \in Terms /\ a \notin Distinct => s \in agg.terms
  /\ a \in Distinct => \A s, t \in agg.terms :
       evaluation(s, a) = evaluation(t, a) => s = t

AggregatorsInv == \A g \in Groups, a \in Aggregates : rightSoFar(g, a)

(* The stream of rows gives what GROUP BY promises, however the puts into  *)
(* the aggregators and the creation of the groups interleave.              *)
Promise == INSTANCE Aggregation WITH
  input <- input, consumed <- consumed, status <- status, rows <- rows
ImplementsAggregation == Promise!AbsSpec

(* Once the input has ended, the rows or an error come: the collection is  *)
(* not missed by everyone.                                                 *)
EventuallySettled == ended ~> (status # "running")
=============================================================================
