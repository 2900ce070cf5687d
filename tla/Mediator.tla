------------------------------ MODULE Mediator ------------------------------
(***************************************************************************)
(* A mediator at work over a bus: packages/core/lib/Mediator.ts and its    *)
(* subclasses MediatorRace, MediatorNumber, MediatorJoinCoefficientsFixed, *)
(* MediatorAll, MediatorCombinePipeline and MediatorCombineUnion. The      *)
(* tests of the actors settle in any order, and so do the runs.            *)
(***************************************************************************)
EXTENDS Bus, Integers

CONSTANTS
  Strategies,     \* the configurations of mediators
  Values,         \* the numbers a test of MediatorNumber or a pipeline yields
  Coefficients,   \* the coefficients a test of a join actor yields
  Undefined,      \* what a test without a number yields
  MaxWiring,      \* bound: mediations follow at most so many operations on the bus
  Weights         \* cpu, memory, time and io weight of the join mediator

NoStrategy == [type |-> "none", filter |-> FALSE, order |-> "none", limit |-> 0]
Infinity == 1000     \* above every value and every cost
NoReply == [status |-> "pending", value |-> Undefined]

\* type: which class; filter: ignoreFailures or filterFailures; order: "min" or
\* "max" of MediatorNumber, "increasing", "decreasing" or "none" of a pipeline;
\* limit: the limit indicator of the context, 0 if there is none.
IsStrategy(s) ==
  /\ s.type \in {"race", "number", "coefficients", "all", "pipeline", "union"}
  /\ s.filter \in BOOLEAN
  /\ s.type = "number" => s.order \in {"min", "max"}
  /\ s.type # "number" => s.order \in {"none", "increasing", "decreasing"}
  /\ s.limit \in Nat

ASSUME MediatorAssumption ==
  /\ \A s \in Strategies : IsStrategy(s)
  /\ MaxWiring \in Nat
  /\ Values \subseteq 0 .. Infinity - 1 /\ Undefined \notin Values
  /\ \A c \in Coefficients :
       c \in [iterations : Nat, persistedItems : Nat, blockingItems : Nat, requestTime : Nat]
  /\ Weights \in [cpu : Nat, memory : Nat, time : Nat, io : Nat]

VARIABLES
  strategy,    \* the mediator that was asked
  phase,       \* how far the call of mediate is
  tests,       \* the replies the bus returned: the actor and what its test gave
  settled,     \* MediatorRace: the positions of tests in the order they settled
  selected,    \* the positions that are left after filtering, in order
  cursor,      \* the reply that is awaited, when they are awaited in turn
  plan,        \* what is to be run: positions and whose side data they get
  ran,         \* the part of plan that was started
  outputs      \* what the runs gave

mediationVars ==
  <<strategy, phase, tests, settled, selected, cursor, plan, ran, outputs>>
vars == <<busVars, mediationVars>>

Positions == DOMAIN tests
With(status) == {i \in Positions : tests[i].reply.status = status}
AllSettledPassed(is) == \A i \in is : tests[i].reply.status = "passed"
AllSettled(is) == \A i \in is : tests[i].reply.status # "pending"

-----------------------------------------------------------------------------
(* The choice of an actor. *)

\* The value of a failed test that is ignored is null, which is never picked;
\* one without the field counts as infinitely bad.
NumberOf(i) ==
  IF tests[i].reply.value # Undefined THEN tests[i].reply.value
  ELSE IF strategy.order = "min" THEN Infinity ELSE -Infinity

BetterOrEqual(i, j) ==
  IF strategy.order = "min" THEN NumberOf(i) <= NumberOf(j) ELSE NumberOf(i) >= NumberOf(j)
Better(i, j) ==
  IF strategy.order = "min" THEN NumberOf(i) < NumberOf(j) ELSE NumberOf(i) > NumberOf(j)

indexPicker ==
  LET best[k \in 0 .. Len(tests)] ==
        IF k = 0 THEN 0
        ELSE IF k \in With("passed") /\ (best[k - 1] = 0 \/ Better(k, best[k - 1])) THEN k
        ELSE best[k - 1]
  IN best[Len(tests)]

BaseCost(i) ==
  LET c == tests[i].reply.value
  IN c.iterations * Weights.cpu + c.persistedItems * Weights.memory
     + c.blockingItems * Weights.time + c.requestTime * Weights.io

maxCost ==
  IF With("passed") = {} THEN -Infinity
  ELSE Max({BaseCost(i) : i \in With("passed")})

\* Blocking more than the limit of the query makes a join as bad as the worst.
Cost(i) ==
  LET c == tests[i].reply.value
  IN IF strategy.limit > 0 /\ c.blockingItems > 0 /\ c.iterations > strategy.limit
     THEN BaseCost(i) + maxCost ELSE BaseCost(i)

minIndex ==
  LET min[k \in 0 .. Len(tests)] ==
        IF k = 0 THEN 0
        ELSE IF k \in With("passed") /\ (min[k - 1] = 0 \/ Cost(k) < Cost(min[k - 1])) THEN k
        ELSE min[k - 1]
  IN min[Len(tests)]

-----------------------------------------------------------------------------
MediatorInit ==
  /\ strategy = NoStrategy
  /\ phase = "idle"
  /\ tests = <<>> /\ settled = <<>> /\ selected = <<>>
  /\ cursor = 0
  /\ plan = <<>> /\ ran = <<>> /\ outputs = <<>>

Init == BusInit /\ MediatorInit

Decide(todo) == phase' = "running" /\ plan' = todo
Refuse == phase' = "refused" /\ UNCHANGED plan

\* Mediator.publish throws when the bus is empty: the mediators that combine
\* catch that and go on with no results, a pipeline returns its input.
Mediate(s, id) ==
  LET as == publish(id)
      awaitsInTurn == s.type = "all" \/ (s.type \in {"pipeline", "union"} /\ s.filter)
  IN /\ phase = "idle" /\ operations <= MaxWiring
     /\ strategy' = s
     /\ tests' = [i \in DOMAIN as |-> [actor |-> as[i], reply |-> NoReply]]
     /\ phase' = IF as = <<>>
                 THEN CASE s.type \in {"race", "number", "coefficients"} -> "refused"
                        [] s.type = "pipeline" -> "answered"
                        [] OTHER -> "running"
                 ELSE IF awaitsInTurn THEN "filtering"
                 ELSE IF s.type \in {"pipeline", "union"} THEN "delegating"
                 ELSE "choosing"
     /\ selected' = IF awaitsInTurn THEN <<>> ELSE [i \in DOMAIN as |-> i]
     /\ cursor' = 1
     /\ UNCHANGED <<settled, plan, ran, outputs, busVars>>

Replies ==
  [status : {"passed"}, value : IF strategy.type = "coefficients" THEN Coefficients
                                ELSE Values \cup {Undefined}]
  \cup [status : {"failed", "rejected"}, value : {Undefined}]

\* The test of an actor settles.
Settle(i) ==
  /\ i \in With("pending")
  /\ \E reply \in Replies : tests' = [tests EXCEPT ![i].reply = reply]
  /\ settled' = IF strategy.type = "race" THEN Append(settled, i) ELSE settled
  /\ UNCHANGED <<strategy, phase, selected, cursor, plan, ran, outputs, busVars>>

Mediating == UNCHANGED <<strategy, tests, settled, busVars>>

\* MediatorRace: the first test to pass decides; a rejection before it, or the
\* failure of all, is the answer to the caller.
RaceDecides ==
  /\ phase = "choosing" /\ strategy.type = "race"
  /\ LET k == SelectInSeq(settled, LAMBDA i : tests[i].reply.status # "failed")
     IN IF k > 0 /\ tests[settled[k]].reply.status = "passed"
        THEN Decide(<<[position |-> settled[k], sideData |-> settled[k]]>>)
        ELSE (k > 0 \/ With("failed") = Positions) /\ Refuse
  /\ Mediating /\ UNCHANGED <<selected, cursor, ran, outputs>>

\* MediatorNumber and MediatorJoinCoefficientsFixed wait for all tests; only
\* the former may be told not to ignore the failed ones.
ChoiceDecides ==
  /\ phase = "choosing" /\ strategy.type \in {"number", "coefficients"}
  /\ LET pick == IF strategy.type = "number" THEN indexPicker ELSE minIndex
         strict == strategy.type = "number" /\ ~strategy.filter
     IN \/ With("rejected") # {} /\ Refuse
        \/ /\ AllSettled(Positions) /\ With("rejected") = {}
           /\ IF pick = 0 \/ (strict /\ With("failed") # {}) THEN Refuse
              ELSE Decide(<<[position |-> pick, sideData |-> pick]>>)
  /\ Mediating /\ UNCHANGED <<selected, cursor, ran, outputs>>

\* The side data stay in the order of the replies, whatever the sort does.
stepsByIndex(order) == [k \in DOMAIN order |-> [position |-> order[k], sideData |-> k]]
steps(order) ==
  [k \in DOMAIN order |-> [position |-> order[k], sideData |-> selected[k]]]

keptUnlessRejected(i) == i \notin With("rejected")
kept(i) == i \in With("passed")

\* MediatorAll, and filterFailures: the replies are awaited one after the other.
FilterNext ==
  /\ phase = "filtering" /\ cursor \in Positions
  /\ tests[cursor].reply.status # "pending"
  /\ IF cursor \in With("rejected")
     THEN Refuse /\ UNCHANGED <<selected, cursor>>
     ELSE /\ selected' = IF kept(cursor) THEN Append(selected, cursor)
                         ELSE selected
          /\ cursor' = cursor + 1
          /\ UNCHANGED <<phase, plan>>
  /\ Mediating /\ UNCHANGED <<ran, outputs>>

Filtered ==
  /\ phase = "filtering" /\ cursor \notin Positions
  /\ IF strategy.type = "all"
     THEN Decide(steps(selected))
     ELSE phase' = "delegating" /\ UNCHANGED plan
  /\ Mediating /\ UNCHANGED <<selected, cursor, ran, outputs>>

\* A stable sort of the selected positions by their values.
ahead(i, j) ==
  LET d == tests[i].reply.value - tests[j].reply.value
  IN IF strategy.order = "increasing" THEN d < 0 ELSE d > 0
Inserted(t, i) ==
  LET k == SelectInSeq(t, LAMBDA j : ahead(i, j))
  IN IF k = 0 THEN Append(t, i) ELSE InsertAt(t, k, i)
Sorted(s) ==
  LET sorted[k \in 0 .. Len(s)] == IF k = 0 THEN <<>> ELSE Inserted(sorted[k - 1], s[k])
  IN sorted[Len(s)]

\* Promise.all over the selected replies; then they are sorted if asked for:
\* a value that is no number is noticed only when two are compared.
Delegate ==
  /\ phase = "delegating"
  /\ LET ok == \A i \in ToSet(selected) : i \in With("passed")
         sort == strategy.type = "pipeline" /\ strategy.order # "none" /\ Len(selected) > 1
         unsortable == \E i \in ToSet(selected) : tests[i].reply.value = Undefined
     IN \/ (\E i \in ToSet(selected) : i \in With("failed") \cup With("rejected")) /\ Refuse
        \/ ok /\ sort /\ unsortable /\ Refuse
        \/ /\ ok /\ ~(sort /\ unsortable)
           /\ Decide(steps(IF sort THEN Sorted(selected) ELSE selected))
  /\ Mediating /\ UNCHANGED <<selected, cursor, ran, outputs>>

\* runObservable: a pipeline runs its actors one after the other, each on the
\* output of the one before; the others run all they chose at once.
RunNext ==
  /\ phase = "running" /\ Len(ran) < Len(plan)
  /\ IF strategy.type = "pipeline"
     THEN /\ \A k \in DOMAIN ran : outputs[k] = "output"
          /\ ran' = Append(ran, plan[Len(ran) + 1])
          /\ outputs' = Append(outputs, "pending")
     ELSE ran' = plan /\ outputs' = [k \in DOMAIN plan |-> "pending"]
  /\ Mediating /\ UNCHANGED <<phase, selected, cursor, plan>>

RunSettles(k) ==
  /\ k \in DOMAIN ran /\ outputs[k] = "pending"
  /\ \E output \in {"output", "error"} : outputs' = [outputs EXCEPT ![k] = output]
  /\ Mediating /\ UNCHANGED <<phase, selected, cursor, plan, ran>>

Answer ==
  /\ phase = "running"
  /\ \/ "error" \in ToSet(outputs) /\ phase' = "refused"
     \/ Len(ran) = Len(plan) /\ ToSet(outputs) \subseteq {"output"} /\ phase' = "answered"
  /\ Mediating /\ UNCHANGED <<selected, cursor, plan, ran, outputs>>

Proceed ==
  RaceDecides \/ ChoiceDecides \/ FilterNext \/ Filtered \/ Delegate \/ RunNext \/ Answer

\* The engine wires its actors before it mediates anything.
Configure == phase = "idle" /\ BusNext /\ UNCHANGED mediationVars

Next ==
  \/ Configure
  \/ \E s \in Strategies, id \in Identifier \cup {AnyId} : Mediate(s, id)
  \/ \E i \in Positions : Settle(i)
  \/ Proceed
  \/ \E k \in DOMAIN ran : RunSettles(k)

\* Every test and every run settles, and promises are followed up.
Fairness ==
  /\ WF_vars(\E i \in Positions : Settle(i))
  /\ WF_vars(\E k \in DOMAIN ran : RunSettles(k))
  /\ WF_vars(Proceed)

Spec == Init /\ [][Next]_vars /\ Fairness

-----------------------------------------------------------------------------
(* Properties. *)

Penalised(i) ==
  LET c == tests[i].reply.value
  IN strategy.limit > 0 /\ c.blockingItems > 0 /\ c.iterations > strategy.limit

\* What is run is the choice each mediator documents: the first test that
\* passed in time (MediatorRace), the least or greatest number and the earliest
\* of equals (MediatorNumber), the lowest cost, with a join that blocks beyond
\* the limit only if there is no other (MediatorJoinCoefficientsFixed), and all
\* that passed, in the order of the bus or of their values (the others).
ChoiceIsBest ==
  plan # <<>> =>
    LET p == plan[1].position
        Rivals == With("passed") \ {p}
        Beats(a, b, i) == a < b \/ (a = b /\ p < i)
        all == {plan[k].position : k \in DOMAIN plan}
    IN CASE strategy.type = "race" ->
              \A k \in 1 .. SelectInSeq(settled, LAMBDA i : i = p) - 1 :
                settled[k] \in With("failed")
         [] strategy.type = "number" ->
              \A i \in Rivals : IF strategy.order = "min"
                                THEN Beats(NumberOf(p), NumberOf(i), i)
                                ELSE Beats(-NumberOf(p), -NumberOf(i), i)
         [] strategy.type = "coefficients" ->
              \A i \in Rivals :
                IF Penalised(p) = Penalised(i) THEN Beats(BaseCost(p), BaseCost(i), i)
                ELSE Penalised(i)
         [] OTHER ->
              /\ all = With("passed") /\ Cardinality(all) = Len(plan)
              /\ \A k \in 1 .. Len(plan) - 1 :
                   LET x == tests[plan[k].position].reply.value
                       y == tests[plan[k + 1].position].reply.value
                   IN \/ strategy.type = "pipeline" /\ strategy.order = "increasing" /\ x < y
                      \/ strategy.type = "pipeline" /\ strategy.order = "decreasing" /\ x > y
                      \/ /\ strategy.type # "pipeline" \/ strategy.order = "none" \/ x = y
                         /\ plan[k].position < plan[k + 1].position

\* The side data an actor's test passed on reach the run of the same actor, and
\* no other: passTestWithSideData calls them "additional data to pass to the run
\* phase". An ordered pipeline, which mixes them up, is exempt.
OwnSideData ==
  (strategy.type = "pipeline" => strategy.order = "none") =>
    \A k \in DOMAIN plan : plan[k].sideData = plan[k].position

\* The promise every mediator makes, whatever its strategy.
Promise == INSTANCE Mediation WITH
  request <- CASE phase = "idle" -> "none"
               [] phase \in {"answered", "refused"} -> phase
               [] OTHER -> "open",
  passed <- With("passed"),
  ran <- {ran[k].position : k \in DOMAIN ran}

\* Mediator.mediate runs only actors that passed their test, each once, and
\* gives its caller one answer after which it starts nothing.
ImplementsMediation == Promise!Spec

\* Whatever the tests and the runs do, the caller of mediate hears of it.
EveryRequestIsSettled == phase # "idle" ~> phase \in {"answered", "refused"}

=============================================================================
