-------------------------------- MODULE Joins --------------------------------
(***************************************************************************)
(* The actors of the rdf-join bus: when each accepts a join, and what      *)
(* those compute that take the streams of their entries as they are.  The  *)
(* others, which evaluate operations or join again, are in Evaluation.     *)
(***************************************************************************)
EXTENDS Optimizers

CONSTANTS MinMaxCardinalityRatio   \* of the bind join, divided by 3 for local entries

-----------------------------------------------------------------------------
(* What joins know of their entries: cardinalities, variables, the           *)
(* selectivity that is estimated from the shape of the patterns, and the     *)
(* orders that follow.                                                       *)
(*                                                                           *)
(* Cardinalities and selectivities are counted in thousandths and rounded    *)
(* down, but never to zero, as the code keeps Number.MIN_VALUE.              *)
(*                                                                           *)
(* An entry is [output, operation, operationRequired, operationModified];    *)
(* its output is a result of type bindings.                                  *)

Entry(output, op) ==
    [output |-> output, operation |-> op, operationRequired |-> FALSE, operationModified |-> FALSE]
metadataOf(entry) == entry.output.metadata
ValueOf(entry) == metadataOf(entry).cardinality.value
VariablesIn(metadata) == [i \in DOMAIN metadata.variables |-> metadata.variables[i].variable]
EntryVariables(entry) == ToSet(VariablesIn(metadataOf(entry)))
CanBeUndef(metadata, v) ==
    \E i \in DOMAIN metadata.variables : metadata.variables[i] = MetadataVariable(v, TRUE)
Bounded(value) == IF value < Infinity THEN value ELSE Infinity
AtLeast(least, value) == IF value < least THEN least ELSE value

-----------------------------------------------------------------------------
(* Variables: those of all entries, and those of any.                      *)
UndefOfFirstOnly(metadatas) ==   \* mutant
    LET common == SelectSeq(VariablesIn(metadatas[1]), LAMBDA v :
                      \A i \in DOMAIN metadatas : v \in ToSet(VariablesIn(metadatas[i])))
    IN  [i \in DOMAIN common |-> MetadataVariable(common[i], CanBeUndef(metadatas[1], common[i]))]
overlappingVariables(metadatas) ==
    LET common == SelectSeq(VariablesIn(metadatas[1]), LAMBDA v :
                      \A i \in DOMAIN metadatas : v \in ToSet(VariablesIn(metadatas[i])))
    IN  [i \in DOMAIN common |->
           MetadataVariable(common[i], \E k \in DOMAIN metadatas : CanBeUndef(metadatas[k], common[i]))]
joinVariables(metadatas, optional) ==
    LET all == Unique(FlatMap(metadatas, VariablesIn))
        inFirst(v) == v \in ToSet(VariablesIn(metadatas[1]))
    IN  [i \in DOMAIN all |->
           MetadataVariable(all[i], \/ \E k \in DOMAIN metadatas : CanBeUndef(metadatas[k], all[i])
                                    \/ optional /\ ~inFirst(all[i]))]
AbsenceForgotten(metadatas) ==   \* mutant
    LET all == Unique(FlatMap(metadatas, VariablesIn))
    IN  [i \in DOMAIN all |-> MetadataVariable(all[i], \E k \in DOMAIN metadatas : CanBeUndef(metadatas[k], all[i]))]
unionVariables(metadatas) ==
    LET all == Unique(FlatMap(metadatas, VariablesIn))
        everywhere(v) == \A k \in DOMAIN metadatas : v \in ToSet(VariablesIn(metadatas[k]))
    IN  [i \in DOMAIN all |->
           MetadataVariable(all[i], \/ \E k \in DOMAIN metadatas : CanBeUndef(metadatas[k], all[i])
                                    \/ ~everywhere(all[i]))]

-----------------------------------------------------------------------------
(* Selectivity by counting variables: of a pattern, and of each two of     *)
(* them by the positions at which they have the same term.                 *)
RECURSIVE PatternsOf(_)
PatternsOf(op) ==
    IF op.type \in {"pattern", "path"} THEN <<op>> ELSE FlatMap(Children(op), PatternsOf)

getPatternCost(pattern) ==
    LET weight == [subject |-> 4, predicate |-> 1, object |-> 2, graph |-> 1]
        free(position) ==
            IF position = "predicate" /\ pattern.type = "path" THEN TRUE ELSE IsVariable(pattern[position])
    IN  1 + FoldLeft(LAMBDA sum, p : sum + IF free(p) THEN weight[p] ELSE 0, 0, Positions)

(* How much a common term at two positions lowers the cost: twice as much  *)
(* if it is bound.                                                         *)
MAX_PAIRWISE_COST == 82
JoinWeight(i, j) ==
    CASE {i, j} \subseteq {1, 3} -> IF i = 1 /\ j = 1 THEN 2 ELSE 1
      [] OTHER -> 3
getJoinTypes(a, b) ==
    {<<i, j>> \in (1 .. 4) \X (1 .. 4) :
        /\ i = 2 => a.type = "pattern"
        /\ j = 2 => b.type = "pattern"
        /\ a[Positions[i]] = b[Positions[j]]}
getOperationsPairwiseJoinCost(a, b) ==
    LET lowered(pair) == JoinWeight(pair[1], pair[2]) * IF IsVariable(a[Positions[pair[1]]]) THEN 1 ELSE 2
    IN  IF <<2, 2>> \in getJoinTypes(a, b) /\ ~IsVariable(a.predicate) THEN 1000
        ELSE ((MAX_PAIRWISE_COST - MapThenSumSet(lowered, getJoinTypes(a, b))) * 1000)
             \div MAX_PAIRWISE_COST
PatternsJoinCost(patterns) ==
    LET pairs == {<<i, j>> \in (DOMAIN patterns) \X (DOMAIN patterns) : i # j}
        cost(pair) == getOperationsPairwiseJoinCost(patterns[pair[1]], patterns[pair[2]])
    IN  IF pairs = {} THEN 1000
        ELSE FoldLeft(LAMBDA factor, p : AtLeast(1, (factor * getPatternCost(p)) \div 9),
                      MapThenSumSet(cost, pairs) \div Cardinality(pairs), patterns)
getOperationsJoinCost(operations) == PatternsJoinCost(FlatMap(operations, PatternsOf))
Selectivity(entries) ==
    IF Len(entries) <= 1 THEN 1000
    ELSE getOperationsJoinCost([i \in DOMAIN entries |-> entries[i].operation])

-----------------------------------------------------------------------------
(* The metadata of a join: the product of the cardinalities and of the     *)
(* selectivity, exact if all cardinalities are.                            *)
Product(value, factor) ==
    IF value = 0 \/ factor = 0 THEN 0
    ELSE IF Infinity \in {value, factor} THEN Infinity
    ELSE Bounded(AtLeast(1, (value * factor) \div 1000))
constructResultMetadata(entries, metadatas, optional) ==
    LET value(i) == LET v == metadatas[i].cardinality.value IN IF optional THEN AtLeast(1000, v) ELSE v
        product == FoldLeft(LAMBDA acc, i : Product(acc, value(i)), 1000, [i \in DOMAIN metadatas |-> i])
        estimated == \E i \in DOMAIN metadatas : metadatas[i].cardinality.type = "estimate"
    IN  [cardinality |-> CardinalityOf(IF estimated THEN "estimate" ELSE "exact",
                                       IF product = 0 THEN 0 ELSE Product(product, Selectivity(entries))),
         variables |-> joinVariables(metadatas, optional)]
ResultMetadata(entries, optional) ==
    constructResultMetadata(entries, [i \in DOMAIN entries |-> metadataOf(entries[i])], optional)

-----------------------------------------------------------------------------
(* Orders of entries.  The mediator prefers the order by cardinality if    *)
(* more than half of the cardinalities are finite.                         *)
InsertByValue(sorted, entry) ==
    LET later == SelectInSeq(sorted, LAMBDA other : ValueOf(other) > ValueOf(entry))
    IN  IF later = 0 THEN Append(sorted, entry) ELSE InsertAt(sorted, later, entry)
sortByCardinality(entries) == FoldLeft(InsertByValue, <<>>, entries)

Lowest(costs) ==
    CHOOSE k \in DOMAIN costs : /\ \A j \in DOMAIN costs : costs[k] <= costs[j]
                                /\ \A j \in 1 .. (k - 1) : costs[k] < costs[j]
AddMostSelective(state, i) ==
    LET taken(k) == [final |-> Append(state.final, state.remaining[k]), remaining |-> RemoveAt(state.remaining, k)]
    IN  taken(Lowest([k \in DOMAIN state.remaining |-> Selectivity(<<state.remaining[k]>> \o state.final)]))
sortBySelectivity(entries) ==
    FoldLeft(AddMostSelective, [final |-> <<>>, remaining |-> entries], [i \in DOMAIN entries |-> i]).final

SortedEntries(entries) ==
    IF 2 * Len(SelectSeq(entries, LAMBDA entry : ValueOf(entry) < Infinity)) > Len(entries)
    THEN sortByCardinality(entries) ELSE sortBySelectivity(entries)

(* sortJoinEntries of the bind joins: as they are if something may be      *)
(* undefined, and <<>> if no variable is shared.                           *)
sortJoinEntries(entries) ==
    LET mayBeUndef == \E i \in DOMAIN entries : \E k \in DOMAIN metadataOf(entries[i]).variables :
                          metadataOf(entries[i]).variables[k].canBeUndef
        shared == \E i, j \in DOMAIN entries : i # j /\ Intersect(EntryVariables(entries[i]), EntryVariables(entries[j]))
    IN  CASE mayBeUndef -> entries
          [] ~shared -> <<>>
          [] OTHER -> SortedEntries(entries)
ModifiedFirst(entries) ==
    SelectSeq(entries, LAMBDA entry : entry.operationModified)
    \o SelectSeq(entries, LAMBDA entry : ~entry.operationModified)

-----------------------------------------------------------------------------
(* What joins compute.                                                       *)

Joined(entries, solutions, optional) ==
    [type |-> "bindings", bindings |-> solutions, metadata |-> ResultMetadata(entries, optional)]
CommonVariables(entries) ==
    VariablesIn([variables |-> overlappingVariables([i \in DOMAIN entries |-> metadataOf(entries[i])])])
SolutionsOf(entry) == entry.output.bindings

-----------------------------------------------------------------------------
(* Limits of the actors, as their constructors give them.                  *)
NoLimit == 100
Limits(min, max, undefs, overlap, operationRequired) ==
    [min |-> min, max |-> max, canHandleUndefs |-> undefs, requiresVariableOverlap |-> overlap,
     canHandleOperationRequired |-> operationRequired]
InnerActors ==
    <<"none", "single", "multi-empty", "bind-source", "bind", "hash-def", "hash-undef", "symmetric-hash",
      "nested-loop", "multi-sequential", "multi-smallest", "filter-bindings">>
ActorsFor ==
    [inner |-> InnerActors,
     minus |-> <<"minus-hash-def", "minus-hash-undef">>,
     optional |-> <<"optional-bind", "optional-hash-def", "optional-hash-undef", "optional-nested-loop">>]
LimitsOf(actor) ==
    CASE actor \in {"multi-empty", "bind-source", "bind"} -> Limits(2, NoLimit, TRUE, FALSE, FALSE)
      [] actor \in {"hash-def", "symmetric-hash", "optional-hash-def"} -> Limits(2, 2, FALSE, TRUE, FALSE)
      [] actor \in {"hash-undef", "optional-hash-undef"} -> Limits(2, 2, TRUE, TRUE, FALSE)
      [] actor \in {"nested-loop", "optional-nested-loop", "minus-hash-undef"} -> Limits(2, 2, TRUE, FALSE, FALSE)
      [] actor \in {"multi-sequential", "multi-smallest"} -> Limits(3, NoLimit, TRUE, FALSE, FALSE)
      [] actor = "filter-bindings" -> Limits(2, NoLimit, FALSE, FALSE, FALSE)
      [] actor = "minus-hash-def" -> Limits(2, 2, FALSE, FALSE, FALSE)
      [] actor = "optional-bind" -> Limits(2, 2, TRUE, TRUE, TRUE)

(* The test that all actors share but the ones for no and for one entry.   *)
WithinLimits(limits, entries) ==
    LET required == \E i \in DOMAIN entries : entries[i].operationRequired
        overlapping == overlappingVariables([i \in DOMAIN entries |-> metadataOf(entries[i])])
    IN  /\ Len(entries) >= limits.min /\ Len(entries) <= limits.max
        /\ required => limits.canHandleOperationRequired
        /\ limits.canHandleUndefs \/ \A i \in DOMAIN overlapping : ~overlapping[i].canBeUndef
        /\ limits.requiresVariableOverlap => overlapping # <<>> \/ required

-----------------------------------------------------------------------------
(* Streams of two entries.                                                 *)
JoinEach(solutions, Candidates(_)) ==
    FlatMap(solutions, LAMBDA bindings :
        FlatMap(Candidates(bindings), LAMBDA candidate : joinBindings(bindings, candidate)))
OptionalEach(solutions, Candidates(_)) ==
    FlatMap(solutions, LAMBDA bindings :
        LET joined == FlatMap(Candidates(bindings), LAMBDA candidate : joinBindings(bindings, candidate))
        IN  IF joined = <<>> THEN <<bindings>> ELSE joined)
UndefIndex(vars) == Index("undef", vars, "term", TRUE)
Found_(index, bindings) == FlattenSeq(getValues(index, bindings))

(* The smaller entry is put in the index.                                  *)
SmallestFirst(entries) ==
    IF ValueOf(entries[2]) < ValueOf(entries[1]) THEN <<entries[2], entries[1]>> ELSE entries
HashUndefJoin(entries) ==
    LET sorted == SmallestFirst(entries)
        index == IndexOf(UndefIndex(CommonVariables(sorted)), SolutionsOf(sorted[1]), FALSE)
    IN  Joined(sorted, JoinEach(SolutionsOf(sorted[2]), LAMBDA b : Found_(index, b)), FALSE)
ByHash(entries) ==
    LET hash(bindings) == hashFunction(bindings, CommonVariables(entries))
    IN  JoinEach(SolutionsOf(entries[2]), LAMBDA b :
            SelectSeq(SolutionsOf(entries[1]), LAMBDA a : hash(a) = hash(b)))
HashJoin(entries) == Joined(SmallestFirst(entries), ByHash(SmallestFirst(entries)), FALSE)
SymmetricHashJoin(entries) == Joined(entries, ByHash(entries), FALSE)
NestedLoopJoin(entries) ==
    Joined(entries, JoinEach(SolutionsOf(entries[1]), LAMBDA b : SolutionsOf(entries[2])), FALSE)

(* Entries without anything in common are left as they are by MINUS, and   *)
(* the graph variable around it is not in common.                          *)
MinusHashJoin(entries, kind, graphVariable) ==
    LET vars == SelectSeq(CommonVariables(entries), LAMBDA v : Variable(v) # graphVariable)
        index == FoldLeft(LAMBDA filled, bindings : put(filled, bindings, TRUE),
                          Index(kind, vars, "compact", FALSE), SolutionsOf(entries[2]))
    IN  IF vars = <<>> THEN entries[1].output
        ELSE [entries[1].output EXCEPT
                !.bindings = SelectSeq(@, LAMBDA bindings : ~hasFirst(index, bindings, TRUE))]

OptionalHashJoin(entries, kind) ==
    LET index == IndexOf(Index(kind, CommonVariables(entries), "compact", TRUE), SolutionsOf(entries[2]), TRUE)
    IN  Joined(entries, OptionalEach(SolutionsOf(entries[1]), LAMBDA b : Found_(index, b)), TRUE)
OptionalNestedLoopJoin(entries) ==
    Joined(entries, OptionalEach(SolutionsOf(entries[1]), LAMBDA b : SolutionsOf(entries[2])), TRUE)

MultiEmptyJoin(entries) ==
    Bindings(<<>>, CardinalityOf("exact", 0),
             joinVariables([i \in DOMAIN entries |-> metadataOf(entries[i])], FALSE))

-----------------------------------------------------------------------------
(* The bind joins.                                                         *)
canBindWithOperation(op) == ~HasType(op, {"extend", "group"})
NotMuchSmaller(entries) ==
    \A i \in DOMAIN entries : ValueOf(entries[1]) * MinMaxCardinalityRatio > 3 * ValueOf(entries[i])
BindPasses(sorted) ==
    /\ sorted # <<>>
    /\ \A i \in 2 .. Len(sorted) : /\ canBindWithOperation(sorted[i].operation)
                                   /\ ~sorted[i].operationModified
    /\ ~NotMuchSmaller(sorted)
JoinOfOperations(operations) ==
    IF Len(operations) = 1 THEN operations[1]
    ELSE createJoin(operations, \A i \in DOMAIN operations : operations[i].source = NoSource)

createOperationFromEntries(entries) ==
    IF Len(entries) = 1 THEN entries[1].operation
    ELSE createJoin([i \in DOMAIN entries |-> entries[i].operation], TRUE)
BindSourcePasses(context, sorted) ==
    LET sources == {getOperationSource(sorted[i].operation) : i \in 2 .. Len(sorted)}
    IN  /\ sorted # <<>>
        /\ Cardinality(sources) = 1 /\ NoSource \notin sources
        /\ doesShapeAcceptOperation(getSelectorShape(context, CHOOSE name \in sources : TRUE),
                                    createOperationFromEntries(Tail(sorted)), {"joinBindings"})
JoinedTo(entries, stream, optional) ==
    IF stream.type = "bindings" THEN Joined(entries, stream.bindings, optional) ELSE ErrorResult
BindSourceJoin(context, sorted) ==
    JoinedTo(sorted,
             queryBindings(context, getOperationSource(sorted[2].operation),
                           createOperationFromEntries(Tail(sorted)), PassedDown(<<sorted[1].output>>, <<>>)),
             FALSE)

-----------------------------------------------------------------------------
(* The multi joins choose two entries to be joined first.                  *)
SharedCount(a, b) == Cardinality(EntryVariables(a) \intersect EntryVariables(b))
getJoinIndexes(entries) ==
    LET pairs == {<<i, j>> \in (DOMAIN entries) \X (DOMAIN entries) :
                    i < j /\ SharedCount(entries[i], entries[j]) > 0}
    IN  IF pairs = {} THEN <<1, 2>>
        ELSE CHOOSE p \in pairs : \A q \in pairs : p[1] < q[1] \/ (p[1] = q[1] /\ p[2] <= q[2])

(* The entry to be restricted: with the most variables in common, then the *)
(* fewest variables, then the lowest cardinality, then the first.          *)
ChooseSecond(sorted) ==
    LET first == sorted[1]
        rest == Tail(sorted)
        width(i) == Len(metadataOf(rest[i]).variables)
        Better(i, j) ==
            LET si == SharedCount(first, rest[i])  sj == SharedCount(first, rest[j])
            IN  \/ si > sj
                \/ si = sj /\ width(i) < width(j)
                \/ si = sj /\ width(i) = width(j) /\ ValueOf(rest[i]) < ValueOf(rest[j])
        second == CHOOSE i \in DOMAIN rest : \A j \in DOMAIN rest : Better(i, j) \/ (~Better(j, i) /\ i <= j)
    IN  [first |-> first, second |-> rest[second], remaining |-> RemoveAt(rest, second)]
FirstAndSecond(entries) == ChooseSecond(ModifiedFirst(SortedEntries(entries)))
FilterBindingsPasses(context, chosen) ==
    LET source == getOperationSource(chosen.second.operation)
    IN  /\ context.lastPhysicalJoin # "filter-bindings"
        /\ SharedCount(chosen.first, chosen.second) > 0
        /\ source # NoSource
        /\ doesShapeAcceptOperation(getSelectorShape(context, source), chosen.second.operation, {"filterBindings"})
RestrictedEntry(context, chosen) ==
    LET common == EntryVariables(chosen.first) \intersect EntryVariables(chosen.second)
        projected == Unique([i \in DOMAIN SolutionsOf(chosen.first) |->
                                filterBindings(SolutionsOf(chosen.first)[i], common)])
    IN  [chosen.second EXCEPT !.operationModified = TRUE,
           !.output.bindings =
              queryBindings(context, getOperationSource(chosen.second.operation), chosen.second.operation,
                            PassedDown(<<>>, <<[bindings |-> projected]>>)).bindings]

-----------------------------------------------------------------------------
Passes(context, actor, entries) ==
    CASE actor = "none" -> entries = <<>>
      [] actor = "single" -> Len(entries) = 1
      [] entries = <<>> -> FALSE
      [] OTHER ->
           /\ WithinLimits(LimitsOf(actor), entries)
           /\ CASE actor = "multi-empty" -> \E i \in DOMAIN entries : ValueOf(entries[i]) = 0
                [] actor = "bind" -> BindPasses(sortJoinEntries(entries))
                [] actor = "bind-source" -> BindSourcePasses(context, ModifiedFirst(sortJoinEntries(entries)))
                [] actor = "filter-bindings" -> FilterBindingsPasses(context, FirstAndSecond(entries))
                [] actor = "optional-bind" -> entries[2].operation.type \notin {"extend", "group"}
                [] OTHER -> TRUE
=============================================================================
