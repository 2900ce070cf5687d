----------------------------- MODULE Optimizers -----------------------------
(***************************************************************************)
(* The actors of the optimize-query-operation bus, which rewrite a query   *)
(* before it is evaluated.  Each takes an operation and a context to an    *)
(* operation and a context; most of them map every operation of one type,  *)
(* children first (mapOperation).                                          *)
(*                                                                         *)
(* The context: querySources (names, in order), serviceSources (those that *)
(* SERVICE clauses name), sources and ids (see Sources), and the sets      *)
(* options (distinctConstruct) and extensionFunctions of the engine.       *)
(***************************************************************************)
EXTENDS Sources

CONSTANTS MaxIterations   \* of the filter pushdown

Intersect(a, b) == a \intersect b # {}
passFullOperationToSource(context, op) ==
    /\ Len(context.querySources) = 1
    /\ doesShapeAcceptOperation(getSelectorShape(context, context.querySources[1]), op, {})

-----------------------------------------------------------------------------
(* Updates that copy graphs: a graph is a term, DefaultGraph for DEFAULT.  *)
createCompositeUpdate(updates) == [type |-> "compositeupdate", input |-> updates, source |-> NoSource]
createDrop(graph, silent) == [type |-> "drop", graph |-> graph, silent |-> silent, source |-> NoSource]
createTransfer(type, from, to, silent) ==
    [type |-> type, from |-> from, to |-> to, silent |-> silent, source |-> NoSource]
createDeleteInsert(delete, insert, where) ==
    [type |-> "deleteinsert", delete |-> delete, insert |-> insert, where |-> where, source |-> NoSource]

RewriteCopy(op) ==
    createCompositeUpdate(IF op.from = op.to THEN <<>>
                          ELSE <<createDrop(op.to, TRUE), createTransfer("add", op.from, op.to, op.silent)>>)
RewriteMove(op) ==
    createCompositeUpdate(IF op.from = op.to THEN <<>>
                          ELSE <<createDrop(op.to, TRUE), createTransfer("add", op.from, op.to, op.silent),
                                 createDrop(op.from, FALSE)>>)
RewriteAdd(op) ==
    LET every(graph) == createPattern(Variable("s"), Variable("p"), Variable("o"), graph)
    IN  createDeleteInsert(<<>>, <<every(op.to)>>, <<every(op.from)>>)

(* DESCRIBE: what is said with each term as the subject.                   *)
DescribeToConstructs(op) ==
    LET terms == SelectSeq(op.terms, LAMBDA t : ~IsVariable(t))
        variables == SelectSeq(op.terms, IsVariable)
        suffix(i) == <<"0", "1", "2">>[i]
        about(term, n) ==
            <<createPattern(term, Variable("__predicate" \o n), Variable("__object" \o n), DefaultGraph)>>
        ofVariables == FlattenSeq([i \in DOMAIN variables |-> about(variables[i], suffix(i))])
    IN  createUnion([i \in DOMAIN terms |-> createConstruct(createBgp(about(terms[i], "")), about(terms[i], ""))]
                    \o IF variables = <<>> THEN <<>>
                       ELSE <<createConstruct(createJoin(<<op.input[1], createBgp(ofVariables)>>, TRUE), ofVariables)>>,
                    FALSE)

-----------------------------------------------------------------------------
(* Sources.  Those of SERVICE clauses are identified unless the one source *)
(* takes the query as it is; all of them get an identifier, in order.      *)
IdentifySources(context, op) ==
    LET services == {sub.name[2] : sub \in {s \in SubOperations(op) : s.type = "service" /\ ~IsVariable(s.name)}}
    IN  IF passFullOperationToSource(context, op) THEN context
        ELSE [context EXCEPT !.serviceSources = services]
Digits == <<"0", "1", "2", "3", "4">>
SkolemizeSources(context) ==
    LET named == Unique(context.querySources \o AsSequence(context.serviceSources))
    IN  [context EXCEPT !.ids = [name \in ToSet(named) |-> Digits[CHOOSE i \in DOMAIN named : named[i] = name]]]

(* Files are merged into one store, if there are two or more of them and   *)
(* the query is not an update: a quad of two files is then there once.     *)
UpdateTypes == {"compositeupdate", "deleteinsert", "load", "clear", "create", "drop", "add", "move", "copy"}
CompositeFile == "compositefile"
GroupFileSources(context, op) ==
    LET isFile(name) == context.sources[name].kind = "file"
        files == SelectSeq(context.querySources, isFile)
        composite == [context.sources[files[1]] EXCEPT
                        !.kind = "rdfjs", !.quads = Unique(FlatMap(files, LAMBDA name : context.sources[name].quads))]
    IN  IF Len(files) < 2 \/ op.type \in UpdateTypes THEN context
        ELSE [context EXCEPT
                !.querySources = SelectSeq(@, LAMBDA name : ~isFile(name)) \o <<CompositeFile>>,
                !.sources = [name \in DOMAIN @ \union {CompositeFile} |->
                               IF name = CompositeFile THEN composite ELSE @[name]]]

(* Patterns, links and negated sets get every source.                      *)
RECURSIVE assignExhaustive(_, _, _)
assignExhaustive(op, sources, services) ==
    LET assigned == [i \in DOMAIN sources |-> assignOperationSource(op, sources[i])]
        inside(skipped) ==
            [field \in DOMAIN op |->
               IF field \in NestingFields \ skipped
               THEN [i \in DOMAIN op[field] |-> assignExhaustive(op[field][i], sources, services)]
               ELSE op[field]]
        each(type) == IF Len(sources) = 1 THEN assigned[1] ELSE createMulti(type, assigned, TRUE)
    IN  CASE op.type = "pattern" -> each("union")
          [] op.type \in {"link", "nps"} -> each("alt")
          [] op.type = "service" ->
               IF ~IsVariable(op.name) /\ op.name[2] \in services
               THEN assignExhaustive(op.input[1], <<op.name[2]>>, {}) ELSE op
          [] op.type = "construct" -> [inside({"template"}) EXCEPT !.source = NoSource]
          [] op.type = "deleteinsert" ->
               [op EXCEPT !.where = [i \in DOMAIN @ |-> assignExhaustive(@[i], sources, services)]]
          [] OTHER -> inside({})
AssignSources(context, op) ==
    CASE context.querySources = <<>> /\ context.serviceSources = {} -> op
      [] passFullOperationToSource(context, op) -> assignOperationSource(op, context.querySources[1])
      [] OTHER -> assignExhaustive(op, context.querySources, context.serviceSources)

-----------------------------------------------------------------------------
(* Joins.                                                                  *)
JoinBgp(op) ==
    IF \A i \in DOMAIN op.input : op.input[i].type = "bgp"
    THEN createBgp(FlatMap(op.input, LAMBDA bgp : bgp.patterns)) ELSE op
BgpToJoin(op) == createJoin(op.patterns, TRUE)

(* Clusters of entries that share variables, in rounds until there is      *)
(* nothing to merge.                                                       *)
AddToClusters(clusters, entry) ==
    LET overlapping == SelectInSeq(clusters, LAMBDA c : Intersect(c.variables, entry.variables))
    IN  IF overlapping = 0 THEN Append(clusters, entry)
        ELSE [clusters EXCEPT ![overlapping] =
                [variables |-> @.variables \union entry.variables, entries |-> @.entries \o entry.entries]]
clusterIteration(clusters) == FoldLeft(AddToClusters, <<>>, clusters)
RECURSIVE Clustered(_)
Clustered(clusters) ==
    LET merged == clusterIteration(clusters)
    IN  IF Len(merged) = Len(clusters) THEN merged ELSE Clustered(merged)
JoinOfClusters(clusters) ==
    LET subJoins == [i \in DOMAIN clusters |->
                       IF Len(clusters[i].entries) = 1 THEN clusters[i].entries[1]
                       ELSE createJoin(clusters[i].entries, TRUE)]
    IN  IF Len(subJoins) = 1 THEN subJoins[1] ELSE createJoin(subJoins, FALSE)
JoinConnected(op) ==
    JoinOfClusters(Clustered([i \in DOMAIN op.input |->
                                [variables |-> inScopeVariables(op.input[i]), entries |-> <<op.input[i]>>]]))

LeftjoinExpressionPushdown(op) ==
    IF /\ op.expression # <<>>
       /\ ~Intersect(getExpressionVariables(op.expression[1]), inScopeVariables(op.input[1]))
       /\ Intersect(getExpressionVariables(op.expression[1]), inScopeVariables(op.input[2]))
    THEN createLeftJoin(op.input[1], createFilter(op.input[2], op.expression[1]), <<>>)
    ELSE op

-----------------------------------------------------------------------------
(* Pruning of what has no results in its source.                           *)
RECURSIVE CollectEmptyCandidates(_)
CollectEmptyCandidates(op) ==
    LET of(type) == {i \in ToSet(op.input) : i.type = type /\ getOperationSource(i) # NoSource}
        nested == UNION {CollectEmptyCandidates(Children(op)[i]) : i \in DOMAIN Children(op)}
    IN  CASE op.type = "union" -> of("pattern") \union nested
          [] op.type = "alt" -> of("link")
          [] op.type = "service" -> {}
          [] OTHER -> nested

IsPositive(context, source, ask, cardinality) ==
    IF /\ cardinality.type = "estimate" /\ cardinality.value > 0
       /\ doesShapeAcceptOperation(getSelectorShape(context, source), ask, {})
    THEN queryBoolean(context, source, ask).value
    ELSE cardinality.value > 0
hasSourceResults(context, op) ==
    LET pattern == IF op.type = "link" THEN createPattern(Variable("s"), op.iri, Variable("?o"), DefaultGraph)
                   ELSE op
        ask == createSingle("ask", pattern)
    IN  IsPositive(context, op.source, ask,
                   queryBindings(context, op.source, pattern, NothingPassedDown).metadata.cardinality)

RECURSIVE hasEmptyOperation(_)
hasEmptyOperation(op) ==
    CASE op.type = "union" -> \A i \in DOMAIN op.input : hasEmptyOperation(op.input[i])
      [] op.type = "leftjoin" -> hasEmptyOperation(op.input[1])
      [] op.type = "alt" -> op.input = <<>>
      [] OTHER -> \E i \in DOMAIN Children(op) : hasEmptyOperation(Children(op)[i])

RECURSIVE Pruned(_, _)
Pruned(op, empty) ==
    LET inside == [field \in DOMAIN op |->
                     IF field \in NestingFields
                     THEN [i \in DOMAIN op[field] |-> Pruned(op[field][i], empty)] ELSE op[field]]
        nonEmpty == SelectSeq([i \in DOMAIN FieldOr(op, "input") |-> i], LAMBDA i : op.input[i] \notin empty)
        kept == [i \in DOMAIN nonEmpty |-> inside.input[nonEmpty[i]]]
    IN  CASE op.type \in {"union", "alt"} /\ Len(kept) # Len(op.input) ->
               IF Len(kept) = 1 THEN kept[1] ELSE createMulti(op.type, kept, TRUE)
          [] op.type = "project" /\ hasEmptyOperation(inside) -> createUnion(<<>>, TRUE)
          [] op.type = "leftjoin" /\ hasEmptyOperation(inside.input[2]) -> inside.input[1]
          [] OTHER -> inside
PrunedIfAny(op, empty) == IF empty = {} THEN op ELSE Pruned(op, empty)
PruneEmptySourceOperations(context, op) ==
    PrunedIfAny(op, {candidate \in CollectEmptyCandidates(op) : ~hasSourceResults(context, candidate)})

-----------------------------------------------------------------------------
(* Filters are split, pushed down, and merged.                             *)
IsTermExpression(expression) == expression.subType = "term"
IsConstant(expression) == IsTermExpression(expression) /\ ~IsVariable(expression.term)
IsVariableExpression(expression) == IsTermExpression(expression) /\ IsVariable(expression.term)
IsOperator(expression, operator) == expression.subType = "operator" /\ expression.operator = operator

SplitFilter(op) ==
    IF IsOperator(op.expression[1], "&&")
    THEN FoldLeft(createFilter, op.input[1], op.expression[1].args) ELSE op

RECURSIVE NestedFilters(_)
NestedFilters(op) ==
    IF op.type = "filter"
    THEN LET nested == NestedFilters(op.input[1])
         IN  [expressions |-> op.expression \o nested.expressions, input |-> nested.input]
    ELSE [expressions |-> <<>>, input |-> op]
MergeFilters(op) ==
    LET nested == NestedFilters(op)
    IN  IF op.input[1].type # "filter" THEN op
        ELSE createFilter(nested.input,
               FoldLeft(LAMBDA previous, current : createOperatorExpression("&&", <<previous, current>>),
                        Head(nested.expressions), Tail(nested.expressions)))

sourcesOf(op) ==
    {sub.source : sub \in {s \in SubOperations(op) : s.type \in {"pattern", "service", "link", "nps"}}} \ {NoSource}
shouldAttemptPushDown(context, op, sources) ==
    LET expression == op.expression[1]
        accept(operation) ==
            \E name \in sources : doesShapeAcceptOperation(getSelectorShape(context, name), operation, {})
    IN  CASE /\ IsOperator(expression, "=")
             /\ {IsConstant(expression.args[1]), IsConstant(expression.args[2])} = {TRUE, FALSE}
             /\ IsTermExpression(expression.args[1]) /\ IsTermExpression(expression.args[2]) -> TRUE
          [] /\ expression.subType = "named" /\ expression.name \in context.extensionFunctions
             /\ ~accept(expression) -> FALSE
          [] OTHER -> accept(op)

isExpressionFalse(expression) ==
    IsConstant(expression) /\ expression.term[1] = "Literal" /\ expression.term[2] = "false"
isLiteralWithCanonicalLexicalForm(term) == term[3] \in {"string", "langString", "anyURI"}

(* ?v = term, either way around: <<name, term>>, or <<>> if it is no such  *)
(* expression.                                                             *)
getEqualityExpressionPushableIntoPattern(expression) ==
    LET pushable(v, c) ==
            /\ IsVariableExpression(v) /\ IsConstant(c)
            /\ c.term[1] = "Literal" => isLiteralWithCanonicalLexicalForm(c.term)
        args == expression.args
    IN  CASE ~IsOperator(expression, "=") -> <<>>
          [] pushable(args[2], args[1]) -> <<args[2].term[2], args[1].term>>
          [] pushable(args[1], args[2]) -> <<args[1].term[2], args[2].term>>
          [] OTHER -> <<>>

(* An input overlaps fully if all variables of the expression are in its   *)
(* scope, partially if some of them are.                                   *)
FullyOverlaps(input, vars) == vars \subseteq inScopeVariables(input)
NotOverlaps(input, vars) == ~FullyOverlaps(input, vars) /\ ~Intersect(vars, inScopeVariables(input))
PartiallyOverlaps(input, vars) == ~FullyOverlaps(input, vars) /\ Intersect(vars, inScopeVariables(input))

Pushed(modified, op) == [modified |-> modified, operation |-> op]
RECURSIVE filterPushdown(_, _)

(* Into the inputs of a join or a union: those that overlap fully and      *)
(* those that overlap partially are multi operations of their own.         *)
PushIntoMulti(expression, op) ==
    LET vars == getExpressionVariables(expression)
        fully == SelectSeq(op.input, LAMBDA input : FullyOverlaps(input, vars))
        partially == SelectSeq(op.input, LAMBDA input : PartiallyOverlaps(input, vars))
        of(parts) == Pushed(fully # <<>> \/ Len(parts) > 1,
                            IF Len(parts) = 1 THEN parts[1] ELSE createMulti(op.type, parts, TRUE))
    IN  of((IF fully = <<>> THEN <<>>
            ELSE <<createMulti(op.type, [i \in DOMAIN fully |-> filterPushdown(expression, fully[i]).operation], TRUE)>>)
           \o (IF partially = <<>> THEN <<>>
               ELSE <<createFilter(createMulti(op.type, partially, FALSE), expression)>>)
           \o SelectSeq(op.input, LAMBDA input : NotOverlaps(input, vars)))

(* Into the terms of a pattern or a path, with the variable kept in VALUES.*)
PushIntoTerms(op, v, term) ==
    LET fields == IF op.type = "path" THEN {"subject", "object"} ELSE TermFields
        replaced == [field \in DOMAIN op |->
                       CASE field \in fields /\ op[field] = Variable(v) -> term
                         [] field = "graph" /\ op.type = "path" -> DefaultGraph
                         [] OTHER -> op[field]]
    IN  createJoin(<<replaced, createValues(<<v>>, <<set(EmptyBindings, v, term)>>)>>, TRUE)

filterPushdown(expression, op) ==
    LET vars == getExpressionVariables(expression)
        into(i) == filterPushdown(expression, op.input[i])
        equality == getEqualityExpressionPushableIntoPattern(expression)
        kept == Pushed(FALSE, createFilter(op, expression))
    IN  CASE isExpressionFalse(expression) -> Pushed(TRUE, createUnion(<<>>, TRUE))
          [] expression.subType = "existence" -> kept
          [] op.type = "extend" /\ op.variable \notin vars ->
               Pushed(TRUE, createExtend(into(1).operation, op.variable, op.expression[1]))
          [] op.type = "filter" -> Pushed(into(1).modified, createFilter(into(1).operation, op.expression[1]))
          [] op.type = "union" \/ (op.type = "join" /\ op.input # <<>>) -> PushIntoMulti(expression, op)
          [] op.type = "project" /\ Intersect(ToSet(op.variables), vars) ->
               Pushed(TRUE, createProject(into(1).operation, op.variables))
          [] op.type \in {"nop", "project"} -> Pushed(TRUE, op)
          [] op.type = "values" /\ ~Intersect(ToSet(op.variables), vars) -> Pushed(TRUE, op)
          [] op.type = "leftjoin" /\ ~Intersect(vars, inScopeVariables(op.input[2])) ->
               Pushed(TRUE, createLeftJoin(into(1).operation, op.input[2], op.expression))
          [] /\ op.type \in {"pattern", "path"} /\ equality # <<>>
             /\ \/ op.type = "pattern" /\ equality[1] \in inScopeVariables(op)
                \/ op.type = "path" /\ Variable(equality[1]) \in {op.subject, op.object} ->
               Pushed(TRUE, PushIntoTerms(op, equality[1], equality[2]))
          [] OTHER -> kept

(* One round over all filters of the query.                                *)
RECURSIVE PushAllFilters(_, _, _)
PushAllFilters(context, op, sources) ==
    LET results == [field \in NestingFields \intersect DOMAIN op |->
                      [i \in DOMAIN op[field] |-> PushAllFilters(context, op[field][i], sources)]]
        inside == [field \in DOMAIN op |->
                      IF field \in NestingFields
                      THEN [i \in DOMAIN op[field] |-> results[field][i].operation] ELSE op[field]]
        below == \E field \in DOMAIN results : \E i \in DOMAIN results[field] : results[field][i].modified
        also(pushed) == Pushed(below \/ pushed.modified, pushed.operation)
    IN  IF op.type = "filter" /\ shouldAttemptPushDown(context, inside, sources)
        THEN also(filterPushdown(inside.expression[1], inside.input[1]))
        ELSE Pushed(below, inside)
RECURSIVE PushUntilDone(_, _, _, _)
PushUntilDone(context, op, sources, iterations) ==
    LET again(pushed) ==
            IF pushed.modified /\ iterations < MaxIterations
            THEN PushUntilDone(context, pushed.operation, sources, iterations + 1) ELSE pushed.operation
    IN  again(PushAllFilters(context, op, sources))

-----------------------------------------------------------------------------
(* DISTINCT over the variables of one pattern, for a store with an index.  *)
mapVariablesToTerms(vars, pattern) ==
    [v \in ToSet(vars) |->
       Positions[CHOOSE i \in 1 .. 4 : /\ pattern[Positions[i]] = Variable(v)
                                       /\ \A j \in 1 .. (i - 1) : pattern[Positions[j]] # Variable(v)]]
DistinctTermsPushdown(context, op) ==
    LET project == op.input[1]
        unwrapped == IF project.input[1].type = "join" /\ Len(project.input[1].input) = 1
                     THEN project.input[1].input[1] ELSE project.input[1]
        simplified == [op EXCEPT !.input[1].input = <<unwrapped>>]
        distinctTerms == [type |-> "distinctterms", variables |-> project.variables,
                          terms |-> mapVariablesToTerms(project.variables, unwrapped), source |-> unwrapped.source]
    IN  IF project.type # "project" THEN op
        ELSE IF /\ unwrapped.type = "pattern" /\ unwrapped.source # NoSource
                /\ ToSet(project.variables) \subseteq inScopeVariables(unwrapped)
                /\ doesShapeAcceptOperation(getSelectorShape(context, unwrapped.source), distinctTerms, {})
             THEN distinctTerms ELSE simplified

-----------------------------------------------------------------------------
(* An operation whose inputs have one source moves to that source, if its  *)
(* shape accepts it: the inputs then have none.                            *)
MovedWhateverItsFunctions(context, op, inputs, source) ==   \* mutant
    IF source # NoSource /\ doesShapeAcceptOperation(getSelectorShape(context, source), op,
                                                   {"wildcardAcceptAllExtensionFunctions"})
    THEN [op EXCEPT !.source = source, !.input = [i \in DOMAIN inputs |-> removeOperationSource(inputs[i])]]
    ELSE [op EXCEPT !.input = inputs]
moveSourceAnnotationUpwardsIfPossible(context, op, inputs, source) ==
    LET possible ==
            /\ source # NoSource
            /\ doesShapeAcceptOperation(getSelectorShape(context, source), op, {})
            /\ \A i \in DOMAIN FieldOr(op, "expression") :
                 LET expression == op.expression[i]
                 IN  expression.subType = "named" /\ expression.name \in context.extensionFunctions
                       => doesShapeAcceptOperation(getSelectorShape(context, source), expression, {})
    IN  IF possible
        THEN [op EXCEPT !.source = source, !.input = [i \in DOMAIN inputs |-> removeOperationSource(inputs[i])]]
        ELSE [op EXCEPT !.input = inputs]

(* Operations without a source first, then by source, as they come.        *)
clusterOperationsWithEqualSources(inputs) ==
    LET names == Unique([i \in DOMAIN inputs |-> getOperationSource(inputs[i])])
        ordered == SelectSeq(names, LAMBDA n : n = NoSource) \o SelectSeq(names, LAMBDA n : n # NoSource)
    IN  [k \in DOMAIN ordered |-> SelectSeq(inputs, LAMBDA i : getOperationSource(i) = ordered[k])]

RECURSIVE groupOperation(_, _)
MergedCluster(context, op, cluster) ==
    LET multi == createMulti(op.type, cluster, TRUE)
    IN  moveSourceAnnotationUpwardsIfPossible(context, multi, multi.input, getOperationSource(cluster[1]))
MergedClusters(op, merged) ==
    createMulti(op.type, merged, \A k \in DOMAIN merged : getOperationSource(merged[k]) = NoSource)
groupOperation(context, op) ==
    LET inputs == [i \in DOMAIN op.input |-> groupOperation(context, op.input[i])]
        clusters == clusterOperationsWithEqualSources(inputs)
    IN  CASE getOperationSource(op) # NoSource \/ "input" \notin DOMAIN op -> op
          [] Len(clusters) = 1 ->
               moveSourceAnnotationUpwardsIfPossible(context, op, clusters[1], getOperationSource(clusters[1][1]))
          [] Len(clusters) = Len(inputs) -> [op EXCEPT !.input = inputs]
          [] OTHER -> MergedClusters(op, [k \in DOMAIN clusters |-> MergedCluster(context, op, clusters[k])])

-----------------------------------------------------------------------------
(* mapOperation of an actor, children first.  The actors that do not go on *)
(* below the operations that they transform are in StopsBelow.             *)
TypeOf == [copy |-> "copy", move |-> "move", add |-> "add", joinBgp |-> "join", bgpToJoin |-> "bgp",
           joinConnected |-> "join", leftjoin |-> "leftjoin", split |-> "filter", merge |-> "filter",
           distinctTerms |-> "distinct", constructDistinct |-> "construct"]
StopsBelow == DOMAIN TypeOf \ {"leftjoin", "split", "merge"}
Transform(context, actor, op) ==
    CASE actor = "copy" -> RewriteCopy(op)
      [] actor = "move" -> RewriteMove(op)
      [] actor = "add" -> RewriteAdd(op)
      [] actor = "joinBgp" -> JoinBgp(op)
      [] actor = "bgpToJoin" -> BgpToJoin(op)
      [] actor = "joinConnected" -> JoinConnected(op)
      [] actor = "leftjoin" -> LeftjoinExpressionPushdown(op)
      [] actor = "split" -> SplitFilter(op)
      [] actor = "merge" -> MergeFilters(op)
      [] actor = "distinctTerms" -> DistinctTermsPushdown(context, op)
      [] actor = "constructDistinct" -> createSingle("distinct", op)
RECURSIVE mapOperation(_, _, _)
mapOperation(context, actor, op) ==
    LET inside == [field \in DOMAIN op |->
                     IF field \in NestingFields
                     THEN [i \in DOMAIN op[field] |-> mapOperation(context, actor, op[field][i])] ELSE op[field]]
    IN  IF op.type # TypeOf[actor] THEN inside
        ELSE Transform(context, actor, IF actor \in StopsBelow THEN op ELSE inside)

PushedAndMerged(context, split) ==
    mapOperation(context, "merge", PushUntilDone(context, split, sourcesOf(split), 1))
FilterPushdown(context, op) == PushedAndMerged(context, mapOperation(context, "split", op))

-----------------------------------------------------------------------------
(* The actors, and which must have run before which, by the configuration. *)
OptimizerActors ==
    {"copy", "move", "add", "describe", "identify", "groupFiles", "skolemize", "assign", "joinBgp", "bgpToJoin",
     "joinConnected", "prune", "leftjoin", "filter", "distinctTerms", "groupSources", "constructDistinct"}
beforeActors ==
    {<<"describe", "identify">>, <<"identify", "groupFiles">>, <<"groupFiles", "skolemize">>,
     <<"skolemize", "assign">>, <<"assign", "joinBgp">>, <<"assign", "distinctTerms">>,
     <<"joinBgp", "bgpToJoin">>, <<"bgpToJoin", "joinConnected">>, <<"joinConnected", "prune">>,
     <<"prune", "filter">>, <<"leftjoin", "filter">>, <<"filter", "groupSources">>,
     <<"distinctTerms", "groupSources">>}

(* run of an actor; an actor whose test fails leaves everything as it is.  *)
OptimizedContext(actor, context, op) ==
    CASE actor = "identify" -> IdentifySources(context, op)
      [] actor = "groupFiles" -> GroupFileSources(context, op)
      [] actor = "skolemize" -> SkolemizeSources(context)
      [] actor = "constructDistinct" -> [context EXCEPT !.options = @ \ {"distinctConstruct"}]
      [] OTHER -> context
OptimizedOperation(actor, context, op) ==
    CASE actor = "describe" -> IF op.type = "describe" THEN DescribeToConstructs(op) ELSE op
      [] actor \in {"identify", "groupFiles", "skolemize"} -> op
      [] actor = "assign" -> AssignSources(context, op)
      [] actor = "prune" ->
           IF getOperationSource(op) # NoSource THEN op ELSE PruneEmptySourceOperations(context, op)
      [] actor = "filter" -> FilterPushdown(context, op)
      [] actor = "groupSources" ->
           IF getOperationSource(op) # NoSource THEN op ELSE groupOperation(context, op)
      [] actor = "constructDistinct" ->
           IF "distinctConstruct" \in context.options THEN mapOperation(context, actor, op) ELSE op
      [] OTHER -> mapOperation(context, actor, op)
=============================================================================
