----------------------------- MODULE Evaluation -----------------------------
(***************************************************************************)
(* The actors of the query-operation bus and the joins that evaluate       *)
(* operations, as they call each other through mediateQueryOperation and   *)
(* mediateJoin.  The result of an operation holds all solutions that its   *)
(* stream will give, in order, and the metadata that its actor declares.   *)
(*                                                                         *)
(* The context has, besides what the optimizers use:                       *)
(*   preferred         the join actor that the mediator prefers, by type   *)
(*   lastPhysicalJoin  "filter-bindings" inside that join, "" elsewhere    *)
(*   distinctPath      whether the duplicates of a repeated path are       *)
(*                     already taken care of                               *)
(***************************************************************************)
EXTENDS Joins

(* What a variable gets that is generated for a path: it avoids the        *)
(* subject and the object of the path, if there is one.                    *)
RECURSIVE generateVariable(_, _)
generateVariable(path, name) ==
    IF path # <<>> /\ name \in {path[1].subject[2], path[1].object[2]}
    THEN generateVariable(path, name \o "b") ELSE Variable(name)

RECURSIVE getPathSources(_)
getPathSources(path) ==
    IF path.type \in {"link", "nps"} THEN <<path.source>> ELSE FlatMap(path.input, getPathSources)
assignPatternSources(op, sources) ==
    IF Len(sources) = 1 THEN assignOperationSource(op, sources[1])
    ELSE createUnion([i \in DOMAIN sources |-> assignOperationSource(op, sources[i])], TRUE)

-----------------------------------------------------------------------------
RECURSIVE mediateQueryOperation(_, _), mediateJoin(_, _, _, _), evaluate(_, _, _), ReachableTerms(_, _, _, _, _)

IsBindings(output) == output.type = "bindings"
EvaluateAll(context, operations) ==
    FoldLeft(LAMBDA outputs, op : Append(outputs, mediateQueryOperation(context, op)), <<>>, operations)
AllBindings(outputs) == \A i \in DOMAIN outputs : IsBindings(outputs[i])
EntriesOf(outputs, operations) == [i \in DOMAIN outputs |-> Entry(outputs[i], operations[i])]
WithVariables(output, solutions, variables) ==
    [output EXCEPT !.bindings = solutions, !.metadata.variables = variables]
Certain(vars) == [i \in DOMAIN vars |-> MetadataVariable(vars[i], FALSE)]

(* What an actor returns is a join of its entries, without the variables   *)
(* that it made up.                                                        *)
Joining(kind, entries, graphVariable, hidden) ==
    [type |-> "joining", kind |-> kind, entries |-> entries, graphVariable |-> graphVariable, hidden |-> hidden]
Hiding(join, hidden) ==
    IF ~IsBindings(join) THEN ErrorResult
    ELSE WithVariables(join,
           [i \in DOMAIN join.bindings |-> filterBindings(join.bindings[i], DOMAIN join.bindings[i] \ hidden)],
           SelectSeq(join.metadata.variables, LAMBDA m : m.variable \notin hidden))

(* Expressions.  EXISTS is evaluated as an operation with the bindings     *)
(* filled in; whatever goes wrong there is no expression error.            *)
Failure == <<"Failure">>
evaluate(context, expression, bindings) ==
    CASE expression.subType = "existence" ->
           LET found == mediateQueryOperation(context, materializeOperation(expression.input[1], bindings, bindings))
           IN  IF ~IsBindings(found) THEN Failure ELSE BooleanTerm((found.bindings # <<>>) # expression.not)
      [] expression.subType = "operator" ->
           LET args == FoldLeft(LAMBDA all, arg : Append(all, evaluate(context, arg, bindings)), <<>>, expression.args)
               value == ValueOfOperator(expression, bindings, args)
           IN  IF value = Error /\ Contains(args, Failure) THEN Failure ELSE value
      [] OTHER -> ValueOfLeaf(expression, bindings)
Values(context, expression, solutions) ==
    FoldLeft(LAMBDA all, b : Append(all, evaluate(context, expression, b)), <<>>, solutions)

-----------------------------------------------------------------------------
(* Operations over one input.                                              *)
runFilter(context, op) ==
    LET output == mediateQueryOperation(context, op.input[1])
        kept(values_) ==
            SelectSeq([i \in DOMAIN values_ |-> i], LAMBDA i : EffectiveBoolean(values_[i]) = BooleanTerm(TRUE))
        filtered(values_) == IF Contains(values_, Failure) THEN ErrorResult
                             ELSE [output EXCEPT !.bindings = [k \in DOMAIN kept(values_) |-> @[kept(values_)[k]]]]
    IN  IF ~IsBindings(output) THEN ErrorResult
        ELSE filtered(Values(context, op.expression[1], output.bindings))

runExtend(context, op) ==
    LET output == mediateQueryOperation(context, op.input[1])
        extended(b, value) == IF value = Error THEN b ELSE set(b, op.variable, value)
        with(values_) ==
            IF Contains(values_, Failure) THEN ErrorResult
            ELSE WithVariables(output, [i \in DOMAIN values_ |-> extended(output.bindings[i], values_[i])],
                               Append(output.metadata.variables, MetadataVariable(op.variable, FALSE)))
    IN  CASE ~IsBindings(output) -> ErrorResult
          [] Contains(VariablesIn(output.metadata), op.variable) -> ErrorResult
          [] OTHER -> with(Values(context, op.expression[1], output.bindings))

(* The relabelling of blank nodes that BNODE() scopes to a solution is left *)
(* out: no expression of this model makes a blank node.                    *)
Projected(op, output) ==
    LET known == ToSet(VariablesIn(output.metadata))
        deleted == known \ ToSet(op.variables)
    IN  WithVariables(output,
          [i \in DOMAIN output.bindings |-> filterBindings(output.bindings[i], DOMAIN output.bindings[i] \ deleted)],
          [i \in DOMAIN op.variables |->
             MetadataVariable(op.variables[i],
                              op.variables[i] \notin known \/ CanBeUndef(output.metadata, op.variables[i]))])
runProject(context, op) ==
    LET output == mediateQueryOperation(context, op.input[1])
    IN  IF IsBindings(output) THEN Projected(op, output) ELSE ErrorResult

(* Metadata of a group is that of its input, but for the variables.        *)
runGroup(context, op) ==
    LET output == mediateQueryOperation(context, op.input[1])
        counts == [i \in DOMAIN op.aggregates |-> op.aggregates[i].variable]
    IN  IF IsBindings(output)
        THEN WithVariables(output, GroupsOf(op, output.bindings), Certain(op.variables \o counts)) ELSE ErrorResult

Sliced(op, seq) ==
    LET last == IF op.length < 0 THEN Len(seq) ELSE op.start + op.length
    IN  SubSeq(seq, op.start + 1, IF last < Len(seq) THEN last ELSE Len(seq))
sliceMetadata(op, cardinality) ==
    LET left == AtLeast(0, cardinality.value - 1000 * op.start)
    IN  CASE cardinality.value = Infinity -> cardinality
          [] op.length >= 0 /\ 1000 * op.length < left -> [cardinality EXCEPT !.value = 1000 * op.length]
          [] OTHER -> [cardinality EXCEPT !.value = left]
runSlice(context, op) ==
    LET output == mediateQueryOperation(context, op.input[1])
    IN  CASE output.type = "bindings" ->
               [output EXCEPT !.bindings = Sliced(op, @),
                              !.metadata.cardinality = sliceMetadata(op, @)]
          [] output.type = "quads" -> [output EXCEPT !.quads = Sliced(op, @)]
          [] OTHER -> output

(* Terms in the order in which they are sorted: unbound, blank nodes, IRIs,*)
(* literals.  The sort is stable and starts with the last expression.      *)
OrderedTypes == <<"Error", "BlankNode", "NamedNode", "Literal">>
Rank(term) == SelectInSeq(OrderedTypes, LAMBDA type : type = term[1])
SortedBy(context, expression, solutions) ==
    LET descending == expression.subType = "operator" /\ expression.operator = "desc"
        sortExpression == IF descending THEN expression.args[1] ELSE expression
        rank(value) == IF descending THEN 0 - Rank(value) ELSE Rank(value)
        insert(values_, sorted, i) ==
            LET later == SelectInSeq(sorted, LAMBDA k : rank(values_[k]) > rank(values_[i]))
            IN  IF later = 0 THEN Append(sorted, i) ELSE InsertAt(sorted, later, i)
        order(values_) ==
            FoldLeft(LAMBDA sorted, i : insert(values_, sorted, i), <<>>, [i \in DOMAIN solutions |-> i])
        inOrder(places) == [k \in DOMAIN places |-> solutions[places[k]]]
    IN  inOrder(order(Values(context, sortExpression, solutions)))
runOrderBy(context, op) ==
    LET output == mediateQueryOperation(context, op.input[1])
    IN  IF IsBindings(output)
        THEN [output EXCEPT !.bindings =
                FoldLeft(LAMBDA sorted, e : SortedBy(context, e, sorted), @, Reverse(op.expressions))]
        ELSE ErrorResult

(* DISTINCT compares the texts of the terms, REDUCED a hash of their       *)
(* values.                                                                 *)
Identity(bindings, vars) ==
    Concatenated([i \in DOMAIN vars |->
        (IF has(bindings, vars[i]) THEN termToString(bindings[vars[i]]) ELSE "") \o "-"])
FirstByKey(seq, Key(_)) ==
    FoldLeft(LAMBDA kept, e : IF \E i \in DOMAIN kept : Key(kept[i]) = Key(e) THEN kept ELSE Append(kept, e), <<>>, seq)
runDistinct(context, op) ==
    LET output == mediateQueryOperation(context, op.input[1])
    IN  CASE output.type = "bindings" ->
               [output EXCEPT !.bindings = FirstByKey(@, LAMBDA b : Identity(b, VariablesIn(output.metadata)))]
          [] output.type = "quads" -> [output EXCEPT !.quads = Unique(@)]
          [] OTHER -> ErrorResult
runReduced(context, op) ==
    LET output == mediateQueryOperation(context, op.input[1])
    IN  IF IsBindings(output)
        THEN [output EXCEPT !.bindings = FirstByKey(@, LAMBDA b : hashFunction(b, VariablesIn(output.metadata)))]
        ELSE ErrorResult

runAsk(context, op) ==
    LET output == mediateQueryOperation(context, op.input[1])
    IN  IF IsBindings(output) THEN BooleanResult(output.bindings # <<>>) ELSE ErrorResult

(* The template of a CONSTRUCT: blank nodes are made anew for each         *)
(* solution, and a quad with an unbound variable is left out.              *)
localizeBlankNode(counter, term) ==
    IF term[1] = "BlankNode" THEN BlankNode(term[2] \o ToString(counter)) ELSE term
bindTemplate(bindings, template, counter) ==
    LET bound(term) == materializeTerm(localizeBlankNode(counter, term), bindings)
    IN  FlatMap(template, LAMBDA p :
            LET quad == <<bound(p.subject), bound(p.predicate), bound(p.object), bound(p.graph)>>
            IN  IF VariablesOf(ToSet(quad)) = {} THEN <<quad>> ELSE <<>>)
runConstruct(context, op) ==
    LET projected == createProject(op.input[1], Unique(FlatMap(op.template, getVariables)))
        output == mediateQueryOperation(context, projected)
    IN  IF ~IsBindings(output) THEN ErrorResult
        ELSE QuadsResult(FlattenSeq([i \in DOMAIN output.bindings |->
                 bindTemplate(output.bindings[i], op.template, i - 1)]))

-----------------------------------------------------------------------------
(* Operations over several inputs, and over none.                          *)
appendCardinality(a, b) ==
    CASE Infinity \in {a.value, b.value} -> EstimateInfinity
      [] OTHER -> CardinalityOf(IF "estimate" \in {a.type, b.type} THEN "estimate" ELSE "exact", a.value + b.value)
UnionOf(outputs) ==
    LET metadatas == [i \in DOMAIN outputs |-> outputs[i].metadata]
    IN  Bindings(FlatMap(outputs, LAMBDA output : output.bindings),
                 FoldLeft(LAMBDA sum, m : appendCardinality(sum, m.cardinality), CardinalityOf("exact", 0), metadatas),
                 unionVariables(metadatas))
runUnion(context, op) ==
    LET outputs == EvaluateAll(context, op.input)
        types == {outputs[i].type : i \in DOMAIN outputs}
    IN  CASE types \subseteq {"bindings"} -> UnionOf(outputs)
          [] types = {"quads"} -> QuadsResult(FlatMap(outputs, LAMBDA output : output.quads))
          [] OTHER -> ErrorResult

runJoin(context, op) ==
    LET outputs == EvaluateAll(context, op.input)
    IN  CASE ~AllBindings(outputs) -> ErrorResult
          [] \E i \in DOMAIN outputs : outputs[i].metadata.cardinality = CardinalityOf("exact", 0) ->
               MultiEmptyJoin(EntriesOf(outputs, op.input))
          [] OTHER -> Joining("inner", EntriesOf(outputs, op.input), DefaultGraph, {})
runBgp(context, op) == mediateQueryOperation(context, createJoin(op.patterns, TRUE))

(* The expression of an OPTIONAL is attached to the right operation, for   *)
(* joins that evaluate it: the output is without it.                       *)
runLeftJoin(context, op) ==
    LET outputs == EvaluateAll(context, op.input)
        required == [Entry(outputs[2], createFilter(op.input[2], op.expression[1])) EXCEPT !.operationRequired = TRUE]
        entries == <<Entry(outputs[1], op.input[1]),
                     IF op.expression = <<>> THEN Entry(outputs[2], op.input[2]) ELSE required>>
    IN  IF AllBindings(outputs) THEN Joining("optional", entries, DefaultGraph, {}) ELSE ErrorResult
runMinus(context, op) ==
    LET outputs == EvaluateAll(context, op.input)
    IN  IF AllBindings(outputs) THEN Joining("minus", EntriesOf(outputs, op.input), op.graphScopeVar, {})
        ELSE ErrorResult

runValues(op) ==
    Bindings(op.bindings, CountOf("exact", Len(op.bindings)),
             [i \in DOMAIN op.variables |->
                MetadataVariable(op.variables[i], \E k \in DOMAIN op.bindings : ~has(op.bindings[k], op.variables[i]))])
runNop == Bindings(<<EmptyBindings>>, CountOf("exact", 1), <<>>)

(* All terms of a source that are a subject or an object.                  *)
runNodes(context, op) ==
    LET generated(v) == v \in {"__p", "__x"}
        around(s, o) == assignOperationSource(createPattern(s, Variable("__p"), o, op.graph), op.source)
        output == mediateQueryOperation(context,
            createSingle("distinct", createUnion(<<around(Variable(op.variable), Variable("__x")),
                                                   around(Variable("__x"), Variable(op.variable))>>, TRUE)))
    IN  IF ~IsBindings(output) THEN ErrorResult
        ELSE [output EXCEPT !.bindings =
                [i \in DOMAIN @ |-> filterBindings(@[i], {v \in DOMAIN @[i] : ~generated(v)})]]

-----------------------------------------------------------------------------
(* FROM and FROM NAMED rewrite the graphs of patterns and paths.  A pattern*)
(* that is created for a variable graph does not keep its source.          *)
OnGraph(op, graph) == [op EXCEPT !.graph = graph]
UnionOfOperations(operations) == IF Len(operations) = 1 THEN operations[1] ELSE createUnion(operations, TRUE)
EmptyBgp == createBgp(<<>>)
copyOperation(op, Recurse(_)) ==
    [field \in DOMAIN op |-> IF field \in NestingFields \ {"template"}
                             THEN [i \in DOMAIN op[field] |-> Recurse(op[field][i])] ELSE op[field]]

RECURSIVE applyOperationDefaultGraph(_, _)
applyOperationDefaultGraph(op, graphs) ==
    LET on(p) == IF p.graph # DefaultGraph THEN <<p>> ELSE [i \in DOMAIN graphs |-> OnGraph(p, graphs[i])]
        bgps(p) == [i \in DOMAIN on(p) |-> createBgp(<<on(p)[i]>>)]
    IN  CASE op.type \in {"pattern", "path"} /\ op.graph # DefaultGraph -> op
          [] op.type = "pattern" -> UnionOfOperations(on(op))
          [] op.type = "path" -> UnionOfOperations([i \in DOMAIN graphs |-> removeOperationSource(on(op)[i])])
          [] op.type = "bgp" /\ op.patterns # <<>> ->
               JoinOfOperations([i \in DOMAIN op.patterns |-> UnionOfOperations(bgps(op.patterns[i]))])
          [] OTHER -> copyOperation(op, LAMBDA sub : applyOperationDefaultGraph(sub, graphs))

RECURSIVE applyOperationNamedGraph(_, _, _)
applyOperationNamedGraph(op, named, default) ==
    LET graph == IF op.type = "bgp" THEN op.patterns[1].graph ELSE op.graph
        created(p, g) == removeOperationSource(OnGraph(p, g))
        onGraph(g) == IF op.type = "bgp" THEN createBgp([i \in DOMAIN op.patterns |-> created(op.patterns[i], g)])
                      ELSE created(op, g)
        withGraph(g) ==
            createJoin(<<createValues(<<graph[2]>>, <<set(EmptyBindings, graph[2], g)>>), onGraph(g)>>, TRUE)
    IN  CASE op.type \notin {"pattern", "path", "bgp"} \/ (op.type = "bgp" /\ op.patterns = <<>>) ->
               copyOperation(op, LAMBDA sub : applyOperationNamedGraph(sub, named, default))
          [] graph = DefaultGraph -> EmptyBgp
          [] IsVariable(graph) -> UnionOfOperations([i \in DOMAIN named |-> withGraph(named[i])])
          [] Contains(named \o default, graph) -> op
          [] OTHER -> EmptyBgp
(* A variable graph without FROM NAMED is an error.                        *)
NamedGraphMissing(op) ==
    op.named = <<>> /\ \E sub \in SubOperations(op.input[1]) :
        sub.type \in {"pattern", "path"} /\ IsVariable(sub.graph)
runFrom(context, op) ==
    LET defaulted == IF op.default = <<>> THEN op.input[1] ELSE applyOperationDefaultGraph(op.input[1], op.default)
    IN  CASE op.default = <<>> /\ op.named = <<>> -> mediateQueryOperation(context, op.input[1])
          [] NamedGraphMissing(op) -> ErrorResult
          [] OTHER -> mediateQueryOperation(context, applyOperationNamedGraph(defaulted, op.named, op.default))

-----------------------------------------------------------------------------
(* Property paths.  The predicate of a path has its sources in its links   *)
(* and negated sets.                                                       *)
AsPath(op, s, path, o) == createPath(s, path, o, op.graph)
PathOf(op) == op.path[1]
SubPath(op) == PathOf(op).input[1]

runLink(context, op) ==
    mediateQueryOperation(context,
        assignOperationSource(createPattern(op.subject, PathOf(op).iri, op.object, op.graph), PathOf(op).source))
runInv(context, op) == mediateQueryOperation(context, AsPath(op, op.object, SubPath(op), op.subject))
runNps(context, op) ==
    LET blank == generateVariable(<<op>>, "b")
        output == mediateQueryOperation(context,
            assignOperationSource(createPattern(op.subject, blank, op.object, op.graph), PathOf(op).source))
        kept == SelectSeq(output.bindings, LAMBDA b : get(b, blank[2]) \notin ToSet(PathOf(op).iris))
    IN  IF ~IsBindings(output) THEN ErrorResult
        ELSE [output EXCEPT !.bindings =
                [i \in DOMAIN kept |-> filterBindings(kept[i], DOMAIN kept[i] \ {blank[2]})]]
runAlt(context, op) ==
    LET alternatives == PathOf(op).input
        outputs == EvaluateAll(context,
            [i \in DOMAIN alternatives |-> AsPath(op, op.subject, alternatives[i], op.object)])
    IN  IF AllBindings(outputs) THEN UnionOf(outputs) ELSE ErrorResult
runSeq(context, op) ==
    LET steps == PathOf(op).input
        generated == [i \in 1 .. (Len(steps) - 1) |-> generateVariable(<<op>>, "b" \o ToString(i - 1))]
        start(i) == IF i = 1 THEN op.subject ELSE generated[i - 1]
        end(i) == IF i = Len(steps) THEN op.object ELSE generated[i]
        operations == [i \in DOMAIN steps |-> AsPath(op, start(i), steps[i], end(i))]
        outputs == EvaluateAll(context, operations)
    IN  IF ~AllBindings(outputs) THEN ErrorResult
        ELSE Joining("inner", EntriesOf(outputs, operations), DefaultGraph, VariablesOf(ToSet(generated)))

(* A repeated path gives no duplicates: it is evaluated again under a      *)
(* DISTINCT, unless it already is.                                         *)
isPathArbitraryLengthDistinct(context, op, Run(_)) ==
    IF context.distinctPath THEN Run([context EXCEPT !.distinctPath = FALSE])
    ELSE mediateQueryOperation([context EXCEPT !.distinctPath = TRUE], createSingle("distinct", op))

getNodes(context, op) ==
    LET output == mediateQueryOperation(context,
            assignPatternSources(createNodes(op.graph, op.subject[2]), getPathSources(PathOf(op))))
    IN  IF IsBindings(output)
        THEN [output EXCEPT !.bindings =
                [i \in DOMAIN @ |-> set(@[i], op.object[2], get(@[i], op.subject[2]))]]
        ELSE output

(* The terms that a search pushes from the terms that it has to look at:   *)
(* the modules on searches show this of every order of the answers.        *)
StepOf(context, path, graph, term) ==
    mediateQueryOperation(context, createPath(term, path, generateVariable(<<>>, "b"), graph))
ReachableTerms(context, path, graph, todo, found) ==
    IF todo = <<>> THEN found
    ELSE LET output == StepOf(context, path, graph, todo[1])
             next == SelectSeq(Unique([i \in DOMAIN output.bindings |-> output.bindings[i]["b"]]),
                               LAMBDA t : ~Contains(found, t))
         IN  ReachableTerms(context, path, graph, Tail(todo) \o next, found \o next)
Reached(context, path, graph, term) == ReachableTerms(context, path, graph, <<term>>, <<term>>)

(* From a fixed subject: in one graph, or in each graph that has it.       *)
OneMore(cardinality) == [cardinality EXCEPT !.value = Bounded(@ + 1000)]
predicateStarGraphVariable(context, op, subject, path, objectVar) ==
    LET predVar == generateVariable(<<AsPath(op, subject, path, objectVar)>>, "b")
        sources == getPathSources(path)
        about(s, o) == assignPatternSources(createPattern(s, predVar, o, op.graph), sources)
        results == mediateQueryOperation(context,
                       createUnion(<<about(subject, objectVar), about(objectVar, subject)>>, TRUE))
        graphs == Unique([i \in DOMAIN results.bindings |-> get(results.bindings[i], op.graph[2])])
    IN  IF ~IsBindings(results) THEN results
        ELSE [results EXCEPT !.bindings = FlatMap(graphs, LAMBDA g :
                LET terms == Reached(context, path, g, subject)
                IN  [i \in DOMAIN terms |-> set(set(EmptyBindings, objectVar[2], terms[i]), op.graph[2], g)])]
getObjectsPredicateStarEval(context, op, subject, path, objectVar, emitFirstSubject) ==
    LET first == StepOf(context, path, op.graph, subject)
        direct == Unique([i \in DOMAIN first.bindings |-> first.bindings[i]["b"]])
        terms == IF emitFirstSubject THEN Reached(context, path, op.graph, subject)
                 ELSE ReachableTerms(context, path, op.graph, direct, direct)
    IN  CASE IsVariable(op.graph) -> predicateStarGraphVariable(context, op, subject, path, objectVar)
          [] ~IsBindings(first) -> first
          [] OTHER ->
               [first EXCEPT !.bindings = [i \in DOMAIN terms |-> set(EmptyBindings, objectVar[2], terms[i])],
                             !.metadata.cardinality = OneMore(@)]
OnVariables(output, op, vars) ==
    IF ~IsBindings(output) THEN output
    ELSE WithVariables(output, output.bindings,
                       Certain(vars \o IF IsVariable(op.graph) THEN <<op.graph[2]>> ELSE <<>>))

(* From all subjects: a search for each solution of seeds, from a term of  *)
(* it.                                                                     *)
SearchEach(context, op, seeds, Start(_)) ==
    LET graph(b) == IF IsVariable(op.graph) THEN get(b, op.graph[2]) ELSE op.graph
        each(b) ==
            LET terms == Reached(context, SubPath(op), graph(b), Start(b))
                named == IF IsVariable(op.graph) THEN set(EmptyBindings, op.graph[2], graph(b)) ELSE EmptyBindings
            IN  [i \in DOMAIN terms |->
                   set(set(named, op.subject[2], get(b, op.subject[2])), op.object[2], terms[i])]
    IN  IF ~IsBindings(seeds) THEN seeds
        ELSE OnVariables([seeds EXCEPT !.bindings = FlatMap(@, each)], op, Unique(<<op.subject[2], op.object[2]>>))
(* Between two terms: the solutions whose variable is the object.          *)
Between(op, output, v) ==
    LET kept == SelectSeq(output.bindings, LAMBDA b : get(b, v) = op.object)
    IN  IF ~IsBindings(output) THEN output
        ELSE OnVariables([output EXCEPT !.bindings =
                            [i \in DOMAIN kept |-> filterBindings(kept[i], DOMAIN kept[i] \ {v})]], op, <<>>)

ZeroOrOne(context, op) ==
    LET one == mediateQueryOperation(context, AsPath(op, op.subject, SubPath(op), op.object))
        nodes == getNodes(context, op)
        same(v, term) == IF IsVariable(v) THEN <<set(EmptyBindings, v[2], term)>> ELSE <<>>
        zero == IF IsVariable(op.subject) /\ IsVariable(op.object) THEN nodes.bindings
                ELSE same(op.subject, op.object) \o same(op.object, op.subject)
    IN  IF ~IsBindings(one) THEN ErrorResult
        ELSE [one EXCEPT !.bindings = zero \o @, !.metadata.cardinality = OneMore(@)]
runZeroOrOne(context, op) ==
    IF ~IsVariable(op.subject) /\ op.subject = op.object
    THEN Bindings(<<EmptyBindings>>, CountOf("exact", 1), <<>>)
    ELSE isPathArbitraryLengthDistinct(context, op, LAMBDA c : ZeroOrOne(c, op))

ZeroOrMore(context, op) ==
    CASE IsVariable(op.subject) /\ IsVariable(op.object) ->
           SearchEach(context, op, getNodes(context, op), LAMBDA b : get(b, op.subject[2]))
      [] IsVariable(op.object) ->
           OnVariables(getObjectsPredicateStarEval(context, op, op.subject, SubPath(op), op.object, TRUE),
                       op, <<op.object[2]>>)
      [] IsVariable(op.subject) ->
           OnVariables(getObjectsPredicateStarEval(context, op, op.object, createSingle("inv", SubPath(op)),
                                                   op.subject, TRUE),
                       op, <<op.subject[2]>>)
      [] OTHER ->
           Between(op, getObjectsPredicateStarEval(context, op, op.subject, SubPath(op), Variable("b"), TRUE), "b")
runZeroOrMore(context, op) == isPathArbitraryLengthDistinct(context, op, LAMBDA c : ZeroOrMore(c, op))

OneOrMore(context, op) ==
    CASE IsVariable(op.subject) /\ IsVariable(op.object) ->
           SearchEach(context, op,
             mediateQueryOperation(context,
               createSingle("distinct", AsPath(op, op.subject, SubPath(op), op.object))),
             LAMBDA b : get(b, op.object[2]))
      [] IsVariable(op.object) ->
           OnVariables(getObjectsPredicateStarEval(context, op, op.subject, SubPath(op), op.object, FALSE),
                       op, <<op.object[2]>>)
      [] IsVariable(op.subject) ->
           mediateQueryOperation(context,
             AsPath(op, op.object, createSingle("OneOrMorePath", createSingle("inv", SubPath(op))), op.subject))
      [] OTHER ->
           Between(op, mediateQueryOperation(context, AsPath(op, op.subject, PathOf(op), Variable("b"))), "b")
runOneOrMore(context, op) == isPathArbitraryLengthDistinct(context, op, LAMBDA c : OneOrMore(c, op))

-----------------------------------------------------------------------------
(* The joins that join again.                                              *)
OperationOf(entries) == [i \in DOMAIN entries |-> entries[i].operation]
JoinedEntry(output, entries) == Entry(output, createJoin(OperationOf(entries), FALSE))
joinInner(context, entries) == mediateJoin(context, "inner", entries, DefaultGraph)
runMultiSequential(context, entries) ==
    LET firstTwo == SubSeq(entries, 1, 2)
        output == joinInner(context, firstTwo)
    IN  IF ~IsBindings(output) THEN output
        ELSE joinInner(context, <<JoinedEntry(output, firstTwo)>> \o SubSeq(entries, 3, Len(entries)))
runMultiSmallest(context, entries) ==
    LET joined(sorted, chosen) ==
            LET smallest == <<sorted[chosen[1]], sorted[chosen[2]]>>
                output == joinInner(context, smallest)
            IN  IF ~IsBindings(output) THEN output
                ELSE joinInner(context, Append(RemoveAt(RemoveAt(sorted, chosen[2]), chosen[1]),
                                               JoinedEntry(output, smallest)))
        smallestOf(sorted) == joined(sorted, getJoinIndexes(sorted))
    IN  smallestOf(SortedEntries(entries))
FilterBindingsJoin(context, pair, remaining) ==
    LET output == joinInner([context EXCEPT !.lastPhysicalJoin = "filter-bindings"], pair)
    IN  IF ~IsBindings(output) THEN output
        ELSE joinInner(context, <<[JoinedEntry(output, pair) EXCEPT !.operationModified = TRUE]>> \o remaining)
runFilterBindings(context, chosen) ==
    FilterBindingsJoin(context, <<chosen.first, RestrictedEntry(context, chosen)>>, chosen.remaining)

(* The bind joins evaluate the other operations for each solution of the   *)
(* first entry.                                                            *)
createBindStream(context, solutions, operations, optional) ==
    LET results(b) ==
            mediateQueryOperation(context,
              JoinOfOperations([i \in DOMAIN operations |-> materializeOperation(operations[i], b, b)]))
        merged(b, output) == FlatMap(output.bindings, LAMBDA sub : joinBindings(sub, b))
        orOriginal(b, found) == IF optional /\ found = <<>> THEN <<b>> ELSE found
        AddResults(sofar, b) ==
            LET output == results(b)
            IN  IF ~IsBindings(sofar) THEN sofar
                ELSE IF ~IsBindings(output) THEN ErrorResult
                ELSE [sofar EXCEPT !.bindings = @ \o orOriginal(b, merged(b, output))]
    IN  FoldLeft(AddResults, [type |-> "bindings", bindings |-> <<>>], solutions)
BindJoin(context, entries, optional) ==
    JoinedTo(entries, createBindStream(context, SolutionsOf(entries[1]), Tail(OperationOf(entries)), optional), optional)

runJoinActor(context, actor, entries, graphVariable) ==
    CASE actor = "no actor" -> ErrorResult
      [] actor = "none" -> Bindings(<<EmptyBindings>>, CountOf("exact", 1), <<>>)
      [] actor = "single" -> entries[1].output
      [] actor = "multi-empty" -> MultiEmptyJoin(entries)
      [] actor \in {"bind", "optional-bind"} ->
           BindJoin(context, IF actor = "bind" THEN sortJoinEntries(entries) ELSE entries, actor = "optional-bind")
      [] actor = "bind-source" -> BindSourceJoin(context, ModifiedFirst(sortJoinEntries(entries)))
      [] actor = "hash-undef" -> HashUndefJoin(entries)
      [] actor = "hash-def" -> HashJoin(entries)
      [] actor = "symmetric-hash" -> SymmetricHashJoin(entries)
      [] actor = "nested-loop" -> NestedLoopJoin(entries)
      [] actor = "multi-sequential" -> runMultiSequential(context, entries)
      [] actor = "multi-smallest" -> runMultiSmallest(context, entries)
      [] actor = "filter-bindings" -> runFilterBindings(context, FirstAndSecond(entries))
      [] actor \in {"minus-hash-def", "minus-hash-undef"} ->
           MinusHashJoin(entries, IF actor = "minus-hash-def" THEN "def" ELSE "undef", graphVariable)
      [] actor \in {"optional-hash-def", "optional-hash-undef"} ->
           OptionalHashJoin(entries, IF actor = "optional-hash-def" THEN "def" ELSE "undef")
      [] actor = "optional-nested-loop" -> OptionalNestedLoopJoin(entries)

(* The mediator takes the actor that it prefers among those that accept    *)
(* the join.                                                               *)
mediateJoin(context, type, entries, graphVariable) ==
    LET best(actors) == CASE actors = <<>> -> "no actor"
                          [] Contains(actors, context.preferred[type]) -> context.preferred[type]
                          [] OTHER -> actors[1]
    IN  runJoinActor(context,
                     best(SelectSeq(ActorsFor[type], LAMBDA actor : Passes(context, actor, entries))),
                     entries, graphVariable)

-----------------------------------------------------------------------------
(* The source actor has the lowest number of requests of all, and takes    *)
(* what the source of an operation accepts.                                *)
AcceptedBySource(context, op) ==
    /\ getOperationSource(op) # NoSource
    /\ doesShapeAcceptOperation(getSelectorShape(context, op.source), op, {"wildcardAcceptAllExtensionFunctions"})
runSource(context, op) ==
    CASE HasType(op, {"construct"}) -> queryQuads(context, op.source, op)
      [] op.type = "ask" -> queryBoolean(context, op.source, op)
      [] OTHER -> queryBindings(context, op.source, op, NothingPassedDown)

runPath(context, op) ==
    LET type == PathOf(op).type
    IN  CASE type = "link" -> runLink(context, op)
          [] type = "inv" -> runInv(context, op)
          [] type = "nps" -> runNps(context, op)
          [] type = "alt" -> runAlt(context, op)
          [] type = "seq" -> runSeq(context, op)
          [] type = "ZeroOrOnePath" -> runZeroOrOne(context, op)
          [] type = "ZeroOrMorePath" -> runZeroOrMore(context, op)
          [] type = "OneOrMorePath" -> runOneOrMore(context, op)
Returned(context, output) ==
    IF output.type # "joining" THEN output
    ELSE Hiding(mediateJoin(context, output.kind, output.entries, output.graphVariable), output.hidden)
runOperation(context, op) ==
    CASE AcceptedBySource(context, op) -> runSource(context, op)
      [] op.type = "filter" -> runFilter(context, op)
      [] op.type = "extend" -> runExtend(context, op)
      [] op.type = "project" -> runProject(context, op)
      [] op.type = "group" -> runGroup(context, op)
      [] op.type = "slice" -> runSlice(context, op)
      [] op.type = "orderby" -> runOrderBy(context, op)
      [] op.type = "distinct" -> runDistinct(context, op)
      [] op.type = "reduced" -> runReduced(context, op)
      [] op.type = "ask" -> runAsk(context, op)
      [] op.type = "construct" -> runConstruct(context, op)
      [] op.type = "union" -> runUnion(context, op)
      [] op.type = "join" -> runJoin(context, op)
      [] op.type = "bgp" -> runBgp(context, op)
      [] op.type = "leftjoin" -> runLeftJoin(context, op)
      [] op.type = "minus" -> runMinus(context, op)
      [] op.type = "values" -> runValues(op)
      [] op.type = "nop" -> runNop
      [] op.type = "nodes" /\ op.source # NoSource -> runNodes(context, op)
      [] op.type = "from" -> runFrom(context, op)
      [] op.type = "path" -> runPath(context, op)
      [] OTHER -> ErrorResult
mediateQueryOperation(context, op) == Returned(context, runOperation(context, op))
=============================================================================
