------------------------------ MODULE Algebra ------------------------------
(***************************************************************************)
(* The operations of the SPARQL algebra, what the code asks of a whole     *)
(* tree of them, and the replacement of their variables by terms.          *)
(*                                                                         *)
(* An operation is a record with its type; whatever may hold operations or *)
(* expressions (input, patterns, expression, expressions, args, path,      *)
(* aggregates, template) is a sequence, so that a tree can be walked       *)
(* without knowing its types.  The field source is the source assigned to  *)
(* it in its metadata, NoSource if it has none.  Variables of an operation *)
(* are names.                                                              *)
(***************************************************************************)
EXTENDS Solutions

NoSource == ""
NestingFields ==
    {"input", "patterns", "expression", "expressions", "args", "path", "aggregates", "template"}

createPattern(s, p, o, g) ==
    [type |-> "pattern", subject |-> s, predicate |-> p, object |-> o, graph |-> g, source |-> NoSource]
createPath(s, path, o, g) ==
    [type |-> "path", subject |-> s, path |-> <<path>>, object |-> o, graph |-> g, source |-> NoSource]
createBgp(patterns) == [type |-> "bgp", patterns |-> patterns, source |-> NoSource]
createFilter(op, expression) ==
    [type |-> "filter", input |-> <<op>>, expression |-> <<expression>>, source |-> NoSource]
createExtend(op, v, expression) ==
    [type |-> "extend", input |-> <<op>>, variable |-> v, expression |-> <<expression>>, source |-> NoSource]
createProject(op, vars) == [type |-> "project", input |-> <<op>>, variables |-> vars, source |-> NoSource]
createGroup(op, vars, aggregates) ==
    [type |-> "group", input |-> <<op>>, variables |-> vars, aggregates |-> aggregates, source |-> NoSource]
createLeftJoin(left, right, expression) ==
    [type |-> "leftjoin", input |-> <<left, right>>, expression |-> expression, source |-> NoSource]
createMinus(left, right, graphScopeVar) ==
    [type |-> "minus", input |-> <<left, right>>, graphScopeVar |-> graphScopeVar, source |-> NoSource]
createValues(vars, rows) ==
    [type |-> "values", variables |-> vars, bindings |-> rows, source |-> NoSource]
createNop == [type |-> "nop", source |-> NoSource]
createSlice(op, start, length) ==
    [type |-> "slice", input |-> <<op>>, start |-> start, length |-> length, source |-> NoSource]
createOrderBy(op, expressions) ==
    [type |-> "orderby", input |-> <<op>>, expressions |-> expressions, source |-> NoSource]
createFrom(op, default, named) ==
    [type |-> "from", input |-> <<op>>, default |-> default, named |-> named, source |-> NoSource]
createNodes(graph, v) == [type |-> "nodes", graph |-> graph, variable |-> v, source |-> NoSource]
(* A count of all solutions, bound to a variable                            *)
createCount(v) == [type |-> "expression", subType |-> "aggregate", variable |-> v, source |-> NoSource]
(* distinct, reduced and ask; inv and the three repeated paths             *)
createSingle(type, op) == [type |-> type, input |-> <<op>>, source |-> NoSource]
createConstruct(op, template) ==
    [type |-> "construct", input |-> <<op>>, template |-> template, source |-> NoSource]
createDescribe(op, terms) ==
    [type |-> "describe", input |-> <<op>>, terms |-> terms, source |-> NoSource]
createLink(iri) == [type |-> "link", iri |-> iri, source |-> NoSource]
createNps(iris) == [type |-> "nps", iris |-> iris, source |-> NoSource]
createService(op, name) == [type |-> "service", input |-> <<op>>, name |-> name, source |-> NoSource]
createTermExpression(term) ==
    [type |-> "expression", subType |-> "term", term |-> term, source |-> NoSource]
createOperatorExpression(operator, args) ==
    [type |-> "expression", subType |-> "operator", operator |-> operator, args |-> args, source |-> NoSource]
createExistenceExpression(not, op) ==
    [type |-> "expression", subType |-> "existence", not |-> not, input |-> <<op>>, source |-> NoSource]
createNamedExpression(name, args) ==
    [type |-> "expression", subType |-> "named", name |-> name, args |-> args, source |-> NoSource]

(* join, union, seq and alt take over the inputs of their own kind, unless *)
(* they are told not to flatten.                                           *)
createMulti(type, inputs, flatten) ==
    [type |-> type, source |-> NoSource,
     input |-> IF ~flatten THEN inputs
               ELSE FlatMap(inputs, LAMBDA op : IF op.type = type THEN op.input ELSE <<op>>)]
createJoin(inputs, flatten) == createMulti("join", inputs, flatten)
createUnion(inputs, flatten) == createMulti("union", inputs, flatten)

-----------------------------------------------------------------------------
(* Walks over a tree.                                                      *)
Children(op) ==
    FlatMap(AsSequence(NestingFields \intersect DOMAIN op), LAMBDA field : op[field])
RECURSIVE SubOperations(_)
SubOperations(op) == {op} \union UNION {SubOperations(Children(op)[i]) : i \in DOMAIN Children(op)}
HasType(op, types) == \E sub \in SubOperations(op) : sub.type \in types

getOperationSource(op) == op.source
assignOperationSource(op, source) == [op EXCEPT !.source = source]
removeOperationSource(op) == [op EXCEPT !.source = NoSource]

VariablesOf(terms) == {term[2] : term \in {t \in terms : IsVariable(t)}}

(* Every variable under the operation, except under a projection, which    *)
(* has its own, and in the right side of MINUS.  Variables of EXISTS count.*)
RECURSIVE inScopeVariables(_)
inScopeVariables(op) ==
    LET nested(inputs) == UNION {inScopeVariables(inputs[i]) : i \in DOMAIN inputs}
    IN  CASE op.type = "project" -> ToSet(op.variables)
          [] op.type = "minus" -> inScopeVariables(op.input[1])
          [] op.type = "pattern" -> VariablesOf({op.subject, op.predicate, op.object, op.graph})
          [] op.type = "path" -> VariablesOf({op.subject, op.object, op.graph})
          [] op.type = "values" -> ToSet(op.variables)
          [] op.type = "extend" -> {op.variable} \union nested(Children(op))
          [] op.type = "group" -> ToSet(op.variables) \union nested(Children(op))
          [] op.type = "service" -> VariablesOf({op.name}) \union nested(op.input)
          [] OTHER -> nested(Children(op))

RECURSIVE getExpressionVariables(_)
getExpressionVariables(expression) ==
    CASE expression.subType = "existence" -> inScopeVariables(expression.input[1])
      [] expression.subType = "operator" ->
           UNION {getExpressionVariables(expression.args[i]) : i \in DOMAIN expression.args}
      [] expression.subType = "term" -> VariablesOf({expression.term})
      [] expression.subType = "named" -> {}

-----------------------------------------------------------------------------
(* Which operations a source accepts, by the shape that it declares.       *)
(*   [shape |-> "conjunction" | "disjunction", children |-> sequence]      *)
(*   [shape |-> "negation" | "arity", child |-> a sequence of one shape]   *)
(*   [shape |-> "operation", operationType |-> "type" | "pattern" |        *)
(*    "wildcard", type, extensionFunctions, joinBindings, filterBindings,  *)
(*    children]                                                            *)
(* Options are the set of the flags that are given.                        *)
isStandardSparqlFunction(iri) == iri = "https://www.w3.org/function"
isExtensionFunction(op) ==
    op.type = "expression" /\ op.subType = "named" /\ ~isStandardSparqlFunction(op.name)
HasExtension(expressions) == \E i \in DOMAIN expressions : isExtensionFunction(expressions[i])
FieldOr(op, field) == IF field \in DOMAIN op THEN op[field] ELSE <<>>

(* The code tests filterBindings only when joinBindings is not given.      *)
OptionsAccepted(shape, options) ==
    IF "joinBindings" \in options THEN shape.joinBindings
    ELSE "filterBindings" \in options => shape.filterBindings

RECURSIVE doesShapeAcceptOperationRecurseShape(_, _, _, _)
doesShapeAcceptOperationRecurseOperationAndShape(top, children, op, options) ==
    LET inputs == IF "input" \in DOMAIN op THEN op.input ELSE FieldOr(op, "patterns")
    IN  /\ ~isExtensionFunction(op) /\ ~HasExtension(FieldOr(op, "expression"))
        /\ children # <<>>
        /\ Len(children) <= Len(inputs)
        /\ \A i \in DOMAIN children :
             doesShapeAcceptOperationRecurseShape(top, children[i], inputs[i], options)
doesShapeAcceptOperationRecurseOperation(top, op, options) ==
    LET accepted(ops) ==
            \A i \in DOMAIN ops : doesShapeAcceptOperationRecurseShape(top, top, ops[i], options)
    IN  /\ accepted(FieldOr(op, "input"))
        /\ accepted(SelectSeq(FieldOr(op, "expression"), isExtensionFunction))
        /\ accepted(FieldOr(op, "patterns"))
doesShapeAcceptOperationRecurseShape(top, shape, op, options) ==
    LET recurse(t, child) == doesShapeAcceptOperationRecurseShape(t, child, op, options)
    IN  CASE shape.shape = "conjunction" -> \A i \in DOMAIN shape.children : recurse(top, shape.children[i])
          [] shape.shape = "disjunction" -> \E i \in DOMAIN shape.children : recurse(top, shape.children[i])
          [] shape.shape = "negation" -> ~recurse(shape.child[1], shape.child[1])
          [] shape.shape = "arity" -> recurse(top, shape.child[1])
          [] shape.shape = "operation" /\ shape.operationType = "wildcard" ->
               /\ OptionsAccepted(shape, options)
               /\ \/ "wildcardAcceptAllExtensionFunctions" \in options
                  \/ /\ ~isExtensionFunction(op)
                     /\ \A sub \in SubOperations(op) :
                          isExtensionFunction(sub) =>
                            doesShapeAcceptOperationRecurseShape(top, top, sub, options)
          [] OTHER ->
               /\ OptionsAccepted(shape, options)
               /\ shape.type = "expression" /\ isExtensionFunction(op) /\ shape.operationType = "type"
                    => op.name \in shape.extensionFunctions
               /\ \/ doesShapeAcceptOperationRecurseOperationAndShape(top, shape.children, op, options)
                  \/ doesShapeAcceptOperationRecurseOperation(top, op, options)
               /\ shape.type = op.type
doesShapeAcceptOperation(shape, op, options) ==
    doesShapeAcceptOperationRecurseShape(shape, shape, op, options)

-----------------------------------------------------------------------------
(* materializeOperation, as its callers in this code use it: target        *)
(* variables are not strict and expressions are bound.  Operations that    *)
(* are created anew lose the source they were assigned.                    *)
materializeTerm(term, bindings) ==
    IF IsVariable(term) /\ has(bindings, term[2]) THEN bindings[term[2]] ELSE term

createValuesFromBindings(bindings, vars) ==
    LET named == AsSequence(DOMAIN bindings \intersect vars)
    IN  [i \in DOMAIN named |-> createValues(<<named[i]>>, <<filterBindings(bindings, {named[i]})>>)]

IsBoundOf(expression, bindings) ==
    /\ expression.subType = "operator" /\ expression.operator = "bound" /\ Len(expression.args) = 1
    /\ expression.args[1].subType = "term"
    /\ IsVariable(expression.args[1].term) /\ has(bindings, expression.args[1].term[2])

materializeValues(op, bindings) ==
    LET kept == SelectSeq(op.bindings, LAMBDA row : Compatible(row, bindings))
    IN  createValues(SelectSeq(op.variables, LAMBDA v : ~has(bindings, v)),
                     [i \in DOMAIN kept |-> filterBindings(kept[i], DOMAIN kept[i] \ DOMAIN bindings)])

RECURSIVE materializeOperation(_, _, _)
materializeOperation(op, bindings, original) ==
    LET again(sub) == materializeOperation(sub, bindings, original)
        all(ops) == [i \in DOMAIN ops |-> again(ops[i])]
        inside == [field \in DOMAIN op |-> IF field \in NestingFields THEN all(op[field]) ELSE op[field]]
    IN  CASE op.type \in {"path", "pattern"} ->
               [field \in DOMAIN op |->
                   IF field \in {"subject", "predicate", "object", "graph"}
                   THEN materializeTerm(op[field], bindings) ELSE op[field]]
          [] op.type = "join" ->
               assignOperationSource(
                 createJoin(all(op.input), \A i \in DOMAIN op.input : op.input[i].source = NoSource),
                 op.source)
          [] op.type = "extend" /\ has(bindings, op.variable) -> again(inside.input[1])
          [] op.type = "group" ->
               createGroup(inside.input[1], SelectSeq(op.variables, LAMBDA v : ~has(bindings, v)),
                           inside.aggregates)
          [] op.type = "filter" /\ original = EmptyBindings -> op
          [] op.type = "filter" /\ op.expression[1].subType = "existence" ->
               createFilter(again(op.input[1]), again(op.expression[1]))
          [] op.type = "filter" /\ op.expression[1].subType = "operator" ->
               createFilter(
                 createJoin(createValuesFromBindings(original, DOMAIN original) \o all(op.input), TRUE),
                 again(op.expression[1]))
          [] op.type = "filter" -> op
          [] op.type = "project" ->
               LET values_ == createValuesFromBindings(original, ToSet(op.variables))
               IN  createProject(IF values_ = <<>> THEN again(op.input[1])
                                 ELSE createJoin(values_ \o all(op.input), TRUE),
                                 op.variables)
          [] op.type = "values" -> materializeValues(op, bindings)
          [] op.type = "expression" /\ op.subType = "term" ->
               createTermExpression(materializeTerm(op.term, bindings))
          [] op.type = "expression" /\ IsBoundOf(op, bindings) ->
               createTermExpression(Literal("true", "boolean"))
          [] OTHER -> inside
=============================================================================
