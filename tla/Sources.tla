------------------------------ MODULE Sources ------------------------------
(***************************************************************************)
(* Query sources, as the engine sees them: the shape of the operations     *)
(* that they accept, their answers, and the metadata of these answers.     *)
(*                                                                         *)
(* Three kinds of source are behind it: an RDF/JS store and an interface   *)
(* of quad pattern fragments, whose quads are turned into bindings here,   *)
(* and a SPARQL endpoint, which answers by the semantics.  Each is wrapped *)
(* by QuerySourceSkolemized, which keeps the blank nodes of different      *)
(* sources apart.                                                          *)
(*                                                                         *)
(* A source is a record:                                                   *)
(*   kind       "rdfjs", "qpf", "sparql", or "file": a store to be merged  *)
(*   quads      a sequence of quads                                        *)
(*   defaultGraph   the name of the default graph that fragments declare,  *)
(*              or Undefined                                               *)
(*   restricted whether fragments can be restricted to bindings            *)
(*   indexed    the operations that a store has an index of, among         *)
(*              nodes and distinctterms                                    *)
(*   counts     whether an endpoint answers to a COUNT query in time       *)
(*   extensionFunctions   those that an endpoint declares                  *)
(* context.sources maps names of sources to records, context.ids to texts, *)
(* the identifiers that the skolemized source gives to them.               *)
(***************************************************************************)
EXTENDS SparqlSemantics

CONSTANTS Infinity   \* larger than any cardinality of the instance

(* Cardinalities are counted in thousandths, as estimates may be fractions.*)
CardinalityOf(type, value) == [type |-> type, value |-> value]
EstimateInfinity == CardinalityOf("estimate", Infinity)
MetadataVariable(v, canBeUndef) == [variable |-> v, canBeUndef |-> canBeUndef]
Bindings(solutions, cardinality, variables) ==
    [type |-> "bindings", bindings |-> solutions,
     metadata |-> [cardinality |-> cardinality, variables |-> variables]]
CountOf(type, count) == CardinalityOf(type, 1000 * count)
ErrorResult == [type |-> "error"]
QuadsResult(quads) == [type |-> "quads", quads |-> quads]
BooleanResult(b) == [type |-> "boolean", value |-> b]

-----------------------------------------------------------------------------
(* Blank nodes of a source get its identifier in their label, and remember *)
(* the source and the label that they had.  A skolem IRI of a query names  *)
(* both as well.                                                           *)
BlankNodeScoped(id, label) == <<"BlankNode", "bc_" \o id \o "_" \o label, id, label>>
SkolemIri(id, label) == <<"NamedNode", "urn:comunica_skolem:source_" \o id \o ":" \o label, id, label>>
IsSkolem(term) == term[1] \in {"BlankNode", "NamedNode"} /\ Len(term) = 4

skolemizeTerm(term, id) ==
    IF term[1] = "BlankNode" THEN BlankNodeScoped(id, term[2]) ELSE term
skolemizeQuad(quad, id) == [i \in DOMAIN quad |-> skolemizeTerm(quad[i], id)]
skolemizeBindings(bindings, id) == [v \in DOMAIN bindings |-> skolemizeTerm(bindings[v], id)]

(* A term of another source gives Undefined.                               *)
deskolemizeTerm(term, id) ==
    CASE ~IsSkolem(term) -> term
      [] term[3] = id -> BlankNode(term[4])
      [] OTHER -> Undefined

(* The terms of the patterns and paths of the operation; <<>> if one is    *)
(* of another source, <<operation>> otherwise.                             *)
TermFields == {"subject", "predicate", "object", "graph"}
OutOfScope(op, id) ==
    \E sub \in SubOperations(op) : /\ sub.type \in {"pattern", "path"}
                                   /\ \E field \in TermFields \intersect DOMAIN sub :
                                        deskolemizeTerm(sub[field], id) = Undefined
RECURSIVE Deskolemized(_, _)
Deskolemized(op, id) ==
    [field \in DOMAIN op |->
        CASE field \in NestingFields -> [i \in DOMAIN op[field] |-> Deskolemized(op[field][i], id)]
          [] field \in TermFields -> deskolemizeTerm(op[field], id)
          [] OTHER -> op[field]]
deskolemizeOperation(op, id) == IF OutOfScope(op, id) THEN <<>> ELSE <<Deskolemized(op, id)>>

-----------------------------------------------------------------------------
(* From quads to bindings.                                                 *)
Positions == <<"subject", "predicate", "object", "graph">>
TermAt(quad, position) == quad[IndexFirstSubSeq(<<position>>, Positions)]
VariablePositions(pattern) == {i \in 1 .. 4 : IsVariable(pattern[Positions[i]])}
getVariables(pattern) ==
    Unique(FlatMap(Positions, LAMBDA p : IF IsVariable(pattern[p]) THEN <<pattern[p][2]>> ELSE <<>>))
hasDuplicateVariables(pattern) ==
    Len(getVariables(pattern)) < Cardinality(VariablePositions(pattern))

(* match of a store: it does not look at the names of variables.           *)
matchQuads(quads, pattern) ==
    SelectSeq(quads, LAMBDA quad :
        \A i \in 1 .. 4 : IsVariable(pattern[Positions[i]]) \/ pattern[Positions[i]] = quad[i])

quadsToBindings(quads, pattern) ==
    LET positions == VariablePositions(pattern)
        name(i) == pattern[Positions[i]][2]
        kept == SelectSeq(quads, LAMBDA quad :
                    /\ IsVariable(pattern.graph) => quad[4] # DefaultGraph
                    /\ \A i, j \in positions : name(i) = name(j) => quad[i] = quad[j])
    IN  [k \in DOMAIN kept |->
           [v \in ToSet(getVariables(pattern)) |->
              kept[k][CHOOSE i \in positions : name(i) = v]]]

(* Cardinalities are exact unless quads may be filtered afterwards.        *)
queryBindingsRdfJs(source, op) ==
    LET matching == matchQuads(source.quads, op)
        filtered == hasDuplicateVariables(op) \/ IsVariable(op.graph)
        distinctTerms == Unique([i \in DOMAIN source.quads |->
                            [v \in ToSet(op.variables) |-> TermAt(source.quads[i], op.terms[v])]])
        certain(vars) == [i \in DOMAIN vars |-> MetadataVariable(vars[i], FALSE)]
        inGraph == SelectSeq(source.quads, LAMBDA quad :
                      IF IsVariable(op.graph) THEN quad[4] # DefaultGraph ELSE quad[4] = op.graph)
        graphOf(quad) == IF IsVariable(op.graph) THEN set(EmptyBindings, op.graph[2], quad[4]) ELSE EmptyBindings
        nodes == Unique(FlatMap(inGraph, LAMBDA quad :
                    <<set(graphOf(quad), op.variable, quad[1]), set(graphOf(quad), op.variable, quad[3])>>))
        graphVariable == IF IsVariable(op.graph) THEN <<op.graph[2]>> ELSE <<>>
    IN  CASE op.type = "nodes" /\ "nodes" \in source.indexed ->
               Bindings(nodes, CountOf("exact", Len(nodes)), certain(graphVariable \o <<op.variable>>))
          [] op.type = "distinctterms" /\ "distinctterms" \in source.indexed ->
               Bindings(distinctTerms, CountOf("exact", Len(distinctTerms)), certain(op.variables))
          [] op.type = "pattern" ->
               Bindings(quadsToBindings(matching, op),
                        CountOf(IF filtered THEN "estimate" ELSE "exact", Len(matching)),
                        certain(getVariables(op)))
          [] OTHER -> ErrorResult

-----------------------------------------------------------------------------
(* Fragments of a form with a graph.  What the server sends is matched     *)
(* again here, and quads of the declared default graph become quads of the *)
(* default graph.  Counts of the server are estimates.                     *)
ReverseMapped(source, quad) ==
    IF quad[4] = source.defaultGraph THEN <<quad[1], quad[2], quad[3], DefaultGraph>> ELSE quad
Restricted(quads, op, filterBindings_) ==
    IF filterBindings_ = <<>> THEN quads
    ELSE SelectSeq(quads, LAMBDA quad :
            \E i \in DOMAIN filterBindings_[1].bindings : \E solution \in ToSet(MatchQuad([op EXCEPT !.graph = quad[4]], quad)) :
              Compatible(solution, filterBindings_[1].bindings[i]))
match(source, op, filterBindings_) ==
    LET modifiedGraph == op.graph = DefaultGraph /\ source.defaultGraph # Undefined
        requested == IF modifiedGraph THEN [op EXCEPT !.graph = source.defaultGraph] ELSE op
        matching == SelectSeq(source.quads, LAMBDA quad :
                        \/ matchQuads(<<quad>>, requested) # <<>>
                        \/ modifiedGraph /\ matchQuads(<<quad>>, op) # <<>>)
        served == Restricted(matching, op, filterBindings_)
        mapped == IF modifiedGraph \/ IsVariable(requested.graph)
                  THEN [i \in DOMAIN served |-> ReverseMapped(source, served[i])] ELSE served
    IN  IF op.graph = DefaultGraph /\ ~modifiedGraph
        THEN [quads |-> <<>>, cardinality |-> CardinalityOf("exact", 0)]
        ELSE [quads |-> mapped, cardinality |-> CountOf("estimate", Len(matching))]
queryBindingsQpf(source, op, filterBindings_) ==
    LET vars == getVariables(op)
        cardinality(declared) == IF hasDuplicateVariables(op) THEN [declared EXCEPT !.type = "estimate"] ELSE declared
        answer(matched) == Bindings(quadsToBindings(matched.quads, op), cardinality(matched.cardinality),
                                    [i \in DOMAIN vars |-> MetadataVariable(vars[i], FALSE)])
    IN  IF op.type # "pattern" THEN ErrorResult ELSE answer(match(source, op, filterBindings_))

-----------------------------------------------------------------------------
(* A SPARQL endpoint.  getOperationUndefs does not go on below OPTIONAL    *)
(* and VALUES.                                                             *)
RECURSIVE getOperationUndefs(_)
getOperationUndefs(op) ==
    LET nested == UNION {getOperationUndefs(Children(op)[i]) : i \in DOMAIN Children(op)}
        scopes == IF op.type = "union" THEN {inScopeVariables(op.input[i]) : i \in DOMAIN op.input} ELSE {}
    IN  CASE op.type = "leftjoin" -> inScopeVariables(op.input[2]) \ inScopeVariables(op.input[1])
          [] op.type = "values" ->
               {v \in ToSet(op.variables) : \E i \in DOMAIN op.bindings : ~has(op.bindings[i], v)}
          [] op.type = "union" -> nested \union {v \in UNION scopes : \E scope \in scopes : v \notin scope}
          [] OTHER -> nested

(* The query that counts: names of variables and the graph of a pattern    *)
(* are normalized away.                                                    *)
operationToNormalizedCountQuery(op) ==
    IF op.type # "pattern" THEN op
    ELSE LET normal(term, name) == IF IsVariable(term) THEN Variable(name) ELSE term
         IN  createPattern(normal(op.subject, "s"), normal(op.predicate, "p"), normal(op.object, "o"), DefaultGraph)

addBindingsToOperation(op, joinBindings_) ==
    IF joinBindings_ = <<>> THEN op
    ELSE LET added == joinBindings_[1]
             vars == [i \in DOMAIN added.metadata.variables |-> added.metadata.variables[i].variable]
         IN  createJoin(<<createValues(vars, added.bindings), op>>, FALSE)

attachMetadata(source, operation, vars) ==
    LET undefs == getOperationUndefs(operation)
    IN  [cardinality |-> IF ~source.counts THEN EstimateInfinity
                         ELSE CountOf("exact", Len(Evaluate(operationToNormalizedCountQuery(operation), source.quads))),
         variables |-> [i \in DOMAIN vars |-> MetadataVariable(vars[i], vars[i] \in undefs)]]
queryBindingsSparql(source, op, joinBindings_) ==
    LET operation == addBindingsToOperation(op, joinBindings_)
        vars == AsSequence(inScopeVariables(operation))
        answer(metadata) == Bindings(Evaluate(createProject(operation, vars), source.quads),
                                     metadata.cardinality, metadata.variables)
    IN  answer(attachMetadata(source, operation, vars))

-----------------------------------------------------------------------------
(* Shapes, and the skolemized source in front.                             *)
OperationShape(operationType, type, joinBindings_, children) ==
    [shape |-> "operation", operationType |-> operationType, type |-> type, extensionFunctions |-> {},
     joinBindings |-> joinBindings_, filterBindings |-> FALSE, children |-> children]
Wildcard == OperationShape("wildcard", "", TRUE, <<>>)

getSelectorShapeRdfJs(source) ==
    LET indexes == AsSequence(source.indexed)
        pattern == OperationShape("pattern", "pattern", FALSE, <<>>)
    IN  IF indexes = <<>> THEN pattern
        ELSE [shape |-> "disjunction",
              children |-> <<pattern>> \o [i \in DOMAIN indexes |-> OperationShape("type", indexes[i], FALSE, <<>>)]]

(* DISTINCT CONSTRUCT is not allowed in SPARQL.                            *)
getSelectorShapeSparql(source) ==
    LET functions == IF source.extensionFunctions = {} THEN <<>>
                     ELSE <<[OperationShape("type", "expression", TRUE, <<>>)
                               EXCEPT !.extensionFunctions = source.extensionFunctions]>>
        distinctConstruct ==
            OperationShape("type", "distinct", FALSE,
                <<OperationShape("type", "construct", FALSE, <<Wildcard>>)>>)
    IN  [shape |-> "conjunction",
         children |-> <<[shape |-> "disjunction", children |-> <<Wildcard>> \o functions],
                        [shape |-> "negation", child |-> <<distinctConstruct>>]>>]

getSelectorShapeQpf(source) ==
    [OperationShape("pattern", "pattern", FALSE, <<>>) EXCEPT !.filterBindings = source.restricted]

getSelectorShape(context, name) ==
    LET source == context.sources[name]
    IN  CASE source.kind = "sparql" -> getSelectorShapeSparql(source)
          [] source.kind = "qpf" -> getSelectorShapeQpf(source)
          [] OTHER -> getSelectorShapeRdfJs(source)

(* The bindings that a join passes down, none or one result each: their    *)
(* terms are passed on as they are, only the terms of patterns and paths   *)
(* are deskolemized.  NODES and DISTINCT_TERMS cannot be written as SPARQL.*)
PassedDown(joinBindings_, filterBindings_) ==
    [joinBindings |-> joinBindings_, filterBindings |-> filterBindings_]
NothingPassedDown == PassedDown(<<>>, <<>>)
queryBindings(context, name, op, options) ==
    LET source == context.sources[name]
        id == context.ids[name]
        inner == deskolemizeOperation(op, id)
        outer(answer) == IF answer.type = "error" THEN answer
                         ELSE [answer EXCEPT !.bindings = [i \in DOMAIN @ |-> skolemizeBindings(@[i], id)]]
    IN  IF inner = <<>> THEN Bindings(<<>>, CardinalityOf("exact", 0), <<>>)
        ELSE outer(CASE source.kind = "sparql" /\ HasType(inner[1], {"nodes", "distinctterms"}) -> ErrorResult
                     [] source.kind = "sparql" -> queryBindingsSparql(source, inner[1], options.joinBindings)
                     [] source.kind = "qpf" -> queryBindingsQpf(source, inner[1], options.filterBindings)
                     [] OTHER -> queryBindingsRdfJs(source, inner[1]))
queryQuads(context, name, op) ==
    LET id == context.ids[name]
        inner == deskolemizeOperation(op, id)
        quads == IF inner = <<>> THEN <<>> ELSE Evaluate(inner[1], context.sources[name].quads)
    IN  QuadsResult([i \in DOMAIN quads |-> skolemizeQuad(quads[i], id)])
queryBoolean(context, name, op) ==
    BooleanResult(Evaluate(op.input[1], context.sources[name].quads) # <<>>)

(* What the sources hold together, for the semantics: blank nodes are      *)
(* scoped to their source.                                                 *)
SkolemizedQuads(context, name) ==
    LET source == context.sources[name]
    IN  [i \in DOMAIN source.quads |->
            skolemizeQuad(IF source.kind = "qpf" THEN ReverseMapped(source, source.quads[i]) ELSE source.quads[i],
                          context.ids[name])]
Dataset(context) ==
    FlatMap(context.querySources, LAMBDA name : SkolemizedQuads(context, name))
=============================================================================
