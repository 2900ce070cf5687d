--------------------------- MODULE SparqlSemantics ---------------------------
(***************************************************************************)
(* What the operations of the algebra mean, by the definitions of the      *)
(* SPARQL recommendation, over a sequence of quads.  A quad of two sources *)
(* counts twice, as the union over sources that the engine evaluates gives *)
(* it twice.  A query source answers by this meaning, and the engine is    *)
(* compared with it: none of this is code of the engine.                   *)
(***************************************************************************)
EXTENDS Algebra, TLC

Error == <<"Error">>
BooleanTerm(b) == Literal(IF b THEN "true" ELSE "false", "boolean")

(* Two terms are equal as terms, or as integers of different spelling.     *)
IntegerOf(term) == IF term[2] = "01" THEN "1" ELSE term[2]
IsInteger(term) == Len(term) = 3 /\ term[3] = "integer"
EqualTerms(a, b) == a = b \/ (IsInteger(a) /\ IsInteger(b) /\ IntegerOf(a) = IntegerOf(b))
EffectiveBoolean(term) ==
    IF Len(term) = 3 /\ term[3] = "boolean" THEN BooleanTerm(term[2] = "true") ELSE Error


(* A term, and an extension function, which holds of everything; and an    *)
(* operator, of the values of its arguments.                               *)
ValueOfLeaf(expression, bindings) ==
    CASE expression.subType = "named" -> BooleanTerm(TRUE)
      [] ~IsVariable(expression.term) -> expression.term
      [] has(bindings, expression.term[2]) -> bindings[expression.term[2]]
      [] OTHER -> Error
ValueOfOperator(expression, bindings, args) ==
    LET truth(i) == EffectiveBoolean(args[i])
    IN  CASE expression.operator = "bound" -> BooleanTerm(has(bindings, expression.args[1].term[2]))
          [] expression.operator = "=" ->
               IF \E i \in DOMAIN args : Len(args[i]) = 1 THEN Error ELSE BooleanTerm(EqualTerms(args[1], args[2]))
          [] expression.operator = "!" ->
               IF truth(1) = Error THEN Error ELSE BooleanTerm(truth(1) = BooleanTerm(FALSE))
          [] expression.operator = "&&" ->
               IF BooleanTerm(FALSE) \in {truth(1), truth(2)} THEN BooleanTerm(FALSE)
               ELSE IF Error \in {truth(1), truth(2)} THEN Error ELSE BooleanTerm(TRUE)
          [] expression.operator = "||" ->
               IF BooleanTerm(TRUE) \in {truth(1), truth(2)} THEN BooleanTerm(TRUE)
               ELSE IF Error \in {truth(1), truth(2)} THEN Error ELSE BooleanTerm(FALSE)

(* The groups of solutions, in order; without keys there is always one.    *)
CountOfSolutions(number) == Literal(ToString(number), "integer")
GroupsOf(op, solutions) ==
    LET key(bindings) == filterBindings(bindings, ToSet(op.variables))
        keys == IF solutions = <<>> /\ op.variables = <<>> THEN <<EmptyBindings>>
                ELSE Unique([i \in DOMAIN solutions |-> key(solutions[i])])
        members(k) == SelectSeq(solutions, LAMBDA b : key(b) = keys[k])
        counts == ToSet([i \in DOMAIN op.aggregates |-> op.aggregates[i].variable])
    IN  [k \in DOMAIN keys |->
           [v \in DOMAIN keys[k] \union counts |->
              IF v \in counts THEN CountOfSolutions(Len(members(k))) ELSE keys[k][v]]]

(* The dataset of FROM and FROM NAMED.                                     *)
DatasetOf(op, data) ==
    IF op.default = <<>> /\ op.named = <<>> THEN data
    ELSE FlatMap(op.default, LAMBDA g :
             LET quads == SelectSeq(data, LAMBDA quad : quad[4] = g)
             IN  [i \in DOMAIN quads |-> <<quads[i][1], quads[i][2], quads[i][3], DefaultGraph>>])
         \o SelectSeq(data, LAMBDA quad : quad[4] \in ToSet(op.named))

-----------------------------------------------------------------------------
(* Matching of a pattern with a quad <<s, p, o, g>>: at most one solution. *)
MatchTerm(solutions, term, value) ==
    IF solutions = <<>> THEN <<>>
    ELSE CASE ~IsVariable(term) -> IF term = value THEN solutions ELSE <<>>
           [] has(solutions[1], term[2]) -> IF solutions[1][term[2]] = value THEN solutions ELSE <<>>
           [] OTHER -> <<set(solutions[1], term[2], value)>>
MatchQuad(pattern, quad) ==
    IF IsVariable(pattern.graph) /\ quad[4] = DefaultGraph THEN <<>>
    ELSE MatchTerm(MatchTerm(MatchTerm(MatchTerm(<<EmptyBindings>>,
             pattern.subject, quad[1]), pattern.predicate, quad[2]), pattern.object, quad[3]),
             pattern.graph, quad[4])
MatchPattern(pattern, data) == FlatMap(data, LAMBDA quad : MatchQuad(pattern, quad))

JoinOf(left, right) == FlatMap(left, LAMBDA a : FlatMap(right, LAMBDA b : joinBindings(a, b)))
MinusOf(left, right) ==
    SelectSeq(left, LAMBDA a : \A i \in DOMAIN right :
        ~Compatible(a, right[i]) \/ DOMAIN a \intersect DOMAIN right[i] = {})

(* The terms that occur in the data as a subject or an object.             *)
NodesOf(data) == UNION {{data[i][1], data[i][3]} : i \in DOMAIN data}
RECURSIVE Reachable(_, _, _)
Reachable(pairs, from, seen) ==
    LET next == {pair[2] : pair \in {p \in pairs : p[1] \in from}} \ seen
    IN  IF next = {} THEN seen ELSE Reachable(pairs, next, seen \union next)

-----------------------------------------------------------------------------
(* Evaluate gives the solutions of an operation, EvaluateExpression a term *)
(* or Error, PathPairs the pairs that a path connects, as a sequence.      *)
RECURSIVE Evaluate(_, _), EvaluateExpression(_, _, _), PathPairs(_, _, _)

EvaluateExpression(expression, bindings, data) ==
    CASE expression.subType = "existence" ->
           LET found == \E i \in DOMAIN Evaluate(expression.input[1], data) :
                          Compatible(Evaluate(expression.input[1], data)[i], bindings)
           IN  BooleanTerm(found # expression.not)
      [] expression.subType = "operator" ->
           ValueOfOperator(expression, bindings,
               [i \in DOMAIN expression.args |-> EvaluateExpression(expression.args[i], bindings, data)])
      [] OTHER -> ValueOfLeaf(expression, bindings)
Satisfies(expression, bindings, data) ==
    LET value == EvaluateExpression(expression, bindings, data)
    IN  value # Error /\ EffectiveBoolean(value) = BooleanTerm(TRUE)

PathPairs(path, graph, data) ==
    LET inGraph == SelectSeq(data, LAMBDA quad : quad[4] = graph)
        sub(i) == PathPairs(path.input[i], graph, data)
        unique(pairs) == AsSequence(pairs)
        zero == {<<node, node>> : node \in NodesOf(inGraph)}
        closure(first(_)) == UNION {{<<n, m>> : m \in Reachable(ToSet(sub(1)), first(n), first(n))} : n \in NodesOf(inGraph)}
    IN  CASE path.type = "link" ->
               FlatMap(inGraph, LAMBDA quad : IF quad[2] = path.iri THEN <<<<quad[1], quad[3]>>>> ELSE <<>>)
          [] path.type = "nps" ->
               FlatMap(inGraph, LAMBDA quad : IF quad[2] \notin ToSet(path.iris) THEN <<<<quad[1], quad[3]>>>> ELSE <<>>)
          [] path.type = "inv" -> [i \in DOMAIN sub(1) |-> <<sub(1)[i][2], sub(1)[i][1]>>]
          [] path.type = "alt" -> FlattenSeq([i \in DOMAIN path.input |-> sub(i)])
          [] path.type = "seq" ->
               FlatMap(sub(1), LAMBDA a : FlatMap(sub(2), LAMBDA b :
                   IF a[2] = b[1] THEN <<<<a[1], b[2]>>>> ELSE <<>>))
          [] path.type = "ZeroOrOnePath" -> unique(zero \union ToSet(sub(1)))
          [] path.type = "ZeroOrMorePath" -> unique(closure(LAMBDA n : {n}))
          [] path.type = "OneOrMorePath" ->
               unique(closure(LAMBDA n : {pair[2] : pair \in {p \in ToSet(sub(1)) : p[1] = n}}))

Evaluate(op, data) ==
    LET sub(i) == Evaluate(op.input[i], data)
        accepted(i, bindings) == Satisfies(op.expression[i], bindings, data)
        inner(a) == SelectSeq(JoinOf(<<a>>, sub(2)), LAMBDA b : op.expression = <<>> \/ accepted(1, b))
    IN  CASE op.type = "pattern" -> MatchPattern(op, data)
          [] op.type = "bgp" ->
               FoldLeft(LAMBDA found, p : JoinOf(found, MatchPattern(p, data)), <<EmptyBindings>>, op.patterns)
          [] op.type = "path" ->
               FlatMap(PathPairs(op.path[1], op.graph, data), LAMBDA pair :
                   MatchTerm(MatchTerm(<<EmptyBindings>>, op.subject, pair[1]), op.object, pair[2]))
          [] op.type = "join" ->
               FoldLeft(LAMBDA found, i : JoinOf(found, sub(i)), <<EmptyBindings>>, [i \in DOMAIN op.input |-> i])
          [] op.type = "union" -> FlattenSeq([i \in DOMAIN op.input |-> sub(i)])
          [] op.type = "leftjoin" -> FlatMap(sub(1), LAMBDA a : IF inner(a) = <<>> THEN <<a>> ELSE inner(a))
          [] op.type = "minus" -> MinusOf(sub(1), sub(2))
          [] op.type = "filter" -> SelectSeq(sub(1), LAMBDA b : accepted(1, b))
          [] op.type = "extend" ->
               [i \in DOMAIN sub(1) |->
                   LET value == EvaluateExpression(op.expression[1], sub(1)[i], data)
                   IN  IF value = Error THEN sub(1)[i] ELSE set(sub(1)[i], op.variable, value)]
          [] op.type = "group" -> GroupsOf(op, sub(1))
          [] op.type = "from" -> Evaluate(op.input[1], DatasetOf(op, data))
          [] op.type = "project" -> [i \in DOMAIN sub(1) |-> filterBindings(sub(1)[i], ToSet(op.variables))]
          [] op.type \in {"distinct", "reduced"} -> Unique(sub(1))
          [] op.type = "distinctterms" ->
               Unique([i \in DOMAIN sub(1) |-> filterBindings(sub(1)[i], ToSet(op.variables))])
          [] op.type = "slice" ->
               LET last == IF op.length < 0 THEN Len(sub(1)) ELSE op.start + op.length
               IN  SubSeq(sub(1), op.start + 1, IF last < Len(sub(1)) THEN last ELSE Len(sub(1)))
          [] op.type = "orderby" -> sub(1)
          [] op.type = "values" -> op.bindings
          [] op.type = "nop" -> <<EmptyBindings>>
          [] op.type = "construct" ->
               FlatMap(sub(1), LAMBDA b : FlatMap(op.template, LAMBDA p :
                   LET quad == <<materializeTerm(p.subject, b), materializeTerm(p.predicate, b),
                                 materializeTerm(p.object, b), p.graph>>
                   IN  IF VariablesOf(ToSet(quad)) = {} THEN <<quad>> ELSE <<>>))
          [] op.type = "describe" ->
               LET described == {materializeTerm(op.terms[i], solution) : i \in DOMAIN op.terms, solution \in ToSet(sub(1))}
               IN  SelectSeq(data, LAMBDA quad : quad[1] \in described /\ quad[4] = DefaultGraph)
=============================================================================
