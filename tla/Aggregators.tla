---------------------------- MODULE Aggregators ----------------------------
(***************************************************************************)
(* The aggregators (the packages actor-bindings-aggregator-factory-, and   *)
(* packages/bus-bindings-aggregator-factory/lib/AggregateEvaluator.ts).    *)
(*                                                                         *)
(* An aggregator is fed, in some order, what the aggregated expression     *)
(* evaluates to for each solution: an RDF term or an error. Its own state  *)
(* is NoState until the first term is put.                                 *)
(***************************************************************************)
EXTENDS Expressions
LOCAL INSTANCE TLC

NoState == [termType |-> "undefined"]
typedLiteral(value, type) == RDFLiteral(value, type, <<>>, <<>>)
CountLiteral(n) == typedLiteral(<<ToString(n)>>, "integer")

termToNumericOrError(term) ==
    IF term.termType = "literal" /\ isSubTypeOf(term.dataType, NUMERIC)
    THEN transformLiteral(term) ELSE Error("Error")

-----------------------------------------------------------------------------
(* What each aggregator does with a term, and its result.                    *)

SumAggregator(state, term) ==
    LET added(internalTerm) == IF IsError(internalTerm) \/ state = NoState THEN internalTerm
                               ELSE TermFunctionAddition(<<state, internalTerm>>)
    IN  added(termToNumericOrError(term))

AverageAggregator(state, term) ==
    LET counted(sum) == IF IsError(sum) THEN sum
                        ELSE [sum |-> sum, count |-> IF state = NoState THEN 1 ELSE state.count + 1]
    IN  counted(SumAggregator(IF state = NoState THEN NoState ELSE state.sum, term))
AverageResult(state) == TermFunctionDivision(<<state.sum, integer(state.count)>>)

CountAggregator(state, term) ==
    [count |-> IF state = NoState THEN 1 ELSE state.count + 1]

GroupConcatAggregator(state, term, separator) ==
    [joined |-> IF state = NoState THEN term.value ELSE state.joined \o separator \o term.value]

MaxAggregator(state, term) ==
    CASE term.termType # "literal" -> Error("Error")
      [] term.termType = "literal" /\ state # NoState /\ orderTypes(state, term) # -1 -> state
      [] OTHER -> term
MinAggregator(state, term) ==
    CASE term.termType # "literal" -> Error("Error")
      [] term.termType = "literal" /\ state # NoState /\ orderTypes(state, term) # 1 -> state
      [] OTHER -> term
SampleAggregator(state, term) == IF state = NoState THEN term ELSE state

putTerm(aggregator, state, term) ==
    CASE aggregator = "sum" -> SumAggregator(state, term)
      [] aggregator = "avg" -> AverageAggregator(state, term)
      [] aggregator = "count" -> CountAggregator(state, term)
      [] aggregator = "group_concat" -> GroupConcatAggregator(state, term, <<" ">>)
      [] aggregator = "max" -> MaxAggregator(state, term)
      [] aggregator = "min" -> MinAggregator(state, term)
      [] aggregator = "sample" -> SampleAggregator(state, term)

(* The value of an empty group; NoTerm where it has none.                    *)
emptyValueTerm(aggregator) ==
    CASE aggregator \in {"sum", "avg", "count"} -> CountLiteral(0)
      [] aggregator = "group_concat" -> typedLiteral(<<>>, "string")
      [] aggregator \in {"max", "min", "sample"} -> NoTerm
ToResult(outcome) == IF IsError(outcome) THEN outcome ELSE toRDF(outcome)
termResult(aggregator, state) ==
    CASE state = NoState -> emptyValueTerm(aggregator)
      [] state # NoState /\ aggregator = "sum" -> ToResult(state)
      [] state # NoState /\ aggregator = "avg" -> ToResult(AverageResult(state))
      [] state # NoState /\ aggregator = "count" -> CountLiteral(state.count)
      [] state # NoState /\ aggregator = "group_concat" -> typedLiteral(state.joined, "string")
      [] OTHER -> state

-----------------------------------------------------------------------------
(* AggregateEvaluator: an error other than an unbound variable makes the     *)
(* result undefined for good; with DISTINCT a term is put once.              *)

EmptyAggregate == [errorOccurred |-> FALSE, variableValues |-> {}, state |-> NoState]

putBindingsForgiving(aggregator, distinct, agg, outcome) ==                    \* mutant
    IF IsError(outcome) \/ (distinct /\ outcome \in agg.variableValues) THEN agg
    ELSE LET put == putTerm(aggregator, agg.state, outcome)
         IN  IF IsError(put) THEN [agg EXCEPT !.errorOccurred = TRUE]
             ELSE [agg EXCEPT !.state = put,
                              !.variableValues = IF distinct THEN @ \cup {outcome} ELSE @]

putBindings(aggregator, distinct, agg, outcome) ==
    LET after(put) == IF IsError(put) THEN [agg EXCEPT !.errorOccurred = TRUE]
                      ELSE [agg EXCEPT !.state = put,
                                       !.variableValues = IF distinct THEN @ \cup {outcome} ELSE @]
    IN  CASE \/ agg.errorOccurred
             \/ outcome = Error("UnboundVariableError")
             \/ distinct /\ outcome \in agg.variableValues -> agg
          [] ~agg.errorOccurred /\ IsError(outcome) /\ outcome # Error("UnboundVariableError") ->
               [agg EXCEPT !.errorOccurred = TRUE]
          [] OTHER -> after(putTerm(aggregator, agg.state, outcome))

(* NoTerm: the variable of the aggregate stays unbound.                      *)
result(aggregator, agg) ==
    IF agg.errorOccurred THEN NoTerm ELSE termResult(aggregator, agg.state)
Aggregate(aggregator, distinct, outcomes) ==
    LET put(agg, outcome) == putBindings(aggregator, distinct, agg, outcome)
    IN  result(aggregator, Seqs!FoldLeft(put, EmptyAggregate, outcomes))

(* COUNT of a star counts solutions; with DISTINCT those whose variables, and *)
(* whose terms, joined by commas, were not counted before.                   *)
JoinedBy(strings) ==
    Seqs!FoldLeft(LAMBDA s, t : IF s = <<>> THEN t ELSE s \o <<",">> \o t, <<>>, strings)
TermToString(term) ==
    IF term.termType = "literal"
    THEN <<"\"">> \o term.value \o <<"\"", term.dataType>> \o term.language \o term.direction
    ELSE term.value
DistinctKey(bindings, variables) ==
    LET bound == SelectSeq(variables, LAMBDA v : v \in DOMAIN bindings)
    IN  << bound, JoinedBy([i \in DOMAIN bound |-> TermToString(bindings[bound[i]])]) >>
WildcardCountAggregator(distinct, solutions, variables) ==
    CountLiteral(IF distinct
                 THEN Cardinality({DistinctKey(solutions[i], variables) : i \in DOMAIN solutions})
                 ELSE Len(solutions))

-----------------------------------------------------------------------------
(* The actors that make aggregators, by the one they make: none when they    *)
(* fail their test. An aggregate expression is [aggregator, distinct,        *)
(* expression], of kind "wildcard" for COUNT of star.                        *)

Made(expr, aggregator) == IF expr.aggregator = aggregator THEN {aggregator} ELSE {}
FactoryAverage(expr)       == Made(expr, "avg")
FactoryGroupConcat(expr)   == Made(expr, "group_concat")
FactoryMax(expr)           == Made(expr, "max")
FactoryMin(expr)           == Made(expr, "min")
FactorySample(expr)        == Made(expr, "sample")
FactorySum(expr)           == Made(expr, "sum")
FactoryCount(expr)         == IF expr.expression.kind = "wildcard" THEN {} ELSE Made(expr, "count")
FactoryWildcardCount(expr) ==
    IF expr.aggregator = "count" /\ expr.expression.kind = "wildcard" THEN {"wildcard count"} ELSE {}

AggregateOver(expr, solutions, variables) ==
    LET aggregator == CHOOSE made \in UNION {
          FactoryAverage(expr), FactoryGroupConcat(expr), FactoryMax(expr), FactoryMin(expr),
          FactorySample(expr), FactorySum(expr), FactoryCount(expr), FactoryWildcardCount(expr)} : TRUE
    IN  IF aggregator = "wildcard count" THEN WildcardCountAggregator(expr.distinct, solutions, variables)
        ELSE Aggregate(aggregator, expr.distinct,
                       [i \in DOMAIN solutions |-> evaluate(expr.expression, solutions[i])])
=============================================================================
