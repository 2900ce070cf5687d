---------------------------- MODULE Expressions ----------------------------
(***************************************************************************)
(* Evaluation of the expressions of SPARQL                                 *)
(* (packages/actor-expression-evaluator-factory-default), the functional   *)
(* forms (the packages actor-function-factory-expression-) and the order   *)
(* of terms (packages/actor-term-comparator-factory-expression-evaluator). *)
(*                                                                         *)
(* An expression is a record with a kind: "term", "variable", "operator"   *)
(* (with the name of the function in lower case), "existence" or           *)
(* "aggregate". Bindings are a function from variables to RDF terms. What  *)
(* an asynchronous function promises is its outcome: a term or an error;   *)
(* of several arguments that fail, the error of the first is reported.     *)
(***************************************************************************)
EXTENDS TermFunctions

CONSTANT ExtensionFunctions     \* the RDF term that each extension returns, or an error

-----------------------------------------------------------------------------
(* The actors of the function-factory bus that provide functions on terms    *)
(* (the packages actor-function-factory-term-, bus-function-factory).        *)
(*                                                                           *)
(* An actor answers for the names it is dedicated to. What it answers is     *)
(* given here by the possible outcomes of its function for arguments args:   *)
(* none when the actor fails its test.                                       *)

DedicatedSet(fn, functionNames, args, arity, outcomes) ==
    CASE fn \notin functionNames -> {}
      [] fn \in functionNames /\ Len(args) \notin arity -> {Error("InvalidArity")}
      [] OTHER -> outcomes
Dedicated(fn, functionNames, args, arity, outcome) ==
    DedicatedSet(fn, functionNames, args, arity, {outcome})

(* Random values are opaque.                                                 *)
TermFunctionRand == {numeric("double", q) : q \in {r \in Numerals : r.d > 0 /\ r.n \in 0 .. r.d - 1}}
TermFunctionUuid == {NamedNode(<<"urn:uuid:", ":">>)}
TermFunctionStrUuid == {string(<<"uuid">>)}

FactoryTermAbs(fn, args) == Dedicated(fn, {"abs"}, args, {1}, TermFunctionAbs(args))
FactoryTermAddition(fn, args) == Dedicated(fn, {"+"}, args, {2}, TermFunctionAddition(args))
FactoryTermCeil(fn, args) == Dedicated(fn, {"ceil"}, args, {1}, TermFunctionCeil(args))
FactoryTermContains(fn, args) == Dedicated(fn, {"contains"}, args, {2}, TermFunctionContains(args))
FactoryTermDatatype(fn, args) == Dedicated(fn, {"datatype"}, args, {1}, TermFunctionDatatype(args))
FactoryTermDay(fn, args) == Dedicated(fn, {"day"}, args, {1}, TermFunctionDay(args))
FactoryTermDivision(fn, args) == Dedicated(fn, {"/"}, args, {2}, TermFunctionDivision(args))
FactoryTermEncodeForUri(fn, args) ==
    Dedicated(fn, {"encode_for_uri"}, args, {1}, TermFunctionEncodeForUri(args))
FactoryTermEquality(fn, args) == Dedicated(fn, {"="}, args, {2}, TermFunctionEquality(args))
FactoryTermFloor(fn, args) == Dedicated(fn, {"floor"}, args, {1}, TermFunctionFloor(args))
FactoryTermGreaterThan(fn, args) == Dedicated(fn, {">"}, args, {2}, TermFunctionGreaterThan(args))
FactoryTermGreaterThanEqual(fn, args) ==
    Dedicated(fn, {">="}, args, {2}, TermFunctionGreaterThanEqual(args))
FactoryTermHasLang(fn, args) == Dedicated(fn, {"haslang"}, args, {1}, TermFunctionHasLang(args))
FactoryTermHasLangdir(fn, args) ==
    Dedicated(fn, {"haslangdir"}, args, {1}, TermFunctionHasLangdir(args))
FactoryTermHours(fn, args) == Dedicated(fn, {"hours"}, args, {1}, TermFunctionHours(args))
FactoryTermInequality(fn, args) == Dedicated(fn, {"!="}, args, {2}, TermFunctionInequality(args))
FactoryTermIri(fn, args) == Dedicated(fn, {"iri", "uri"}, args, {1}, TermFunctionIri(args))
FactoryTermIsBlank(fn, args) == Dedicated(fn, {"isblank"}, args, {1}, TermFunctionIsBlank(args))
FactoryTermIsIri(fn, args) == Dedicated(fn, {"isiri", "isuri"}, args, {1}, TermFunctionIsIri(args))
FactoryTermIsLiteral(fn, args) ==
    Dedicated(fn, {"isliteral"}, args, {1}, TermFunctionIsLiteral(args))
FactoryTermIsNumeric(fn, args) ==
    Dedicated(fn, {"isnumeric"}, args, {1}, TermFunctionIsNumeric(args))
FactoryTermIsTriple(fn, args) == Dedicated(fn, {"istriple"}, args, {1}, TermFunctionIsTriple(args))
FactoryTermLang(fn, args) == Dedicated(fn, {"lang"}, args, {1}, TermFunctionLang(args))
FactoryTermLangdir(fn, args) == Dedicated(fn, {"langdir"}, args, {1}, TermFunctionLangdir(args))
FactoryTermLangmatches(fn, args) ==
    Dedicated(fn, {"langmatches"}, args, {2}, TermFunctionLangmatches(args))
FactoryTermLcase(fn, args) == Dedicated(fn, {"lcase"}, args, {1}, TermFunctionLcase(args))
FactoryTermLesserThan(fn, args) == Dedicated(fn, {"<"}, args, {2}, TermFunctionLesserThan(args))
FactoryTermLesserThanEqual(fn, args) ==
    Dedicated(fn, {"<="}, args, {2}, TermFunctionLesserThanEqual(args))
FactoryTermMd5(fn, args) == Dedicated(fn, {"md5"}, args, {1}, TermFunctionMd5(args))
FactoryTermMinutes(fn, args) == Dedicated(fn, {"minutes"}, args, {1}, TermFunctionMinutes(args))
FactoryTermMonth(fn, args) == Dedicated(fn, {"month"}, args, {1}, TermFunctionMonth(args))
FactoryTermMultiplication(fn, args) ==
    Dedicated(fn, {"*"}, args, {2}, TermFunctionMultiplication(args))
FactoryTermNot(fn, args) == Dedicated(fn, {"!"}, args, {1}, TermFunctionNot(args))
FactoryTermNow(fn, args) == Dedicated(fn, {"now"}, args, {0}, TermFunctionNow(args))
FactoryTermObject(fn, args) == Dedicated(fn, {"object"}, args, {1}, TermFunctionObject(args))
FactoryTermPredicate(fn, args) ==
    Dedicated(fn, {"predicate"}, args, {1}, TermFunctionPredicate(args))
FactoryTermRand(fn, args) == DedicatedSet(fn, {"rand"}, args, {0}, TermFunctionRand)
FactoryTermRegex(fn, args) == Dedicated(fn, {"regex"}, args, {2, 3}, TermFunctionRegex(args))
FactoryTermReplace(fn, args) == Dedicated(fn, {"replace"}, args, {3, 4}, TermFunctionReplace(args))
FactoryTermRound(fn, args) == Dedicated(fn, {"round"}, args, {1}, TermFunctionRound(args))
FactoryTermSeconds(fn, args) == Dedicated(fn, {"seconds"}, args, {1}, TermFunctionSeconds(args))
FactoryTermSha1(fn, args) == Dedicated(fn, {"sha1"}, args, {1}, TermFunctionSha1(args))
FactoryTermSha256(fn, args) == Dedicated(fn, {"sha256"}, args, {1}, TermFunctionSha256(args))
FactoryTermSha384(fn, args) == Dedicated(fn, {"sha384"}, args, {1}, TermFunctionSha384(args))
FactoryTermSha512(fn, args) == Dedicated(fn, {"sha512"}, args, {1}, TermFunctionSha512(args))
FactoryTermStr(fn, args) == Dedicated(fn, {"str"}, args, {1}, TermFunctionStr(args))
FactoryTermStrAfter(fn, args) == Dedicated(fn, {"strafter"}, args, {2}, TermFunctionStrAfter(args))
FactoryTermStrBefore(fn, args) ==
    Dedicated(fn, {"strbefore"}, args, {2}, TermFunctionStrBefore(args))
FactoryTermStrDt(fn, args) == Dedicated(fn, {"strdt"}, args, {2}, TermFunctionStrDt(args))
FactoryTermStrEnds(fn, args) == Dedicated(fn, {"strends"}, args, {2}, TermFunctionStrEnds(args))
FactoryTermStrLang(fn, args) == Dedicated(fn, {"strlang"}, args, {2}, TermFunctionStrLang(args))
FactoryTermStrLangdir(fn, args) ==
    Dedicated(fn, {"strlangdir"}, args, {3}, TermFunctionStrLangdir(args))
FactoryTermStrLen(fn, args) == Dedicated(fn, {"strlen"}, args, {1}, TermFunctionStrLen(args))
FactoryTermStrStarts(fn, args) ==
    Dedicated(fn, {"strstarts"}, args, {2}, TermFunctionStrStarts(args))
FactoryTermStrUuid(fn, args) == DedicatedSet(fn, {"struuid"}, args, {0}, TermFunctionStrUuid)
FactoryTermSubStr(fn, args) == Dedicated(fn, {"substr"}, args, {2, 3}, TermFunctionSubStr(args))
FactoryTermSubject(fn, args) == Dedicated(fn, {"subject"}, args, {1}, TermFunctionSubject(args))
FactoryTermSubtraction(fn, args) == Dedicated(fn, {"-"}, args, {2}, TermFunctionSubtraction(args))
FactoryTermTimezone(fn, args) == Dedicated(fn, {"timezone"}, args, {1}, TermFunctionTimezone(args))
FactoryTermTriple(fn, args) == Dedicated(fn, {"triple"}, args, {3}, TermFunctionTriple(args))
FactoryTermTz(fn, args) == Dedicated(fn, {"tz"}, args, {1}, TermFunctionTz(args))
FactoryTermUcase(fn, args) == Dedicated(fn, {"ucase"}, args, {1}, TermFunctionUcase(args))
FactoryTermUnaryMinus(fn, args) ==
    Dedicated(fn, {"uminus"}, args, {1}, TermFunctionUnaryMinus(args))
FactoryTermUnaryPlus(fn, args) == Dedicated(fn, {"uplus"}, args, {1}, TermFunctionUnaryPlus(args))
FactoryTermUuid(fn, args) == DedicatedSet(fn, {"uuid"}, args, {0}, TermFunctionUuid)
FactoryTermXsdToBoolean(fn, args) ==
    Dedicated(fn, {"boolean"}, args, {1}, TermFunctionXsdToBoolean(args))
FactoryTermXsdToDate(fn, args) == Dedicated(fn, {"date"}, args, {1}, TermFunctionXsdToDate(args))
FactoryTermXsdToDatetime(fn, args) ==
    Dedicated(fn, {"dateTime"}, args, {1}, TermFunctionXsdToDatetime(args))
FactoryTermXsdToDayTimeDuration(fn, args) ==
    Dedicated(fn, {"dayTimeDuration"}, args, {1}, TermFunctionXsdToDayTimeDuration(args))
FactoryTermXsdToDecimal(fn, args) ==
    Dedicated(fn, {"decimal"}, args, {1}, TermFunctionXsdToDecimal(args))
FactoryTermXsdToDouble(fn, args) ==
    Dedicated(fn, {"double"}, args, {1}, TermFunctionXsdToDouble(args))
FactoryTermXsdToDuration(fn, args) ==
    Dedicated(fn, {"duration"}, args, {1}, TermFunctionXsdToDuration(args))
FactoryTermXsdToFloat(fn, args) == Dedicated(fn, {"float"}, args, {1}, TermFunctionXsdToFloat(args))
FactoryTermXsdToInteger(fn, args) ==
    Dedicated(fn, {"integer"}, args, {1}, TermFunctionXsdToInteger(args))
FactoryTermXsdToString(fn, args) ==
    Dedicated(fn, {"string"}, args, {1}, TermFunctionXsdToString(args))
FactoryTermXsdToTime(fn, args) == Dedicated(fn, {"time"}, args, {1}, TermFunctionXsdToTime(args))
FactoryTermXsdToYearMonthDuration(fn, args) ==
    Dedicated(fn, {"yearMonthDuration"}, args, {1}, TermFunctionXsdToYearMonthDuration(args))
FactoryTermYear(fn, args) == Dedicated(fn, {"year"}, args, {1}, TermFunctionYear(args))

(* The answers of the actors that pass their test; the mediator picks one.   *)
applyTermFunction(fn, args) == UNION {
    FactoryTermAbs(fn, args), FactoryTermAddition(fn, args), FactoryTermCeil(fn, args),
    FactoryTermContains(fn, args), FactoryTermDatatype(fn, args),
    FactoryTermDay(fn, args), FactoryTermDivision(fn, args),
    FactoryTermEncodeForUri(fn, args), FactoryTermEquality(fn, args),
    FactoryTermFloor(fn, args), FactoryTermGreaterThan(fn, args),
    FactoryTermGreaterThanEqual(fn, args), FactoryTermHasLang(fn, args),
    FactoryTermHasLangdir(fn, args), FactoryTermHours(fn, args),
    FactoryTermInequality(fn, args), FactoryTermIri(fn, args),
    FactoryTermIsBlank(fn, args), FactoryTermIsIri(fn, args),
    FactoryTermIsLiteral(fn, args), FactoryTermIsNumeric(fn, args),
    FactoryTermIsTriple(fn, args), FactoryTermLang(fn, args),
    FactoryTermLangdir(fn, args), FactoryTermLangmatches(fn, args),
    FactoryTermLcase(fn, args), FactoryTermLesserThan(fn, args),
    FactoryTermLesserThanEqual(fn, args), FactoryTermMd5(fn, args),
    FactoryTermMinutes(fn, args), FactoryTermMonth(fn, args),
    FactoryTermMultiplication(fn, args), FactoryTermNot(fn, args),
    FactoryTermNow(fn, args), FactoryTermObject(fn, args),
    FactoryTermPredicate(fn, args), FactoryTermRand(fn, args),
    FactoryTermRegex(fn, args), FactoryTermReplace(fn, args),
    FactoryTermRound(fn, args), FactoryTermSeconds(fn, args),
    FactoryTermSha1(fn, args), FactoryTermSha256(fn, args),
    FactoryTermSha384(fn, args), FactoryTermSha512(fn, args), FactoryTermStr(fn, args),
    FactoryTermStrAfter(fn, args), FactoryTermStrBefore(fn, args),
    FactoryTermStrDt(fn, args), FactoryTermStrEnds(fn, args),
    FactoryTermStrLang(fn, args), FactoryTermStrLangdir(fn, args),
    FactoryTermStrLen(fn, args), FactoryTermStrStarts(fn, args),
    FactoryTermStrUuid(fn, args), FactoryTermSubStr(fn, args),
    FactoryTermSubject(fn, args), FactoryTermSubtraction(fn, args),
    FactoryTermTimezone(fn, args), FactoryTermTriple(fn, args),
    FactoryTermTz(fn, args), FactoryTermUcase(fn, args),
    FactoryTermUnaryMinus(fn, args), FactoryTermUnaryPlus(fn, args),
    FactoryTermUuid(fn, args), FactoryTermXsdToBoolean(fn, args),
    FactoryTermXsdToDate(fn, args), FactoryTermXsdToDatetime(fn, args),
    FactoryTermXsdToDayTimeDuration(fn, args), FactoryTermXsdToDecimal(fn, args),
    FactoryTermXsdToDouble(fn, args), FactoryTermXsdToDuration(fn, args),
    FactoryTermXsdToFloat(fn, args), FactoryTermXsdToInteger(fn, args),
    FactoryTermXsdToString(fn, args), FactoryTermXsdToTime(fn, args),
    FactoryTermXsdToYearMonthDuration(fn, args), FactoryTermYear(fn, args)}

-----------------------------------------------------------------------------
(* Expressions.                                                              *)

FirstError(outcomes) ==
    outcomes[CHOOSE i \in DOMAIN outcomes :
               IsError(outcomes[i]) /\ \A j \in 1 .. i - 1 : ~IsError(outcomes[j])]
AnyError(outcomes) == \E i \in DOMAIN outcomes : IsError(outcomes[i])

(* The boolean value of an outcome: "true", "false", or "error".             *)
EBV(outcome) == IF IsError(outcome) THEN "error" ELSE coerceEBV(outcome)
EBVError(outcome) == IF IsError(outcome) THEN outcome ELSE Error("EBVCoercionError")

-----------------------------------------------------------------------------
(* The functional forms. Here args are the outcomes of the argument          *)
(* expressions: the forms that evaluate only some of them look only at those.*)

LogicalAndFirstError(args) ==                                                  \* mutant
    CASE EBV(args[1]) = "error" -> EBVError(args[1])
      [] EBV(args[1]) = "false" -> bool(FALSE)
      [] EBV(args[1]) = "true" ->
           IF EBV(args[2]) = "error" THEN EBVError(args[2]) ELSE bool(EBV(args[2]) = "true")

(* An error on the left makes the right side be evaluated again.             *)
ExpressionFunctionLogicalAnd(args) ==
    CASE EBV(args[1]) = "false" -> bool(FALSE)
      [] EBV(args[1]) = "true" /\ EBV(args[2]) # "error" -> bool(EBV(args[2]) = "true")
      [] EBV(args[1]) = "error" /\ EBV(args[2]) = "false" -> bool(FALSE)
      [] EBV(args[1]) = "error" /\ EBV(args[2]) = "true" -> EBVError(args[1])
      [] OTHER -> EBVError(args[2])
ExpressionFunctionLogicalOr(args) ==
    CASE EBV(args[1]) = "true" -> bool(TRUE)
      [] EBV(args[1]) = "false" /\ EBV(args[2]) # "error" -> bool(EBV(args[2]) = "true")
      [] EBV(args[1]) = "error" /\ EBV(args[2]) = "true" -> bool(TRUE)
      [] EBV(args[1]) = "error" /\ EBV(args[2]) = "false" -> EBVError(args[1])
      [] OTHER -> EBVError(args[2])

ExpressionFunctionIf(args) ==
    CASE EBV(args[1]) = "error" -> EBVError(args[1])
      [] EBV(args[1]) = "true" -> args[2]
      [] EBV(args[1]) = "false" -> args[3]

ExpressionFunctionCoalesce(args) ==
    LET valid == {i \in DOMAIN args : ~IsError(args[i])}
    IN  IF valid = {} THEN Error("CoalesceError") ELSE args[FirstOf(valid)]

(* The search ends at the first equal element; the elements before it that   *)
(* fail to evaluate or to compare count only when there is none.             *)
ExpressionFunctionIn(args) ==
    LET equal(i) == IF IsError(args[i]) THEN args[i]
                    ELSE TermFunctionEquality(<<args[1], args[i]>>)
    IN  CASE IsError(args[1]) -> args[1]
          [] ~IsError(args[1]) /\ \E i \in 2 .. Len(args) : IsTrue(equal(i)) -> bool(TRUE)
          [] OTHER -> IF \E i \in 2 .. Len(args) : IsError(equal(i)) THEN Error("InError")
                                                                    ELSE bool(FALSE)
ExpressionFunctionNotIn(args) ==
    LET negated(isIn) == IF IsError(isIn) THEN isIn ELSE bool(~isIn.bool)
    IN  negated(ExpressionFunctionIn(args))

ExpressionFunctionSameTerm(args) ==
    IF AnyError(args) THEN FirstError(args) ELSE bool(toRDF(args[1]) = toRDF(args[2]))

AllEqual(lits, field) == lits # <<>> /\ \A i \in DOMAIN lits : lits[i][field] = lits[1][field]
ExpressionFunctionConcat(args) ==
    LET lits == [i \in DOMAIN args |->
                   IF IsError(args[i]) THEN args[i]
                   ELSE applyOnTerms(Stringly1Tree, <<args[i]>>, LAMBDA t, a : a[1])]
        common(strings, field) == IF AllEqual(strings, field) THEN strings[1][field] ELSE <<>>
        literal(joined, lang, dir) == CASE lang = <<>> -> string(joined)
                                        [] lang # <<>> /\ dir = <<>> -> LangStringLiteral(joined, lang)
                                        [] OTHER -> DirLangStringLiteral(joined, lang, dir)
        concat(strings) ==
            IF AnyError(strings) THEN FirstError(strings)
            ELSE literal(Seqs!FoldLeft(LAMBDA s, lit : s \o lit.value, <<>>, strings),
                         common(strings, "language"), common(strings, "direction"))
    IN  concat(lits)

(* A label for a blank node; the labels of BNODE() are counted, and not       *)
(* modelled.                                                                 *)
ExpressionFunctionBnode(args) ==
    IF AnyError(args) THEN FirstError(args)
    ELSE applyOnTerms(OneString, args, LAMBDA t, a : BlankNode(Str(a[1])))

NamedExtension(fn, args) ==
    CASE AnyError(args) -> FirstError(args)
      [] ~AnyError(args) /\ IsError(ExtensionFunctions[fn]) -> Error("ExtensionFunctionError")
      [] OTHER -> transformTerm(ExtensionFunctions[fn])

-----------------------------------------------------------------------------
(* Evaluation. *)

(* The actors that provide them.                                             *)
FactoryExpressionLogicalAnd(fn, args) ==
    Dedicated(fn, {"&&"}, args, {2}, ExpressionFunctionLogicalAnd(args))
FactoryExpressionLogicalOr(fn, args) ==
    Dedicated(fn, {"||"}, args, {2}, ExpressionFunctionLogicalOr(args))
FactoryExpressionIf(fn, args) == Dedicated(fn, {"if"}, args, {3}, ExpressionFunctionIf(args))
FactoryExpressionCoalesce(fn, args) ==
    Dedicated(fn, {"coalesce"}, args, Nat, ExpressionFunctionCoalesce(args))
FactoryExpressionIn(fn, args) ==
    Dedicated(fn, {"in"}, args, Nat \ {0}, ExpressionFunctionIn(args))
FactoryExpressionNotIn(fn, args) ==
    Dedicated(fn, {"notin"}, args, Nat \ {0}, ExpressionFunctionNotIn(args))
FactoryExpressionSameTerm(fn, args) ==
    Dedicated(fn, {"sameterm"}, args, {2}, ExpressionFunctionSameTerm(args))
FactoryExpressionConcat(fn, args) ==
    Dedicated(fn, {"concat"}, args, Nat, ExpressionFunctionConcat(args))
FactoryExpressionBnode(fn, args) ==
    Dedicated(fn, {"bnode"}, args, {1}, ExpressionFunctionBnode(args))
Forms == {"&&", "||", "if", "coalesce", "in", "notin", "sameterm", "concat", "bnode"}
applyForm(fn, args) == CHOOSE outcome \in UNION {
    FactoryExpressionLogicalAnd(fn, args), FactoryExpressionLogicalOr(fn, args),
    FactoryExpressionIf(fn, args), FactoryExpressionCoalesce(fn, args),
    FactoryExpressionIn(fn, args), FactoryExpressionNotIn(fn, args),
    FactoryExpressionSameTerm(fn, args), FactoryExpressionConcat(fn, args),
    FactoryExpressionBnode(fn, args)} : TRUE

ExpressionFunctionBound(args, mapping) ==
    IF args[1].kind # "variable" THEN Error("InvalidArgumentTypes")
    ELSE bool(args[1].name \in DOMAIN mapping)
FactoryExpressionBound(fn, args, mapping) ==
    Dedicated(fn, {"bound"}, args, {1}, ExpressionFunctionBound(args, mapping))
FactoryExpressionExtensions(fn, args) ==
    IF fn \in DOMAIN ExtensionFunctions THEN {NamedExtension(fn, args)} ELSE {}

(* The outcome of a function that the bus provides. The terms of a quad are  *)
(* arguments of the function triple (transformAlgebra).                      *)
Provided(fn, args) ==
    IF AnyError(args) THEN FirstError(args)
    ELSE CHOOSE outcome \in applyTermFunction(fn, args) : TRUE

evalFunction(expr, mapping, value) ==
    LET args == [i \in DOMAIN expr.args |-> value[expr.args[i]]]
    IN  CHOOSE outcome \in
          CASE expr.operator \in Forms -> {applyForm(expr.operator, args)}
            [] expr.operator = "bound" ->
                 FactoryExpressionBound(expr.operator, expr.args, mapping)
            [] expr.operator \in DOMAIN ExtensionFunctions ->
                 FactoryExpressionExtensions(expr.operator, args)
            [] OTHER -> {Provided(expr.operator, args)} : TRUE
(* The outcome of an expression, given those of its operands.                *)
Evaluated(expr, mapping, value) ==
    CASE expr.kind = "term" ->
           IF IsConstantQuad(expr) THEN value[TripleOf(expr.term)] ELSE transformTerm(expr.term)
      [] expr.kind = "variable" ->
           IF expr.name \in DOMAIN mapping THEN transformTerm(mapping[expr.name])
                                           ELSE Error("UnboundVariableError")
      [] expr.kind = "operator" -> evalFunction(expr, mapping, value)
      [] expr.kind = "existence" -> bool(expr.exists # expr.not)
      [] OTHER -> Error("NoAggregator")    \* an aggregate
Evaluate(expr, mapping) ==
    LET value[e \in Within(expr)] == Evaluated(e, mapping, value)
    IN  value[expr]

evaluate(expr, mapping) ==
    LET term(outcome) == IF IsError(outcome) THEN outcome ELSE toRDF(outcome)
    IN  term(Evaluate(expr, mapping))
evaluateAsEBV(expr, mapping) == EBV(Evaluate(expr, mapping))

-----------------------------------------------------------------------------
(* The order of terms: -1, 0 or 1. NoTerm stands for undefined.              *)

NoTerm == [termType |-> "undefined"]
comparePrimitives(a, b) ==
    CASE a = b -> 0 [] StringLess(a, b, Alphabet) -> -1 [] OTHER -> 1

orderLiteralTypesByName(litA, litB) ==                                         \* mutant
    LET a == transformLiteral(litA)
        b == transformLiteral(litB)
        less == TermFunctionLesserThan(<<a, b>>)
    IN  IF a.dataType # b.dataType THEN comparePrimitives(<<a.dataType>>, <<b.dataType>>)
        ELSE IF IsError(less) THEN comparePrimitives(Str(a), Str(b))
        ELSE IF less.bool THEN -1 ELSE IF IsTrue(TermFunctionLesserThan(<<b, a>>)) THEN 1 ELSE 0

orderLiteralTypes(litA, litB) ==
    LET ordered(a, b, equal, less) ==
            CASE IsTrue(equal) -> 0
              [] ~IsTrue(equal) /\ ~IsError(equal) /\ ~IsError(less) -> IF less.bool THEN -1 ELSE 1
              [] OTHER -> IF a.dataType # b.dataType
                          THEN comparePrimitives(<<a.dataType>>, <<b.dataType>>)
                          ELSE comparePrimitives(Str(a), Str(b))
        compared(a, b) ==
            ordered(a, b, TermFunctionEquality(<<a, b>>), TermFunctionLesserThan(<<a, b>>))
    IN  compared(transformLiteral(litA), transformLiteral(litB))

TERM_ORDERING_PRIORITY ==
    [blankNode |-> 1, namedNode |-> 2, literal |-> 3, quad |-> 4, defaultGraph |-> 5]
OrderOf(a, b, order) ==
    LET component(i) == order[a[Components[i]], b[Components[i]]]
        ordered == {i \in 1 .. 4 : component(i) # 0}
    IN  CASE a = b -> 0
          [] a # b /\ (a = NoTerm \/ b = NoTerm) -> IF a = NoTerm THEN -1 ELSE 1
          [] OTHER ->
               CASE a.termType # b.termType ->
                      IF TERM_ORDERING_PRIORITY[a.termType] < TERM_ORDERING_PRIORITY[b.termType]
                      THEN -1 ELSE 1
                 [] a.termType = b.termType /\ a.termType = "quad" ->
                      IF ordered = {} THEN 0 ELSE component(FirstOf(ordered))
                 [] a.termType = b.termType /\ a.termType = "literal" -> orderLiteralTypes(a, b)
                 [] OTHER -> comparePrimitives(a.value, b.value)
orderTypes(a, b) ==
    LET order[x \in Within(a), y \in Within(b)] == OrderOf(x, y, order)
    IN  order[a, b]
=============================================================================
