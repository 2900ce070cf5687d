--------------------------- MODULE FunctionCalls ---------------------------
(***************************************************************************)
(* The calls of functions on terms that the queries of an engine make, one *)
(* after the other, over the cache of overloads they share; and what the   *)
(* functions promise together for the arguments of a call.                 *)
(***************************************************************************)
EXTENDS Aggregators
LOCAL INSTANCE Functions

CONSTANTS
    Arguments,    \* the argument lists to look at: sequences of RDF terms
    Trees,        \* the overload tree of each function, by its identifier
    Calls,        \* the calls that may be made: [identifier, args]
    MaxCached     \* bound on the entries of the cache of overloads

(* The arguments are terms of the evaluator, with datatypes that the super   *)
(* type provider knows; datatypes are IRIs, which no term type is.           *)
ASSUME OverloadAssumption ==
    /\ TermTypes \cap DOMAIN getSuperTypeDict = {}
    /\ \A call \in Calls : \A i \in DOMAIN call.args :
         LET term == call.args[i]
         IN  /\ term.termType \in TermTypes
             /\ term.termType = "literal" => term.dataType \in DOMAIN getSuperTypeDict

(* An RDF term of the data model: a quoted triple is in no graph, its subject *)
(* is no literal, and only its object may be quoted in turn.                 *)
IsRDFTerm(t) ==
    CASE t.termType \in {"namedNode", "blankNode"} ->
           t = [termType |-> t.termType, value |-> t.value]
      [] t.termType = "literal" ->
           /\ t = RDFLiteral(t.value, t.dataType, t.language, t.direction)
           /\ t.dataType \in DOMAIN SuperTypes
      [] t.termType = "quad" ->
           /\ t = Quad(t.subject, t.predicate, t.object, DefaultGraph)
           /\ t.subject.termType \in {"namedNode", "blankNode"}
           /\ t.predicate.termType = "namedNode"
      [] OTHER -> t = DefaultGraph

(* They nest little enough for the bound, also in the expressions below.     *)
ASSUME ArgumentsAssumption ==
    \A list \in Arguments :
      /\ list \in Seq({list[i] : i \in DOMAIN list})
      /\ \A i \in DOMAIN list :
           /\ \A t \in Within(list[i]) : IsRDFTerm(t)
           /\ NestsAtMost(list[i], MaxNesting)
           /\ MaxNesting >= 3 /\ NestsAtMost(Constant(list[i]), MaxNesting - 3)

(* Extension functions are named by IRIs, which no operator is.              *)
ASSUME ExtensionAssumption ==
    DOMAIN ExtensionFunctions \cap (Forms \cup {"bound", "!", "=", "triple"}) = {}

VARIABLES
    terms,                      \* the argument list that is looked at
    args,                       \* the arguments of the last call
    identifier,                 \* its function, "" before the first call
    found,                      \* the overload it was given
    functionArgumentsCache      \* the overloads found so far

cacheVars == <<args, identifier, found, functionArgumentsCache>>
vars == <<terms, cacheVars>>

FunctionTrees == [f \in {"=", "<", "+", "strlen"} |->
                    CASE f = "=" -> EqualityTree [] f = "<" -> LesserThanTree
                      [] f = "+" -> AdditionTree [] f = "strlen" -> Stringly1Tree]
Arity(f) == IF f = "strlen" THEN 1 ELSE 2

Values(list) == [i \in DOMAIN list |-> transformTerm(list[i])]

(* A call that would not find room in the bounded cache is not made. *)
Call(f, list) ==
    /\ \/ Cached(functionArgumentsCache, f, list) # {}
       \/ Cardinality(functionArgumentsCache) < MaxCached
    /\ args' = list /\ identifier' = f
    /\ found' = searchCached(functionArgumentsCache, f, Trees[f], list)
    /\ functionArgumentsCache' = addToCache(functionArgumentsCache, f, list, found')

(* Either an argument list is looked at, or calls follow each other.          *)
Init ==
    /\ terms = <<>>
    /\ args = <<>> /\ identifier = "" /\ found = NoImplementation
    /\ functionArgumentsCache = {}
Next ==
    /\ terms = <<>>
    /\ \/ identifier = "" /\ terms' \in Arguments /\ UNCHANGED cacheVars
       \/ UNCHANGED terms /\ \E call \in Calls : Call(call.identifier, call.args)
Spec == Init /\ [][Next]_vars

-----------------------------------------------------------------------------
(* What a call promises. *)

(* The overload that a call gets from the cache is the one a search finds    *)
(* for its arguments: what the cache forgets of the arguments never matters. *)
(* (OverloadTree.ts, searchOverloads: the key is made of datatypes and term  *)
(* types only.)                                                              *)
CacheAgreesWithSearch ==
    identifier # "" => found = search(Trees[identifier], args)

Truth(outcome) == CASE IsError(outcome) -> "error" [] OTHER -> EBV(outcome)
Less(a, b) == IsTrue(TermFunctionLesserThan(<<a, b>>))
Equal(a, b) == IsTrue(TermFunctionEquality(<<a, b>>))
IsNumber(a) == IsOfClass(a, NumericClasses)
IsNaN(a) == IsNumber(a) /\ a.num = NaN

(* The comparisons of SPARQL, spread over six actors and overloads of mixed  *)
(* numeric, string, date and duration types, form one strict order: = does   *)
(* not depend on the side and is transitive, < is asymmetric, excludes = and *)
(* is transitive, and <=, > and >= agree with both.                          *)
SidesAgree(a, b) ==
    /\ Truth(TermFunctionEquality(<<a, b>>)) = Truth(TermFunctionEquality(<<b, a>>))
    /\ Less(a, b) => ~Less(b, a) /\ ~Equal(a, b)
    /\ IsTrue(TermFunctionGreaterThan(<<b, a>>)) = Less(a, b)
    /\ IsTrue(TermFunctionLesserThanEqual(<<a, b>>)) = (Less(a, b) \/ Equal(a, b))
    /\ IsTrue(TermFunctionGreaterThanEqual(<<b, a>>)) = (Less(a, b) \/ Equal(a, b))
Transitive(a, b, c) ==
    /\ Less(a, b) /\ Less(b, c) => Less(a, c)
    /\ Equal(a, b) /\ Equal(b, c) => Equal(a, c)
    /\ Less(a, b) /\ Equal(b, c) => Less(a, c)
ComparisonsAgree(values) ==
    /\ Len(values) = 2 => SidesAgree(values[1], values[2])
    /\ Len(values) = 3 => Transitive(values[1], values[2], values[3])

(* ... and ORDER BY, MIN and MAX follow that order; turning two terms around *)
(* turns their order around: except for NaN, which comes after every number  *)
(* and itself (comparator of ActorTermComparatorFactoryExpressionEvaluator). *)
OrderFollows(s, t, a, b) ==
    /\ Less(a, b) => orderTypes(s, t) = -1
    /\ Equal(a, b) => orderTypes(s, t) = 0
    /\ ~IsNaN(a) /\ ~IsNaN(b) => orderTypes(s, t) = -orderTypes(t, s)
OrderLaws(list, values) ==
    /\ ComparisonsAgree(values)
    /\ Len(list) = 2 => OrderFollows(list[1], list[2], values[1], values[2])
OrderFollowsComparisons == [][OrderLaws(terms', Values(terms'))]_terms

(* Arithmetic on numbers of any two types, subtypes included, gives a number *)
(* of the higher type of the two, and a decimal for the quotient of integers;*)
(* subtracting undoes adding.                                                *)
Rung(class) == CHOOSE k \in DOMAIN Ladder : Ladder[k] = class
Higher(a, b) == IF Rung(a.class) > Rung(b.class) THEN a.class ELSE b.class
SumFollowsLadder(sum, a, b) ==
    LET back == TermFunctionSubtraction(<<sum, b>>)
    IN  /\ sum.class = Higher(a, b)
        /\ sum.num = TermFunctionAddition(<<b, a>>).num
        /\ isFinite(sum.num) => back.num = a.num /\ back.class = Higher(a, b)
QuotientFollowsLadder(quotient, a, b) ==
    IF Higher(a, b) = "integer" THEN IsError(quotient) \/ quotient.class = "decimal"
                                ELSE quotient.class = Higher(a, b)
ArithmeticFollowsLadder(a, b) ==
    IsNumber(a) /\ IsNumber(b) =>
      /\ SumFollowsLadder(TermFunctionAddition(<<a, b>>), a, b)
      /\ QuotientFollowsLadder(TermFunctionDivision(<<a, b>>), a, b)
      /\ TermFunctionMultiplication(<<a, b>>).class = Higher(a, b)

(* The functional forms agree with each other and with the three-valued      *)
(* logic of SPARQL, whatever fails to evaluate: && and || do not depend on   *)
(* the side, each is the other one negated, IN is a disjunction of =, and IF *)
(* and COALESCE only look at what they take. A term that a query spells out  *)
(* is the one that a variable is bound to, but for a quoted triple with a    *)
(* literal of invalid form, which is only an error where it is spelled out.  *)
Not(expr) == Apply("!", <<expr>>)
And(left, right) == Apply("&&", <<left, right>>)
OrElse(left, right) == Apply("||", <<left, right>>)
IllTyped(t) ==
    /\ t.termType = "quad"
    /\ \E x \in Within(t) : x.termType = "literal" /\ transformLiteral(x).class = "nonLexical"
LogicHolds(list) ==
    Len(list) = 2 =>
      \A bound \in SUBSET {1, 2} :
        LET mapping == [v \in bound |-> list[v]]
            ebv(expr) == evaluateAsEBV(expr, mapping)
            a == Variable(1)
            b == Variable(2)
        IN  /\ ebv(And(a, b)) = ebv(And(b, a))
            /\ ebv(OrElse(a, b)) = ebv(OrElse(b, a))
            /\ ebv(Not(And(a, b))) = ebv(OrElse(Not(a), Not(b)))
            /\ ebv(Apply("if", <<a, b, b>>)) = IF ebv(a) = "error" THEN "error" ELSE ebv(b)
            /\ ebv(Apply("coalesce", <<a, b>>)) = ebv(IF 1 \in bound THEN a ELSE b)
            /\ ebv(Apply("bound", <<a>>)) = "true" <=> 1 \in bound
            /\ 1 \in bound => ebv(Apply("sameterm", <<a, Constant(list[1])>>))
                                = IF IllTyped(list[1]) THEN "error" ELSE "true"
InIsDisjunction(list) ==
    Len(list) = 3 =>
      LET term(i) == Constant(list[i])
          equal(i) == Apply("=", <<term(1), term(i)>>)
          ebv(expr) == evaluateAsEBV(expr, <<>>)
      IN  /\ ebv(Apply("in", <<term(1), term(2), term(3)>>)) = ebv(OrElse(equal(2), equal(3)))
          /\ ebv(Apply("notin", <<term(1), term(2), term(3)>>))
               = ebv(Not(OrElse(equal(2), equal(3))))
FormsHold(list) == LogicHolds(list) /\ InIsDisjunction(list)
FormsAgree == [][FormsHold(terms')]_terms

(* The functions that cut a string agree with the one that glues: what lies  *)
(* before and after an occurrence, around it, is the whole, and so are the   *)
(* substrings that meet; a replacement changes only what the pattern of      *)
(* REGEX matches; changing the case twice changes it once.                   *)
IsString(a) == IsOfClass(a, {"string", "langString", "dirLangString"})
CutsMeet(s, Cut(_)) ==
    \A k \in 1 .. Len(s.value) + 1 :
      Cut(<<integer(1), integer(k)>>) \o Cut(<<integer(k + 1), integer(1)>>)
        \o Cut(<<integer(k + 2)>>) = s.value
StringsAgree(s, t, contains, plain) ==
    /\ contains =>
         /\ TermFunctionStrBefore(<<s, t>>).value \o t.value
              \o TermFunctionStrAfter(<<s, t>>).value = s.value
         /\ TermFunctionStrBefore(<<s, t>>).language \in {s.language, <<>>}
    /\ IsTrue(TermFunctionStrStarts(<<s, t>>)) \/ IsTrue(TermFunctionStrEnds(<<s, t>>)) => contains
    /\ CutsMeet(s, LAMBDA where : TermFunctionSubStr(<<s>> \o where).value)
    /\ t.value # <<>> /\ ~IsTrue(TermFunctionRegex(SubSeq(plain, 1, 2))) =>
         TermFunctionReplace(plain).value = s.value
    /\ TermFunctionUcase(<<TermFunctionLcase(<<s>>)>>) = TermFunctionUcase(<<s>>)
StringFunctionsAgree(s, t) ==
    IsString(s) /\ IsString(t) =>
      StringsAgree(s, t, IsTrue(TermFunctionContains(<<s, t>>)),
                   <<s, string(t.value), string(<<"b">>)>>)

(* Adding a duration of days and times to a date moves its instant by exactly *)
(* that duration, over the ends of months and leap years and whatever the    *)
(* zone, and subtracting it moves it back; adding months and years keeps     *)
(* the time of the day. The difference of two dates, when it is not negative *)
(* and in whole minutes, leads from one to the other.                        *)
MovedBy(moved, a, b) ==
    /\ UTC(moved) = UTC(a) + Seconds(b)
    /\ UTC(TermFunctionSubtraction(<<moved, b>>)) = UTC(a)
AdditionMovesTheInstant(a, b) ==
    /\ IsOfClass(a, DateClasses) /\ IsOfClass(b, {"dayTimeDuration"}) =>
         MovedBy(TermFunctionAddition(<<a, b>>), a, b)
    /\ IsOfClass(a, {"dateTime"}) /\ IsOfClass(b, {"yearMonthDuration"}) =>
         (UTC(TermFunctionAddition(<<a, b>>)) - UTC(a)) % 86400 = 0
    /\ /\ IsOfClass(a, {"dateTime"}) /\ IsOfClass(b, {"dateTime"})
       /\ UTC(b) >= UTC(a) /\ (UTC(b) - UTC(a)) % 60 = 0
       => Equal(b, TermFunctionAddition(<<a, TermFunctionSubtraction(<<b, a>>)>>))

(* A value cast to a string and back is equal to what it was: for every type *)
(* that has a cast but those whose cast refuses what the value is written    *)
(* as (a negative integer, an infinity), and NaN.                            *)
CastFrom(str, x) ==
    CASE x.class = "boolean" -> TermFunctionXsdToBoolean(str)
      [] x.class = "integer" -> TermFunctionXsdToInteger(str)
      [] x.class = "decimal" -> TermFunctionXsdToDecimal(str)
      [] x.class = "float" -> TermFunctionXsdToFloat(str)
      [] x.class = "double" -> TermFunctionXsdToDouble(str)
      [] x.class = "dateTime" -> TermFunctionXsdToDatetime(str)
      [] x.class = "date" -> TermFunctionXsdToDate(str)
      [] x.class = "time" -> TermFunctionXsdToTime(str)
      [] x.class = "dayTimeDuration" -> TermFunctionXsdToDayTimeDuration(str)
      [] x.class = "yearMonthDuration" -> TermFunctionXsdToYearMonthDuration(str)
      [] x.class = "duration" -> TermFunctionXsdToDuration(str)
      [] OTHER -> TermFunctionXsdToString(str)
Casts(x) == CastFrom(<<TermFunctionStr(<<x>>)>>, x)
Readable(x) ==
    /\ x.class \in NumericClasses => x.num # NaN
    /\ x.class = "integer" => x.num.n >= 0
    /\ x.class = "decimal" => isFinite(x.num)
    /\ x.class \notin {"nonLexical", "other", "langString", "dirLangString"}
EqualTo(cast, x) == ~IsError(cast) /\ Equal(cast, x)
CastsRoundTrip(x) ==
    x.termType = "literal" /\ Readable(x) => EqualTo(Casts(x), x)

(* The functions keep the laws between them, whichever overloads the types   *)
(* of their arguments select: see the four parts above.                      *)
LawsOf(a, b) ==
    /\ ArithmeticFollowsLadder(a, b)
    /\ StringFunctionsAgree(a, b)
    /\ AdditionMovesTheInstant(a, b)
FunctionLaws(values) ==
    /\ Len(values) = 2 => LawsOf(values[1], values[2])
    /\ Len(values) = 1 => CastsRoundTrip(values[1])
FunctionsAgree == [][FunctionLaws(Values(terms'))]_terms

(* The aggregate of a group does not depend on the order in which its        *)
(* solutions arrive: SUM, AVG, COUNT, MIN and MAX of numbers are equal for   *)
(* every order, AVG is SUM divided by COUNT, an expression that fails in any *)
(* place makes every aggregate unbound, and one that is unbound none.        *)
Aggregated == {"sum", "avg", "count", "min", "max"}
Orders(list) == {o \in [DOMAIN list -> DOMAIN list] : IsInjective(o)}
Solutions(list, order) == [i \in DOMAIN list |-> [x |-> list[order[i]]]]
OrFail(v) == Apply("if", <<Apply("bound", <<Variable(v)>>), Variable(v), Apply("fails", <<>>)>>)
Of(aggregator, distinct, expression, solutions) ==
    AggregateOver([aggregator |-> aggregator, distinct |-> distinct, expression |-> expression],
                  solutions, <<"x">>)
AggregateLaws(list) ==
    LET given == Solutions(list, [i \in DOMAIN list |-> i])
        x == Variable("x")
        of(aggregator, solutions) == Of(aggregator, FALSE, x, solutions)
        SameValue(a, b) == orderTypes(a, b) = 0
    IN  /\ \A aggregator \in Aggregated, order \in Orders(list) :
             LET ordered == Solutions(list, order)
                 lacking == [ordered EXCEPT ![2] = <<>>]
             IN  /\ SameValue(of(aggregator, ordered), of(aggregator, given))
                 /\ Of(aggregator, FALSE, OrFail("x"), lacking) = NoTerm
                 /\ SameValue(of(aggregator, lacking),
                              of(aggregator, <<ordered[1], ordered[3]>>))
        /\ SameValue(of("avg", given),
                     toRDF(TermFunctionDivision(Values(<<of("sum", given), of("count", given)>>))))
        /\ Of("count", TRUE, x, given) = CountLiteral(Cardinality(Seqs!ToSet(list)))
        /\ Of("count", TRUE, [kind |-> "wildcard"], given) = Of("count", TRUE, x, given)
AggregatedNumber(a) == IsNumber(a) /\ a.num # NaN
AggregatesAgree(list) ==
    Len(list) = 3 /\ (\A i \in DOMAIN list : AggregatedNumber(transformTerm(list[i]))) =>
      AggregateLaws(list)
AggregatesIgnoreOrder == [][AggregatesAgree(terms')]_terms
=============================================================================
