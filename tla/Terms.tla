------------------------------- MODULE Terms -------------------------------
(***************************************************************************)
(* The terms of the expression evaluator and their conversion from and to  *)
(* RDF terms (packages/utils-expression-evaluator/lib/expressions/Term.ts, *)
(* lib/transformers/TermTransformer.ts, lib/util/Parsing.ts).              *)
(*                                                                         *)
(* A string is a sequence of characters; a number, a date or a duration is *)
(* spelled with a single character of its own. Alphabet lists every        *)
(* character of the instance by code unit, which is how JavaScript         *)
(* compares strings, and Collation in the order of localeCompare.          *)
(***************************************************************************)
EXTENDS Types, DateTimes, Sequences
LOCAL INSTANCE TLC

CONSTANTS
    Alphabet, Collation,                   \* sequences of the same characters
    Numerals,                              \* the numbers that strings may spell
    DateForms, TimeForms, DateTimeForms,   \* the lexical forms they may spell
    DurationForms,
    MaxNesting                             \* bound on the nesting of quads and expressions

ASSUME NestingAssumption == MaxNesting \in Nat

-----------------------------------------------------------------------------
(* Numbers: JavaScript numbers, with bignumber.js for the four operations,   *)
(* as fractions in lowest terms. The denominator 0 marks Infinity, -Infinity *)
(* and NaN. Rounding to 64 bits and the negative zero are left out.          *)

Infinity == [n |-> 1, d |-> 0]
NegativeInfinity == [n |-> -1, d |-> 0]
NaN  == [n |-> 0, d |-> 0]
Int2Num(i) == [n |-> i, d |-> 1]
isFinite(q) == q.d # 0

Reduced(n, d) ==
    LET divides(g) == n % g = 0 /\ d % g = 0
        gcd == CHOOSE g \in 1 .. d :
                 divides(g) /\ \A h \in 1 .. d : divides(h) => h <= g
    IN  [n |-> n \div gcd, d |-> d \div gcd]

Negated(q) == [q EXCEPT !.n = -@]
AbsoluteNum(q) == IF q.n < 0 THEN Negated(q) ELSE q

Plus(a, b) ==
    IF isFinite(a) /\ isFinite(b) THEN Reduced(a.n * b.d + b.n * a.d, a.d * b.d)
    ELSE IF isFinite(a) THEN b
    ELSE IF isFinite(b) \/ a = b THEN a ELSE NaN
Minus(a, b) == Plus(a, Negated(b))
Times(a, b) ==
    IF isFinite(a) /\ isFinite(b) THEN Reduced(a.n * b.n, a.d * b.d)
    ELSE IF a = NaN \/ b = NaN \/ a.n * b.n = 0 THEN NaN
    ELSE IF a.n * b.n > 0 THEN Infinity ELSE NegativeInfinity
Inverted(q) == IF q.n < 0 THEN [n |-> -q.d, d |-> -q.n] ELSE [n |-> q.d, d |-> q.n]
Over(a, b) ==
    IF isFinite(b) THEN Times(a, IF b.n = 0 THEN Infinity ELSE Inverted(b))
    ELSE IF isFinite(a) /\ b # NaN THEN Int2Num(0) ELSE NaN

(* NaN is neither less than, nor equal to, any number, itself included.      *)
NumLess(a, b) ==
    /\ a # NaN /\ b # NaN
    /\ IF isFinite(a) /\ isFinite(b) THEN a.n * b.d < b.n * a.d
       ELSE \/ a = NegativeInfinity /\ b # NegativeInfinity
            \/ b = Infinity /\ a # Infinity
NumEqual(a, b) == a = b /\ a # NaN

FloorNum(q) == IF isFinite(q) THEN Int2Num(q.n \div q.d) ELSE q
CeilNum(q)  == Negated(FloorNum(Negated(q)))
RoundNum(q) == FloorNum(Plus(q, [n |-> 1, d |-> 2]))
TruncNum(q) == IF q.n < 0 THEN CeilNum(q) ELSE FloorNum(q)

-----------------------------------------------------------------------------
(* Terms.                                                                    *)

Position(c, order) == CHOOSE i \in DOMAIN order : order[i] = c
StringLess(s, t, order) ==
    \E k \in 1 .. Len(t) :
      /\ k <= Len(s) + 1
      /\ \A j \in 1 .. k - 1 : s[j] = t[j]
      /\ k <= Len(s) => Position(s[k], order) < Position(t[k], order)

Error(name) == [error |-> name]
IsError(x)  == "error" \in DOMAIN x

-----------------------------------------------------------------------------
(* Spelling. Only that each value has a spelling of its own matters.         *)

Spell(q) == CASE q = NaN -> "NaN"
              [] q = Infinity -> "Infinity"
              [] q = NegativeInfinity -> "-Infinity"
              [] q.d = 1 -> ToString(q.n)
              [] OTHER -> ToString(q.n) \o "/" \o ToString(q.d)

(* specificFormatter: an integer is rounded, a double is written with an     *)
(* exponent and its infinities as INF.                                       *)
specificFormatter(class, q) ==
    CASE class = "integer" -> <<Spell(RoundNum(q))>>
      [] class = "double" /\ isFinite(q) -> <<Spell(q) \o "E0">>
      [] class = "double" /\ q = Infinity -> <<"INF">>
      [] class = "double" /\ q = NegativeInfinity -> <<"-INF">>
      [] OTHER -> <<Spell(q)>>

SpellFields(form, fields) ==
    [i \in DOMAIN fields |->
       IF form[fields[i]] = Undefined THEN "" ELSE ToString(form[fields[i]])]
SpellZone(zone) == zone.sign \o ToString(zone.hours) \o ":" \o ToString(zone.minutes)
Separated(f, by) == f[1] \o by \o f[2] \o by \o f[3]
SpellDate(form) ==
    Separated(SpellFields(form, <<"year", "month", "day">>), "-") \o SpellZone(form.zone)
SpellTime(form) ==
    Separated(SpellFields(form, <<"hours", "minutes", "seconds">>), ":") \o SpellZone(form.zone)
SpellDateTime(form) == SpellDate([form EXCEPT !.zone = NoZone]) \o "T" \o SpellTime(form)
SpellDuration(form) ==
    LET spelled(f) == f[1] \o "Y" \o f[2] \o "M" \o f[3] \o "DT"
                        \o f[4] \o "H" \o f[5] \o "M" \o f[6] \o "S"
    IN  (IF form.negative THEN "-P" ELSE "P")
          \o spelled(SpellFields(form, <<"year", "month", "day", "hours", "minutes", "seconds">>))

(* Reading a spelling back; NoForm when the string spells nothing of the kind. *)
NoForm == [form |-> "none"]
DateSpellings == [s \in {SpellDate(f) : f \in DateForms} |->
                    CHOOSE f \in DateForms : SpellDate(f) = s]
TimeSpellings == [s \in {SpellTime(f) : f \in TimeForms} |->
                    CHOOSE f \in TimeForms : SpellTime(f) = s]
DateTimeSpellings == [s \in {SpellDateTime(f) : f \in DateTimeForms} |->
                        CHOOSE f \in DateTimeForms : SpellDateTime(f) = s]
DurationSpellings == [s \in {SpellDuration(f) : f \in DurationForms} |->
                        CHOOSE f \in DurationForms : SpellDuration(f) = s]
Read(spellings, str) ==
    IF Len(str) = 1 /\ str[1] \in DOMAIN spellings THEN spellings[str[1]] ELSE NoForm
Parsed(form, Parse(_)) == IF form = NoForm THEN ParseError ELSE Parse(form)

(* The Number function of JavaScript: the empty string is 0, what spells no  *)
(* number is NaN, and only Infinity is an infinity.                          *)
JsNumerals == {q \in Numerals : isFinite(q)} \cup {Infinity, NegativeInfinity}
NumberSpellings == [s \in UNION {{Spell(q), Spell(q) \o "E0"} : q \in JsNumerals} |->
                      CHOOSE q \in JsNumerals : s \in {Spell(q), Spell(q) \o "E0"}]
Number(str) ==
    IF str = <<>> THEN Int2Num(0)
    ELSE IF Len(str) = 1 /\ str[1] \in DOMAIN NumberSpellings
         THEN NumberSpellings[str[1]] ELSE NaN

NotANumber == [n |-> 0, d |-> -1]      \* the undefined that the parsers return
parseXSDFloat(value) ==
    LET float(numb) == CASE numb # NaN -> numb
                         [] value = <<"NaN">> -> NaN
                         [] value \in {<<"INF">>, <<"+INF">>} -> Infinity
                         [] value = <<"-INF">> -> NegativeInfinity
                         [] OTHER -> NotANumber
    IN  float(Number(value))
parseXSDDecimal(value) ==
    LET decimal(numb) == IF numb = NaN THEN NotANumber ELSE numb
    IN  decimal(Number(value))

-----------------------------------------------------------------------------
(* The classes of terms. "value" is what toRDF writes: the string the literal *)
(* was made with, or else its str().                                          *)

NamedNode(iri)   == [termType |-> "namedNode", value |-> iri]
BlankNode(label) == [termType |-> "blankNode", value |-> label]
Quad(s, p, o, g) == [termType |-> "quad", subject |-> s, predicate |-> p,
                     object |-> o, graph |-> g]
DefaultGraph     == [termType |-> "defaultGraph"]

Literal(class, value, dataType) ==
    [termType |-> "literal", class |-> class, value |-> value,
     dataType |-> dataType, language |-> <<>>, direction |-> <<>>]
StringLiteral(value, dataType) == Literal("string", value, dataType)
LangStringLiteral(value, language) ==
    [Literal("langString", value, "langString") EXCEPT !.language = language]
DirLangStringLiteral(value, language, direction) ==
    [Literal("dirLangString", value, "dirLangString") EXCEPT
       !.language = language, !.direction = direction]
NonLexicalLiteral(dataType, value) == Literal("nonLexical", value, dataType)

WithField(literal, field, x) ==
    [f \in DOMAIN literal \cup {field} |-> IF f = field THEN x ELSE literal[f]]
NumericLiteral(class, num, dataType, value) ==
    WithField(Literal(class, value, dataType), "num", num)
BooleanLiteral(bool, value) ==
    WithField(Literal("boolean", value, "boolean"), "bool", bool)
DateLiteral(class, date, value, dataType) ==
    WithField(Literal(class, value, dataType), "date", date)
DurationLiteral(class, dur, value, dataType) ==
    WithField(Literal(class, value, dataType), "dur", dur)

bool(b) == BooleanLiteral(b, IF b THEN <<"true">> ELSE <<"false">>)
numeric(class, num) == NumericLiteral(class, num, class, specificFormatter(class, num))
integer(i) == numeric("integer", Int2Num(i))
string(value) == StringLiteral(value, "string")

(* str() of the dates and durations serializes the value, whatever string    *)
(* the literal was made with.                                                *)
SpellDateOf(class, date) ==
    CASE class = "dateTime" -> <<SpellDateTime(serializeDateTime(date))>>
      [] class = "date" -> <<SpellDate(serializeDate(date))>>
      [] class = "time" -> <<SpellTime(serializeTime(date))>>
SpellDurationOf(class, dur) ==
    <<SpellDuration(serializeDuration(dur, IF class = "yearMonthDuration"
                                           THEN "month" ELSE "seconds"))>>
NewDate(class, date) == DateLiteral(class, date, SpellDateOf(class, date), class)
NewDuration(class, dur) == DurationLiteral(class, dur, SpellDurationOf(class, dur), class)

NumericClasses == {"integer", "decimal", "float", "double"}
DateClasses == {"dateTime", "date", "time"}
LiteralStr(term) ==
    CASE term.class \in DateClasses -> SpellDateOf(term.class, term.date)
      [] term.class \in DurationTypes -> SpellDurationOf(term.class, term.dur)
      [] OTHER -> term.value

-----------------------------------------------------------------------------
(* Expressions, and how they and the quads nest. What recurses over terms or *)
(* expressions in the code is a function over what the argument nests here.  *)

Constant(t) == [kind |-> "term", term |-> t]
Variable(v) == [kind |-> "variable", name |-> v]
Apply(operator, args) == [kind |-> "operator", operator |-> operator, args |-> args]
Existence(not, exists) == [kind |-> "existence", not |-> not, exists |-> exists]

(* A constant quad is not a term: it is evaluated as a call of the function   *)
(* triple (transformAlgebra).                                                *)
TripleOf(quad) ==
    Apply("triple", <<Constant(quad.subject), Constant(quad.predicate), Constant(quad.object)>>)

IsExpression(x) == "kind" \in DOMAIN x
IsConstantQuad(x) == x.kind = "term" /\ x.term.termType = "quad"
Operands(expr) ==
    CASE expr.kind = "operator" -> {expr.args[i] : i \in DOMAIN expr.args}
      [] IsConstantQuad(expr) -> {TripleOf(expr.term)}
      [] OTHER -> {}
PartsOfTerm(term) ==
    IF term.termType = "quad" THEN {term.subject, term.predicate, term.object, term.graph} ELSE {}
Parts(x) == IF IsExpression(x) THEN Operands(x) ELSE PartsOfTerm(x)

(* What lies 0, 1, ... MaxNesting levels below a term or an expression.       *)
Levels(x) ==
    LET level[n \in 0 .. MaxNesting] ==
          IF n = 0 THEN {x} ELSE UNION {Parts(y) : y \in level[n - 1]}
    IN  level
Within(x) == IF Parts(x) = {} THEN {x} ELSE UNION {Levels(x)[n] : n \in 0 .. MaxNesting}
NestsAtMost(x, n) == \A y \in Levels(x)[n] : Parts(y) = {}

(* A blank node has no string; the string of a quad is never read back.      *)
HasStr(term) == \A t \in Within(term) : t.termType # "blankNode"
Str(term) ==
    CASE term.termType = "namedNode" -> term.value
      [] term.termType = "literal" -> LiteralStr(term)
      [] term.termType = "defaultGraph" -> <<"DefaultGraph">>
      [] OTHER -> <<"Quad">>

(* The effective boolean value: "true", "false", or "error" where it throws. *)
coerceEBV(term) ==
    LET ebv(b) == IF b THEN "true" ELSE "false"
    IN  IF term.termType # "literal" THEN "error"
        ELSE CASE term.class = "boolean" -> ebv(term.bool)
               [] term.class = "string" -> ebv(Len(term.value) > 0)
               [] term.class \in NumericClasses -> ebv(term.num.n # 0)
               [] OTHER -> "error"
-----------------------------------------------------------------------------
(* From and to RDF terms. An RDF literal is [value, dataType, language,      *)
(* direction]; only the infinities of numbers are written differently.       *)

RDFLiteral(value, dataType, language, direction) ==
    [termType |-> "literal", value |-> value, dataType |-> dataType,
     language |-> language, direction |-> direction]

WithINF(value) == CASE value = <<"Infinity">> -> <<"INF">>
                    [] value = <<"-Infinity">> -> <<"-INF">>
                    [] OTHER -> value
LiteralToRDF(lit) ==
    RDFLiteral(
      IF lit.class \in NumericClasses /\ ~isFinite(lit.num) THEN WithINF(lit.value)
                                                            ELSE lit.value,
      CASE lit.class = "nonLexical" \/ lit.language = <<>> -> lit.dataType
        [] lit.direction # <<>> -> "dirLangString"
        [] OTHER -> "langString",
      lit.language, lit.direction)

OfParts(quad, converted) ==
    Quad(converted[quad.subject], converted[quad.predicate],
         converted[quad.object], converted[quad.graph])
toRDF(term) ==
    LET rdf[t \in Within(term)] ==
          CASE t.termType = "literal" -> LiteralToRDF(t)
            [] t.termType = "quad" -> OfParts(t, rdf)
            [] OTHER -> t
    IN  rdf[term]

OrNonLexical(result, lit, Make(_)) ==
    IF result = ParseError THEN NonLexicalLiteral(lit.dataType, lit.value)
                           ELSE Make(result)
OrNotANumber(num, lit, class) ==
    IF num = NotANumber THEN NonLexicalLiteral(lit.dataType, lit.value)
                        ELSE NumericLiteral(class, num, lit.dataType, lit.value)

(* The most specific known type decides the class, and the class keeps the   *)
(* datatype: except for the language strings and the boolean, which go back  *)
(* to their own.                                                             *)
transformLiteral(lit) ==
    LET types == SuperTypes[lit.dataType]
        date(class, spellings, Parse(_)) ==
          OrNonLexical(Parsed(Read(spellings, lit.value), Parse), lit,
                       LAMBDA d : DateLiteral(class, d, lit.value, lit.dataType))
        duration(class, Parse(_)) ==
          OrNonLexical(Parsed(Read(DurationSpellings, lit.value), Parse), lit,
                       LAMBDA d : DurationLiteral(class, d, lit.value, lit.dataType))
    IN  CASE "string" \in types -> StringLiteral(lit.value, lit.dataType)
          [] "langString" \in types -> LangStringLiteral(lit.value, lit.language)
          [] "dirLangString" \in types ->
               DirLangStringLiteral(lit.value, lit.language, lit.direction)
          [] "yearMonthDuration" \in types -> duration("yearMonthDuration", parseYearMonthDuration)
          [] "dayTimeDuration" \in types -> duration("dayTimeDuration", parseDayTimeDuration)
          [] types \cap DurationTypes = {"duration"} -> duration("duration", parseDuration)
          [] "dateTime" \in types -> date("dateTime", DateTimeSpellings, parseDateTime)
          [] "date" \in types -> date("date", DateSpellings, parseDate)
          [] "time" \in types -> date("time", TimeSpellings, parseTime)
          [] "boolean" \in types ->
               IF lit.value \in {<<"true">>, <<"false">>, <<"1">>, <<"0">>}
               THEN BooleanLiteral(lit.value \in {<<"true">>, <<"1">>}, lit.value)
               ELSE NonLexicalLiteral(lit.dataType, lit.value)
          [] "decimal" \in types ->
               OrNotANumber(parseXSDDecimal(lit.value), lit,
                            IF "integer" \in types THEN "integer" ELSE "decimal")
          [] types \cap {"float", "double"} # {} ->
               OrNotANumber(parseXSDFloat(lit.value), lit,
                            IF "float" \in types THEN "float" ELSE "double")
          [] OTHER -> Literal("other", lit.value, lit.dataType)

(* The conversion of a term, given that of its parts.                         *)
Transformed(term, transformed) ==
    CASE term.termType = "literal" -> transformLiteral(term)
      [] term.termType = "quad" -> OfParts(term, transformed)
      [] OTHER -> term
transformTerm(term) ==
    LET transformed[t \in Within(term)] == Transformed(t, transformed)
    IN  transformed[term]
=============================================================================
