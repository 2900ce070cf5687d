--------------------------- MODULE TermFunctions ---------------------------
(***************************************************************************)
(* The functions on terms of the expression evaluator: one definition per  *)
(* class of the packages actor-function-factory-term-. A function is its   *)
(* overload tree and, for the types the search finds, what it does with    *)
(* the arguments. An outcome is a term or an error.                        *)
(***************************************************************************)
EXTENDS Overloads, Terms
Seqs == INSTANCE SequencesExt

CONSTANTS
    defaultTimeZone,    \* the zone of dates without one
    queryTimestamp,     \* the date that NOW returns
    baseIRI,            \* <<>> when the query has none
    LowerCase,          \* from each upper case character to its lower case one
    OneLetter           \* the subtags of a language tag that have one letter

NUMERIC == "SPARQL_NUMERIC"
STRINGLY == "SPARQL_STRINGLY"
Ladder == <<"integer", "decimal", "float", "double">>
Twice(type) == <<type, type>>
OnTwice(types) == [i \in DOMAIN types |-> On(Twice(types[i]))]
OnEach(types)  == [i \in DOMAIN types |-> On(<<types[i]>>)]

IsTrue(outcome) == ~IsError(outcome) /\ outcome.bool
Components == <<"subject", "predicate", "object", "graph">>

-----------------------------------------------------------------------------
(* Calling the implementation that the search found.                         *)

(* A promoted argument is converted before the implementation sees it: the   *)
(* value of a literal without a valid lexical form becomes NaN.              *)
conversionFunction(arg, to) ==
    CASE to # "string" -> numeric(to, IF arg.class = "nonLexical" THEN NaN ELSE arg.num)
      [] to = "string" /\ HasStr(arg) -> string(Str(arg))
      [] OTHER -> arg

wrapInvalidLexicalProtected(func, args) ==
    IF \E i \in DOMAIN args : args[i].termType = "literal" /\ args[i].class = "nonLexical"
    THEN Error("InvalidLexicalForm") ELSE func

(* Implementation is given the declared types and the converted arguments.   *)
Invoke(found, args, Implementation(_, _)) ==
    LET protected(result, given) ==
            IF found.checked THEN wrapInvalidLexicalProtected(result, given) ELSE result
        called(given) == protected(Implementation(found.types, given), given)
    IN  CASE found = NoImplementation -> Error("InvalidArgumentTypes")
          [] found = Crash -> Error("TypeError")
          [] found \notin {NoImplementation, Crash} -> 
               called([i \in DOMAIN args |->
                         IF found.path[i] = found.types[i] THEN args[i]
                         ELSE conversionFunction(args[i], found.types[i])])
applyOnTerms(tree, args, Implementation(_, _)) ==
    Invoke(search(tree, args), args, Implementation)

-----------------------------------------------------------------------------
(* Numbers *)

NumericConverterTree == addOverload(OnEach(Ladder))
numericConverter(args, Op(_)) ==
    applyOnTerms(NumericConverterTree, args, LAMBDA t, a : numeric(t[1], Op(a[1].num)))
TermFunctionAbs(args)        == numericConverter(args, AbsoluteNum)
TermFunctionCeil(args)       == numericConverter(args, CeilNum)
TermFunctionFloor(args)      == numericConverter(args, FloorNum)
TermFunctionRound(args)      == numericConverter(args, RoundNum)
TermFunctionUnaryMinus(args) == numericConverter(args, Negated)
TermFunctionUnaryPlus(args)  == numericConverter(args, LAMBDA q : q)

Arithmetic == OnTwice(Ladder)
arithmetic(t, a, Op(_, _)) == numeric(t[1], Op(a[1].num, a[2].num))

MultiplicationTree == addOverload(Arithmetic)
TermFunctionMultiplication(args) ==
    applyOnTerms(MultiplicationTree, args, LAMBDA t, a : arithmetic(t, a, Times))

(* The division of two integers replaces the overload that arithmetic added. *)
DivisionTree == addOverload(Arithmetic \o <<On(Twice("integer"))>>)
TermFunctionDivision(args) ==
    applyOnTerms(DivisionTree, args, LAMBDA t, a :
      CASE t # Twice("integer") -> arithmetic(t, a, Over)
        [] t = Twice("integer") /\ a[2].num = Int2Num(0) -> Error("ExpressionError")
        [] OTHER -> numeric("decimal", Over(a[1].num, a[2].num)))

(* The fields that a date or a time leaves undefined get their defaults.     *)
Moved(class, date, dur) ==
    NewDate(class, addDurationToDateTime(
                     IF class = "dateTime" THEN date ELSE defaultedDateTimeRepresentation(date),
                     defaultedDurationRepresentation(dur)))
DateAndDuration ==
    << On(<<"dateTime", "dayTimeDuration">>), On(<<"dateTime", "yearMonthDuration">>),
       On(<<"date", "dayTimeDuration">>), On(<<"date", "yearMonthDuration">>),
       On(<<"time", "dayTimeDuration">>) >>

AdditionTree ==
    addOverload(Arithmetic \o DateAndDuration \o <<On(<<"time", "yearMonthDuration">>)>>)
TermFunctionAddition(args) ==
    applyOnTerms(AdditionTree, args, LAMBDA t, a :
      IF t[1] \in NumericClasses THEN arithmetic(t, a, Plus)
      ELSE Moved(t[1], a[1].date, a[2].dur))

SubtractionTree ==
    addOverload(Arithmetic \o OnTwice(<<"dateTime", "date", "time">>) \o DateAndDuration)
TermFunctionSubtraction(args) ==
    applyOnTerms(SubtractionTree, args, LAMBDA t, a :
      CASE t[1] \in NumericClasses -> arithmetic(t, a, Minus)
        [] t[2] \in DateClasses ->
             NewDuration("dayTimeDuration",
                         elapsedDuration(a[1].date, a[2].date, defaultTimeZone))
        [] OTHER -> Moved(t[1], a[1].date, negateDuration(a[2].dur)))

NumericOrTermTree == addOverload(<<On(<<NUMERIC>>), Unchecked(<<"term">>)>>)
TermFunctionIsNumeric(args) ==
    applyOnTerms(NumericOrTermTree, args, LAMBDA t, a : bool(t = <<NUMERIC>>))

-----------------------------------------------------------------------------
(* Comparisons *)

UTC(literal) == toUTCDate(literal.date, defaultTimeZone)
Months(literal) ==
    yearMonthDurationsToMonths(defaultedYearMonthDurationRepresentation(literal.dur))
Seconds(literal) ==
    dayTimeDurationsToSeconds(defaultedDayTimeDurationRepresentation(literal.dur))

(* Two literals that are not the same RDF term are not comparable.           *)
RDFEquals(a) ==
    LET same == toRDF(a[1]) = toRDF(a[2])
    IN  IF ~same /\ a[1].termType = "literal" /\ a[2].termType = "literal"
        THEN Error("RDFEqualTypeError") ELSE bool(same)

EqualityTree ==
    addOverload(OnTwice(<<NUMERIC, "string", "langString", STRINGLY, "boolean",
                          "dateTime", "date">>)
                  \o <<Unchecked(Twice("quad")), Unchecked(Twice("term"))>>
                  \o OnTwice(<<"duration", "time">>))
EqualityOf(args, equality) ==
    LET quads(a) ==
          LET equal(i) == equality[a[1][Components[i]], a[2][Components[i]]]
              differing == {i \in 1 .. 4 : ~IsTrue(equal(i))}
              first == CHOOSE i \in differing : \A j \in differing : i <= j
          IN  IF differing # {} /\ IsError(equal(first)) THEN equal(first)
                                                        ELSE bool(differing = {})
    IN  applyOnTerms(EqualityTree, args, LAMBDA t, a :
          CASE t[1] = NUMERIC -> bool(NumEqual(a[1].num, a[2].num))
            [] t[1] = "string" -> bool(a[1].value = a[2].value)
            [] t[1] = "langString" ->
                 bool(a[1].value = a[2].value /\ a[1].language = a[2].language)
            [] t[1] = STRINGLY -> bool(FALSE)
            [] t[1] = "boolean" -> bool(a[1].bool = a[2].bool)
            [] t[1] \in DateClasses -> bool(UTC(a[1]) = UTC(a[2]))
            [] t[1] = "duration" -> bool(Months(a[1]) = Months(a[2])
                                           /\ Seconds(a[1]) = Seconds(a[2]))
            [] t[1] = "quad" -> quads(a)
            [] t[1] = "term" -> RDFEquals(a))
(* The parts of quads are compared by the function itself.                   *)
TermFunctionEquality(args) ==
    LET equality[x \in Within(args[1]), y \in Within(args[2])] == EqualityOf(<<x, y>>, equality)
    IN  EqualityOf(args, equality)

LesserThanTree ==
    addOverload(OnTwice(<<NUMERIC, "string", "boolean", "dateTime", "date",
                          "yearMonthDuration", "dayTimeDuration", "time">>)
                  \o <<Unchecked(Twice("quad"))>>)
QuadsLess(a, less) ==
    LET ordered(equal, differing) ==
          LET first == CHOOSE i \in differing : \A j \in differing : i <= j
          IN  CASE differing = {} -> bool(FALSE)
                [] differing # {} /\ IsError(equal[first]) -> equal[first]
                [] OTHER -> less[a[1][Components[first]], a[2][Components[first]]]
        byParts(equal) == ordered(equal, {i \in 1 .. 4 : ~IsTrue(equal[i])})
    IN  byParts([i \in 1 .. 4 |->
                  TermFunctionEquality(<<a[1][Components[i]], a[2][Components[i]]>>)])
LesserThanOf(args, less) ==
    applyOnTerms(LesserThanTree, args, LAMBDA t, a :
      CASE t[1] = NUMERIC -> bool(NumLess(a[1].num, a[2].num))
        [] t[1] = "string" -> bool(StringLess(a[1].value, a[2].value, Collation))
        [] t[1] = "boolean" -> bool(~a[1].bool /\ a[2].bool)
        [] t[1] \in DateClasses -> bool(UTC(a[1]) < UTC(a[2]))
        [] t[1] = "yearMonthDuration" -> bool(Months(a[1]) < Months(a[2]))
        [] t[1] = "dayTimeDuration" -> bool(Seconds(a[1]) < Seconds(a[2]))
        [] t[1] = "quad" -> QuadsLess(a, less))
TermFunctionLesserThan(args) ==
    LET less[x \in Within(args[1]), y \in Within(args[2])] == LesserThanOf(<<x, y>>, less)
    IN  less[args[1], args[2]]

(* The other comparisons are made of these two.                              *)
TermsTree == addOverload(<<On(Twice("term"))>>)
TermFunctionInequality(args) ==
    applyOnTerms(TermsTree, args, LAMBDA t, a :
      LET equal == TermFunctionEquality(a)
      IN  IF IsError(equal) THEN equal ELSE bool(~equal.bool))
TermFunctionGreaterThan(args) ==
    applyOnTerms(TermsTree, args, LAMBDA t, a : TermFunctionLesserThan(<<a[2], a[1]>>))

TermFunctionLesserThanEqual(args) ==
    LET either(less, equal) ==
          CASE IsTrue(less) -> bool(TRUE)
            [] ~IsTrue(less) /\ (IsError(equal) \/ IsTrue(equal)) -> equal
            [] OTHER -> less
    IN  applyOnTerms(TermsTree, args, LAMBDA t, a :
          either(TermFunctionLesserThan(a), TermFunctionEquality(a)))
TermFunctionGreaterThanEqual(args) ==
    applyOnTerms(TermsTree, args, LAMBDA t, a : TermFunctionLesserThanEqual(<<a[2], a[1]>>))

TermTree == addOverload(<<Unchecked(<<"term">>)>>)
TermFunctionNot(args) ==
    applyOnTerms(TermTree, args, LAMBDA t, a :
      IF coerceEBV(a[1]) = "error" THEN Error("EBVCoercionError")
      ELSE bool(coerceEBV(a[1]) = "false"))
-----------------------------------------------------------------------------
(* Strings *)

OneString == addOverload(OnEach(<<"string">>))
Stringly1Tree == addOverload(OnEach(<<STRINGLY>>))
Stringly2Tree == addOverload(OnTwice(<<STRINGLY>>))
String2Tree   == addOverload(OnTwice(<<"string">>))
Tagged == <<"string", "langString", "dirLangString">>

(* A literal with the language and the direction of another one.             *)
Like(literal, type, value) ==
    CASE type = "langString" -> LangStringLiteral(value, literal.language)
      [] type = "dirLangString" ->
           DirLangStringLiteral(value, literal.language, literal.direction)
      [] OTHER -> StringLiteral(value, type)

verifyCompatibility(a, b) ==
    CASE a.dataType = "dirLangString" ->
           /\ b.dataType # "langString"
           /\ b.dataType = "dirLangString" =>
                a.language = b.language /\ a.direction = b.direction
      [] a.dataType = "langString" ->
           /\ b.dataType # "dirLangString"
           /\ b.dataType = "langString" => a.language = b.language
      [] a.dataType = "string" -> b.dataType \notin {"dirLangString", "langString"}
      [] OTHER -> TRUE
onCompatibleStringly2(args, Op(_, _)) ==
    applyOnTerms(Stringly2Tree, args, LAMBDA t, a :
      IF verifyCompatibility(a[1], a[2]) THEN Op(a[1], a[2])
                                         ELSE Error("IncompatibleLanguageOperation"))

(* The positions where a string contains another one.                        *)
Occurrences(s, t) == {i \in 1 .. Len(s) - Len(t) + 1 : SubSeq(s, i, i + Len(t) - 1) = t}
FirstOf(positions) == CHOOSE i \in positions : \A j \in positions : i <= j

TermFunctionContains(args) ==
    onCompatibleStringly2(args, LAMBDA a, b : bool(Occurrences(a.value, b.value) # {}))
TermFunctionStrStarts(args) ==
    onCompatibleStringly2(args, LAMBDA a, b : bool(Seqs!IsPrefix(b.value, a.value)))
TermFunctionStrEnds(args) ==
    onCompatibleStringly2(args, LAMBDA a, b : bool(Seqs!IsSuffix(b.value, a.value)))

(* What lies before or after the first occurrence, with the language of the  *)
(* whole; a plain empty string when nothing was found.                       *)
Part1(a, b, sub) == IF sub # <<>> \/ b.value = <<>> THEN Like(a, a.dataType, sub)
                                                    ELSE string(<<>>)
TermFunctionStrBefore(args) ==
    onCompatibleStringly2(args, LAMBDA a, b :
      LET at == Occurrences(a.value, b.value)
      IN  Part1(a, b, IF at = {} THEN <<>> ELSE SubSeq(a.value, 1, FirstOf(at) - 1)))
TermFunctionStrAfter(args) ==
    onCompatibleStringly2(args, LAMBDA a, b :
      LET at == Occurrences(a.value, b.value)
      IN  Part1(a, b, IF at = {} THEN <<>>
                      ELSE SubSeq(a.value, FirstOf(at) + Len(b.value), Len(a.value))))

(* The slice of a JavaScript array: a negative bound counts from the end.    *)
Bound(s, q) ==
    LET i == IF isFinite(q) THEN TruncNum(q).n ELSE IF q = Infinity THEN Len(s) ELSE 0
    IN  IF i >= 0 THEN i ELSE IF Len(s) + i < 0 THEN 0 ELSE Len(s) + i
Slice(s, from, to) == SubSeq(s, Bound(s, from) + 1,
                             IF Bound(s, to) > Len(s) THEN Len(s) ELSE Bound(s, to))
SubStrTree ==
    addOverload([i \in 1 .. 3 |-> On(<<Tagged[i], "integer">>)]
                  \o [i \in 1 .. 3 |-> On(<<Tagged[i], "integer", "integer">>)])
TermFunctionSubStr(args) ==
    applyOnTerms(SubStrTree, args, LAMBDA t, a :
      LET from == Minus(a[2].num, Int2Num(1))
      IN  Like(a[1], t[1], Slice(a[1].value, from,
                                 IF Len(t) = 2 THEN Int2Num(Len(a[1].value))
                                               ELSE Plus(a[3].num, from))))

TermFunctionStrLen(args) ==
    applyOnTerms(Stringly1Tree, args, LAMBDA t, a : integer(Len(a[1].value)))

toLowerCase(s) == [i \in DOMAIN s |-> IF s[i] \in DOMAIN LowerCase THEN LowerCase[s[i]] ELSE s[i]]
toUpperCase(s) ==
    [i \in DOMAIN s |-> IF \E c \in DOMAIN LowerCase : LowerCase[c] = s[i]
                        THEN CHOOSE c \in DOMAIN LowerCase : LowerCase[c] = s[i] ELSE s[i]]
TaggedTree == addOverload(OnEach(Tagged))
TermFunctionLcase(args) ==
    applyOnTerms(TaggedTree, args, LAMBDA t, a : Like(a[1], t[1], toLowerCase(a[1].value)))
TermFunctionUcase(args) ==
    applyOnTerms(TaggedTree, args, LAMBDA t, a : Like(a[1], t[1], toUpperCase(a[1].value)))

(* encodeURI of JavaScript, which leaves the reserved characters as they are. *)
encodeURI(s) == [i \in DOMAIN s |-> IF s[i] = " " THEN "%20" ELSE s[i]]
TermFunctionEncodeForUri(args) ==
    applyOnTerms(Stringly1Tree, args, LAMBDA t, a : string(encodeURI(a[1].value)))

(* A hash is opaque: its name before what it is the hash of.                 *)
Hash(name, args) ==
    applyOnTerms(OneString, args, LAMBDA t, a : string(<<name>> \o a[1].value))
TermFunctionMd5(args)    == Hash("md5", args)
TermFunctionSha1(args)   == Hash("sha1", args)
TermFunctionSha256(args) == Hash("sha256", args)
TermFunctionSha384(args) == Hash("sha384", args)
TermFunctionSha512(args) == Hash("sha512", args)

-----------------------------------------------------------------------------
(* Patterns. A pattern is a sequence of characters that stand for themselves *)
(* and of "." for any character; a flag is a character.                      *)

Flags == {"i", "m", "s", "x", "q"}
cleanFlags(flags) ==
    IF \/ \E i \in DOMAIN flags : flags[i] \notin Flags
       \/ \E i, j \in DOMAIN flags : i # j /\ flags[i] = flags[j]
    THEN Error("Error")
    ELSE [flags |-> IF "q" \in Seqs!ToSet(flags) THEN Seqs!ToSet(flags) \ {"m", "s", "x"}
                                            ELSE Seqs!ToSet(flags)]

Wildcard == "any character"
flagX(pattern) == SelectSeq(pattern, LAMBDA c : c # " ")
Compiled(pattern, flags) ==
    LET stripped == IF "x" \in flags THEN flagX(pattern) ELSE pattern
    IN  IF "q" \in flags THEN stripped
        ELSE [i \in DOMAIN stripped |-> IF stripped[i] = "." THEN Wildcard ELSE stripped[i]]
Folded(c, flags) == IF "i" \in flags /\ c \in DOMAIN LowerCase THEN LowerCase[c] ELSE c
MatchesAt(text, pattern, flags) ==
    {i \in 1 .. Len(text) - Len(pattern) + 1 :
       \A k \in DOMAIN pattern :
         pattern[k] = Wildcard \/ Folded(pattern[k], flags) = Folded(text[i + k - 1], flags)}

matches(text, pattern, flags) ==
    LET cleaned == cleanFlags(flags)
    IN  IF IsError(cleaned) THEN cleaned
        ELSE bool(MatchesAt(text, Compiled(pattern, cleaned.flags), cleaned.flags) # {})
RegexTree == addOverload(<<On(<<STRINGLY, "string">>), On(<<STRINGLY, "string", "string">>)>>)
TermFunctionRegex(args) ==
    applyOnTerms(RegexTree, args, LAMBDA t, a :
      matches(a[1].value, a[2].value, IF Len(t) = 2 THEN <<>> ELSE a[3].value))

(* Every match is replaced, from the left, without overlap; the empty        *)
(* pattern and the group references of a replacement are left out.           *)
AllReplaced(text, pattern, replacement, flags) ==
    LET next(i) == {at \in MatchesAt(text, pattern, flags) : at >= i}
        replaced[i \in 1 .. Len(text) + 1] ==
          IF next(i) = {} THEN SubSeq(text, i, Len(text))
          ELSE SubSeq(text, i, FirstOf(next(i)) - 1) \o replacement
                 \o replaced[FirstOf(next(i)) + Len(pattern)]
    IN  replaced[1]
replace(arg, pattern, replacement, flags) ==
    LET cleaned == cleanFlags(flags)
    IN  IF IsError(cleaned) THEN cleaned
        ELSE [replaced |-> AllReplaced(arg, Compiled(pattern, cleaned.flags), replacement,
                                       cleaned.flags)]
ReplaceTree ==
    addOverload([i \in 1 .. 3 |-> On(<<Tagged[i], "string", "string">>)]
                  \o [i \in 1 .. 3 |-> On(<<Tagged[i], "string", "string", "string">>)])
TermFunctionReplace(args) ==
    applyOnTerms(ReplaceTree, args, LAMBDA t, a :
      LET result == replace(a[1].value, a[2].value, a[3].value,
                            IF Len(t) = 3 THEN <<>> ELSE a[4].value)
      IN  IF IsError(result) THEN result ELSE Like(a[1], t[1], result.replaced))

-----------------------------------------------------------------------------
(* Languages *)

(* Subtags are single characters here, separated by "-". They are compared   *)
(* with a regular expression made of the left one, and the one made of "*"   *)
(* matches everything.                                                       *)
Subtags(s) == SelectSeq(s, LAMBDA c : c # "-")
matchLangTag(left, right) ==
    left = "*" \/ toLowerCase(<<left>>) = toLowerCase(<<right>>)
SubtagsMatch(range, tags) ==
    LET from[i \in 1 .. Len(range) + 1, j \in 1 .. Len(tags) + 1] ==
          CASE i > Len(range) -> TRUE
            [] i <= Len(range) /\ range[i] = "*" -> from[i + 1, j]
            [] i <= Len(range) /\ range[i] # "*" /\ j > Len(tags) -> FALSE
            [] OTHER -> CASE matchLangTag(range[i], tags[j]) -> from[i + 1, j + 1]
                          [] OTHER -> tags[j] \notin OneLetter /\ from[i, j + 1]
    IN  from[1, 1]
langMatches(tag, range) ==
    LET tags == IF tag = <<>> THEN <<"">> ELSE Subtags(tag)
        ranges == IF range = <<>> THEN <<"">> ELSE Subtags(range)
    IN  /\ matchLangTag(ranges[1], tags[1]) \/ tags[1] = "*"
        /\ SubtagsMatch(Tail(ranges), Tail(tags))
TermFunctionLangmatches(args) ==
    applyOnTerms(String2Tree, args, LAMBDA t, a : bool(langMatches(a[1].value, a[2].value)))

LiteralTree == addOverload(OnEach(<<"literal">>))
TermFunctionLang(args) ==
    applyOnTerms(LiteralTree, args, LAMBDA t, a : string(a[1].language))
TermFunctionLangdir(args) ==
    applyOnTerms(LiteralTree, args, LAMBDA t, a : string(a[1].direction))
IsOfClass(term, classes) == term.termType = "literal" /\ term.class \in classes
TermFunctionHasLang(args) ==
    applyOnTerms(TermTree, args, LAMBDA t, a :
      bool(IsOfClass(a[1], {"langString", "dirLangString"})))
TermFunctionHasLangdir(args) ==
    applyOnTerms(TermTree, args, LAMBDA t, a : bool(IsOfClass(a[1], {"dirLangString"})))

TermFunctionStrLang(args) ==
    applyOnTerms(String2Tree, args, LAMBDA t, a :
      IF a[2].value = <<>> THEN Error("ExpressionError")
      ELSE LangStringLiteral(a[1].value, toLowerCase(a[2].value)))
String3Tree == addOverload(<<On(<<"string", "string", "string">>)>>)
TermFunctionStrLangdir(args) ==
    applyOnTerms(String3Tree, args, LAMBDA t, a :
      IF a[2].value = <<>> \/ a[3].value \notin {<<"ltr">>, <<"rtl">>}
      THEN Error("ExpressionError")
      ELSE DirLangStringLiteral(a[1].value, toLowerCase(a[2].value), a[3].value))
-----------------------------------------------------------------------------
(* Terms and their parts *)

IsTermType(args, type) ==
    applyOnTerms(TermTree, args, LAMBDA t, a : bool(a[1].termType = type))
TermFunctionIsBlank(args)   == IsTermType(args, "blankNode")
TermFunctionIsIri(args)     == IsTermType(args, "namedNode")
TermFunctionIsLiteral(args) == IsTermType(args, "literal")
TermFunctionIsTriple(args)  == IsTermType(args, "quad")

TermFunctionStr(args) ==
    applyOnTerms(TermTree, args, LAMBDA t, a :
      IF HasStr(a[1]) THEN string(Str(a[1])) ELSE Error("NoStr"))
TermFunctionDatatype(args) ==
    applyOnTerms(LiteralTree, args, LAMBDA t, a : NamedNode(<<a[1].dataType>>))

(* An IRI without a scheme is resolved against the base IRI of the query.    *)
resolveRelativeIri(iri) ==
    CASE ":" \in Seqs!ToSet(iri) -> NamedNode(iri)
      [] ":" \notin Seqs!ToSet(iri) /\ baseIRI = <<>> -> Error("Error")
      [] OTHER -> NamedNode(baseIRI \o iri)
IriTree == addOverload(OnEach(<<"namedNode", "string">>))
TermFunctionIri(args) ==
    applyOnTerms(IriTree, args, LAMBDA t, a : resolveRelativeIri(Str(a[1])))

StrDtTree == addOverload(<<On(<<"string", "namedNode">>)>>)
TermFunctionStrDt(args) ==
    applyOnTerms(StrDtTree, args, LAMBDA t, a :
      transformLiteral(RDFLiteral(a[1].value, a[2].value[1], <<>>, <<>>)))

QuadTree == addOverload(OnEach(<<"quad">>))
Component(args, field) == applyOnTerms(QuadTree, args, LAMBDA t, a : a[1][field])
TermFunctionSubject(args)   == Component(args, "subject")
TermFunctionPredicate(args) == Component(args, "predicate")
TermFunctionObject(args)    == Component(args, "object")
TripleTree == addOverload(<<On(<<"term", "term", "term">>)>>)
TermFunctionTriple(args) ==
    applyOnTerms(TripleTree, args, LAMBDA t, a :
      IF a[1].termType \in {"namedNode", "blankNode"} /\ a[2].termType = "namedNode"
      THEN Quad(a[1], a[2], a[3], DefaultGraph) ELSE Error("ExpressionError"))

-----------------------------------------------------------------------------
(* The parts of dates *)

DateTree  == addOverload(OnEach(<<"dateTime", "date">>))
TimeTree  == addOverload(OnEach(<<"dateTime", "time">>))
DatePart(args, field) == applyOnTerms(DateTree, args, LAMBDA t, a : integer(a[1].date[field]))
TimePart(args, field) == applyOnTerms(TimeTree, args, LAMBDA t, a : integer(a[1].date[field]))
TermFunctionYear(args)    == DatePart(args, "year")
TermFunctionMonth(args)   == DatePart(args, "month")
TermFunctionDay(args)     == DatePart(args, "day")
TermFunctionHours(args)   == TimePart(args, "hours")
TermFunctionMinutes(args) == TimePart(args, "minutes")
TermFunctionSeconds(args) ==
    applyOnTerms(TimeTree, args, LAMBDA t, a :
      numeric(IF t[1] = "dateTime" THEN "decimal" ELSE "integer", Int2Num(a[1].date.seconds)))

EachDateTree == addOverload(OnEach(<<"dateTime", "date", "time">>))
TermFunctionTimezone(args) ==
    applyOnTerms(EachDateTree, args, LAMBDA t, a :
      IF a[1].date.zoneHours = Undefined /\ a[1].date.zoneMinutes = Undefined
      THEN Error("InvalidTimezoneCall")
      ELSE NewDuration("dayTimeDuration",
             [f \in DurationFields |-> CASE f = "hours" -> a[1].date.zoneHours
                                         [] f = "minutes" -> a[1].date.zoneMinutes
                                         [] OTHER -> Undefined]))
TermFunctionTz(args) ==
    applyOnTerms(EachDateTree, args, LAMBDA t, a :
      string(<<SpellZone(serializeTimeZone(a[1].date))>>))
NowTree == addOverload(<<On(<<>>)>>)
TermFunctionNow(args) ==
    applyOnTerms(NowTree, args, LAMBDA t, a : NewDate("dateTime", queryTimestamp))

-----------------------------------------------------------------------------
(* Casts. A cast from a string reads its lexical form.                       *)

CastError == Error("CastError")
FromTerm(types, unchecked) ==
    addOverload(OnEach(types) \o [i \in DOMAIN unchecked |-> Unchecked(<<unchecked[i]>>)])
AsNum(b) == Int2Num(IF b THEN 1 ELSE 0)

ToBooleanTree == FromTerm(<<NUMERIC, "boolean">>, <<"string">>)
TermFunctionXsdToBoolean(args) ==
    applyOnTerms(ToBooleanTree, args, LAMBDA t, a :
      CASE t[1] # "string" -> bool(coerceEBV(a[1]) = "true")
        [] t[1] = "string" /\ a[1].value \in {<<"true">>, <<"1">>} -> bool(TRUE)
        [] t[1] = "string" /\ a[1].value \in {<<"false">>, <<"0">>} -> bool(FALSE)
        [] OTHER -> CastError)

ToNumberTree == FromTerm(<<NUMERIC, "boolean">>, <<"string">>)
OrCastError(class, num) == IF num = NotANumber THEN CastError ELSE numeric(class, num)
ToFloating(class, args) ==
    applyOnTerms(ToNumberTree, args, LAMBDA t, a :
      CASE t[1] = NUMERIC -> numeric(class, a[1].num)
        [] t[1] = "boolean" -> numeric(class, AsNum(a[1].bool))
        [] t[1] = "string" -> OrCastError(class, parseXSDFloat(a[1].value)))
TermFunctionXsdToDouble(args) == ToFloating("double", args)
TermFunctionXsdToFloat(args)  == ToFloating("float", args)

(* The strings that the regular expressions of the two exact casts accept.   *)
PlainDecimals == {<<Spell(q)>> : q \in {p \in Numerals : isFinite(p)}}
PlainIntegers == {<<Spell(q)>> : q \in {p \in Numerals : p.d = 1 /\ p.n >= 0}}
TermFunctionXsdToDecimal(args) ==
    applyOnTerms(ToNumberTree, args, LAMBDA t, a :
      CASE t[1] = NUMERIC -> OrCastError("decimal", parseXSDDecimal(Str(a[1])))
        [] t[1] = "boolean" -> numeric("decimal", AsNum(a[1].bool))
        [] t[1] = "string" /\ a[1].value \in PlainDecimals ->
             numeric("decimal", parseXSDDecimal(a[1].value))
        [] OTHER -> CastError)
ToIntegerTree == FromTerm(<<"boolean", NUMERIC, "string">>, <<>>)
TermFunctionXsdToInteger(args) ==
    applyOnTerms(ToIntegerTree, args, LAMBDA t, a :
      CASE t[1] = "boolean" -> numeric("integer", AsNum(a[1].bool))
        [] t[1] = NUMERIC /\ isFinite(a[1].num) -> numeric("integer", TruncNum(a[1].num))
        [] t[1] = "string" /\ a[1].value \in PlainIntegers ->
             numeric("integer", Number(a[1].value))
        [] OTHER -> CastError)

ToStringTree == FromTerm(<<NUMERIC, "boolean">>, <<"term">>)
TermFunctionXsdToString(args) ==
    applyOnTerms(ToStringTree, args, LAMBDA t, a :
      CASE t[1] = NUMERIC -> string(Str(numeric("float", a[1].num)))
        [] t[1] = "boolean" -> string(Str(bool(a[1].bool)))
        [] OTHER -> IF HasStr(a[1]) THEN string(Str(a[1])) ELSE Error("NoStr"))

FromString(result, Make(_)) == IF result = ParseError THEN Error("ParseError") ELSE Make(result)
DateFrom(class, spellings, Parse(_), a) ==
    FromString(Parsed(Read(spellings, a[1].value), Parse), LAMBDA d : NewDate(class, d))
ToDateTree == FromTerm(<<"date", "dateTime", STRINGLY>>, <<>>)
TermFunctionXsdToDate(args) ==
    applyOnTerms(ToDateTree, args, LAMBDA t, a :
      CASE t[1] = "date" -> DateLiteral("date", a[1].date, a[1].value, "date")
        [] t[1] = "dateTime" -> NewDate("date", a[1].date)
        [] OTHER -> DateFrom("date", DateSpellings, parseDate, a))
ToTimeTree == FromTerm(<<"time", "dateTime", STRINGLY>>, <<>>)
TermFunctionXsdToTime(args) ==
    applyOnTerms(ToTimeTree, args, LAMBDA t, a :
      CASE t[1] = "time" -> DateLiteral("time", a[1].date, a[1].value, "time")
        [] t[1] = "dateTime" -> NewDate("time", a[1].date)
        [] OTHER -> DateFrom("time", TimeSpellings, parseTime, a))
ToDateTimeTree == FromTerm(<<"dateTime", "date">>, <<"string">>)
TermFunctionXsdToDatetime(args) ==
    applyOnTerms(ToDateTimeTree, args, LAMBDA t, a :
      CASE t[1] = "dateTime" -> a[1]
        [] t[1] = "date" ->
             NewDate("dateTime", [a[1].date EXCEPT !.hours = 0, !.minutes = 0, !.seconds = 0])
        [] t[1] = "string" ->
             FromString(Parsed(Read(DateTimeSpellings, a[1].value), parseDateTime),
                        LAMBDA d : DateLiteral("dateTime", d, a[1].value, "dateTime")))

ToDurationTree == FromTerm(<<"duration", STRINGLY>>, <<>>)
ToDuration(class, args, Copy(_), Parse(_)) ==
    applyOnTerms(ToDurationTree, args, LAMBDA t, a :
      IF t[1] = "duration" THEN Copy(a[1])
      ELSE FromString(Parsed(Read(DurationSpellings, a[1].value), Parse),
                      LAMBDA d : NewDuration(class, d)))
TermFunctionXsdToDayTimeDuration(args) ==
    ToDuration("dayTimeDuration", args,
               LAMBDA d : NewDuration("dayTimeDuration", trimToDayTimeDuration(d.dur)),
               parseDayTimeDuration)
TermFunctionXsdToYearMonthDuration(args) ==
    ToDuration("yearMonthDuration", args,
               LAMBDA d : NewDuration("yearMonthDuration", trimToYearMonthDuration(d.dur)),
               parseYearMonthDuration)
TermFunctionXsdToDuration(args) ==
    ToDuration("duration", args,
               LAMBDA d : DurationLiteral("duration", d.dur, d.value, "duration"),
               parseDuration)
=============================================================================
