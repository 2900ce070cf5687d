-------------------------- MODULE MCFunctionCalls --------------------------
(* Small terms of every kind, and queries that call every function with them. *)
EXTENDS FunctionCalls
LOCAL INSTANCE SequencesExt

Lit(type, value) == RDFLiteral(value, type, <<>>, <<>>)
InLanguage(value, lang, dir) ==
    RDFLiteral(value, IF dir = <<>> THEN "langString" ELSE "dirLangString", lang, dir)
Zone(sign, hours, minutes) == [sign |-> sign, hours |-> hours, minutes |-> minutes]
Z == Zone("Z", 0, 0)
DateForm(y, m, d, zone) == [year |-> y, month |-> m, day |-> d, zone |-> zone]
TimeForm(h, m, s, zone) == [hours |-> h, minutes |-> m, seconds |-> s, zone |-> zone]
DateTimeForm(y, mo, d, h, mi, s, zone) ==
    [year |-> y, month |-> mo, day |-> d, hours |-> h, minutes |-> mi, seconds |-> s,
     zone |-> zone]
U == -1000
DurationForm(negative, y, mo, d, h, mi, s) ==
    [negative |-> negative, year |-> y, month |-> mo, day |-> d, hours |-> h,
     minutes |-> mi, seconds |-> s]

MCUndefined == U
MCCustomTypes == {"length", "unknown"}
MCDiscovered == [t \in MCCustomTypes |-> IF t = "length" THEN "integer" ELSE "term"]
MCDateForms == {DateForm(4, 2, 28, NoZone), DateForm(4, 2, 29, Z), DateForm(5, 1, 1, NoZone)}
MCTimeForms == {TimeForm(23, 30, 0, NoZone), TimeForm(1, 0, 0, Zone("+", 2, 0))}
MCDateTimeForms ==
    {DateTimeForm(4, 2, 28, 23, 30, 0, Z), DateTimeForm(4, 2, 29, 1, 30, 0, Zone("+", 2, 0)),
     DateTimeForm(4, 12, 31, 24, 0, 0, NoZone), DateTimeForm(5, 1, 31, 0, 0, 30, Zone("-", 5, 30))}
MCDurationForms ==
    {DurationForm(FALSE, U, U, 1, 1, U, U), DurationForm(FALSE, U, U, U, 25, U, U),
     DurationForm(TRUE, U, U, 70, U, 30, U), DurationForm(FALSE, 1, 1, U, U, U, U),
     DurationForm(FALSE, U, 13, U, U, U, U), DurationForm(FALSE, U, 1, 1, U, U, U),
     DurationForm(TRUE, U, U, 70, U, 30, 0), DurationForm(FALSE, U, 13, U, U, U, 0)}
MCNumerals == {Reduced(n, 6) : n \in -36 .. 54} \cup {Infinity, NegativeInfinity, NaN}
MCLowerCase == [c \in {"A", "B"} |-> IF c = "A" THEN "a" ELSE "b"]
Letters == <<"A", "B", "a", "b">>
MCDefaultTimeZone == [zoneHours |-> 1, zoneMinutes |-> 0]
MCQueryTimestamp == parseDateTime(DateTimeForm(4, 2, 28, 23, 30, 0, Z))
MCBaseIRI == <<>>
MCExtensionFunctions == [f \in {"answer", "fails"} |->
                           IF f = "answer" THEN Lit("integer", <<"1">>) ELSE Error("Error")]

NumberTerms ==
    {Lit("integer", <<"0">>), Lit("integer", <<"1">>), Lit("byte", <<"-2">>),
     Lit("length", <<"2">>), Lit("decimal", <<"3/2">>), Lit("decimal", <<"1">>),
     Lit("float", <<"1">>), Lit("double", <<"1E0">>), Lit("double", <<"INF">>),
     Lit("float", <<"NaN">>)}
DateTerms ==
    {Lit("date", <<SpellDate(f)>>) : f \in MCDateForms}
      \cup {Lit("time", <<SpellTime(f)>>) : f \in MCTimeForms}
      \cup {Lit("dateTime", <<SpellDateTime(f)>>) : f \in MCDateTimeForms}
      \cup {Lit("dayTimeDuration", <<SpellDuration(f)>>) :
              f \in {g \in MCDurationForms : g.year = U /\ g.month = U}}
      \cup {Lit("yearMonthDuration", <<SpellDuration(f)>>) :
              f \in {g \in MCDurationForms : g.day = U /\ g.hours = U /\ g.seconds = U}}
      \cup {Lit("duration", <<SpellDuration(DurationForm(FALSE, U, 1, 1, U, U, U))>>)}
StringTerms ==
    {Lit("string", s) : s \in {<<>>, <<"a">>, <<"B", "a">>, <<"a", "b", "a">>, <<"true">>}}
      \cup {InLanguage(<<"a", "b">>, <<"e">>, <<>>), InLanguage(<<"a">>, <<"f">>, <<>>),
            InLanguage(<<"a">>, <<"e">>, <<"ltr">>)}
BooleanTerms == {Lit("boolean", <<b>>) : b \in {"true", "0"}}
QuotedTriple(object) == Quad(NamedNode(<<"a">>), NamedNode(<<"b">>), object, DefaultGraph)
OddTerms ==
    {Lit("integer", <<"x">>), Lit("decimal", <<"x">>), Lit("unknown", <<"x">>),
     Lit("anyURI", <<"a">>), NamedNode(<<"a">>), BlankNode(<<"b">>),
     QuotedTriple(Lit("integer", <<"1">>)),
     QuotedTriple(Lit("decimal", <<"3/2">>)), QuotedTriple(Lit("integer", <<"x">>)),
     QuotedTriple(QuotedTriple(Lit("decimal", <<"x">>)))}
RDFTerms == NumberTerms \cup DateTerms \cup StringTerms \cup BooleanTerms \cup OddTerms

Triples(S) == {<<a, b, c>> : a \in S, b \in S, c \in S}
MCArguments ==
    {<<>>} \cup {<<a>> : a \in RDFTerms} \cup {<<a, b>> : a \in RDFTerms, b \in RDFTerms}
      \cup Triples(NumberTerms)
      \cup Triples({t \in DateTerms : t.dataType \in DateClasses})
      \cup Triples(StringTerms \cup {Lit("anyURI", <<"a">>), Lit("integer", <<"x">>)})
CacheTerms ==
    {Lit("integer", <<"1">>), Lit("integer", <<"x">>), Lit("float", <<"NaN">>),
     Lit("decimal", <<"1">>), Lit("decimal", <<"x">>), Lit("string", <<"a">>), Lit("anyURI", <<"a">>),
     Lit("unknown", <<"x">>), NamedNode(<<"a">>), BlankNode(<<"b">>),
     InLanguage(<<"a">>, <<"f">>, <<>>), Lit("dateTime", <<SpellDateTime(
                                            DateTimeForm(4, 2, 28, 23, 30, 0, Z))>>)}
MCTrees == FunctionTrees
ListsOf(n) == IF n = 1 THEN {<<a>> : a \in CacheTerms}
                        ELSE {<<a, b>> : a \in CacheTerms, b \in CacheTerms}
MCCalls ==
    UNION {{[identifier |-> f, args |-> Values(list)] : list \in ListsOf(Arity(f))} :
             f \in DOMAIN FunctionTrees}

(* Every character that a comparison of strings may meet: the code units put  *)
(* the upper case letters first, the collation each after its lower case.     *)
Spelled ==
    UNION {ToSet(t.value) : t \in {x \in RDFTerms : x.termType # "quad"}}
      \cup {t.dataType : t \in {x \in RDFTerms : x.termType = "literal"}}
      \cup {SpellDate(f) : f \in MCDateForms} \cup {SpellTime(f) : f \in MCTimeForms}
      \cup {SpellDateTime(f) : f \in MCDateTimeForms}
      \cup {SpellDuration(f) : f \in MCDurationForms}
      \cup {"INF", "-INF", "true", "false"}
Others == FoldSet(LAMBDA c, seq : Append(seq, c), <<>>, Spelled \ ToSet(Letters))
Sixths == [i \in 1 .. 91 |-> Spell(Reduced(i - 37, 6))]
Numbered == Sixths \o [i \in DOMAIN Sixths |-> Sixths[i] \o "E0"]
MCAlphabet == Letters \o Numbered \o Others
MCCollation == <<"a", "A", "b", "B">> \o Numbered \o Others
=============================================================================
