------------------------------- MODULE Types -------------------------------
(***************************************************************************)
(* The literal types of the expression evaluator: which type restricts     *)
(* which, and which type may be passed where another one is declared       *)
(* (packages/utils-expression-evaluator/lib/util/TypeHandling.ts).         *)
(*                                                                         *)
(* A type is named by the local name of its IRI. CustomTypes are datatypes *)
(* the evaluator does not know; Discovered is what the super type provider *)
(* of the query answers for them.                                          *)
(***************************************************************************)
EXTENDS Integers

CONSTANTS
    CustomTypes,    \* datatypes that only the super type provider knows
    Discovered      \* what its discoverer returns for each: a type or "term"

DateTimeTypes == {"dateTime", "dateTimeStamp", "date", "time", "gMonth",
                  "gMonthDay", "gYear", "gYearMonth", "gDay"}
DurationTypes == {"duration", "dayTimeDuration", "yearMonthDuration"}
StringTypes   == {"string", "normalizedString", "token", "language", "NMTOKEN",
                  "Name", "NCName", "ENTITY", "ID", "IDREF", "untypedAtomic"}
IntegerTypes  == {"integer", "nonPositiveInteger", "negativeInteger", "long",
                  "int", "short", "byte", "nonNegativeInteger",
                  "positiveInteger", "unsignedLong", "unsignedInt",
                  "unsignedShort", "unsignedByte"}

TypeAlias == {"SPARQL_NUMERIC", "SPARQL_STRINGLY"}
TypeURL ==
    DateTimeTypes \cup DurationTypes \cup StringTypes \cup IntegerTypes
      \cup {"langString", "dirLangString", "decimal", "float", "double",
            "boolean", "anyURI"}
KnownLiteralTypes == TypeAlias \cup TypeURL

(* What each known type restricts; the types without a parent map to "term". *)
extensionTableInput ==
    [t \in KnownLiteralTypes |->
       CASE t = "dateTimeStamp" -> "dateTime"
         [] t \in DurationTypes \ {"duration"} -> "duration"
         [] t \in {"langString", "dirLangString", "string"} -> "SPARQL_STRINGLY"
         [] t \in {"normalizedString", "untypedAtomic"} -> "string"
         [] t = "token" -> "normalizedString"
         [] t \in {"language", "NMTOKEN", "Name"} -> "token"
         [] t = "NCName" -> "Name"
         [] t \in {"ENTITY", "ID", "IDREF"} -> "NCName"
         [] t \in {"double", "float", "decimal"} -> "SPARQL_NUMERIC"
         [] t = "integer" -> "decimal"
         [] t \in {"nonPositiveInteger", "long", "nonNegativeInteger"} -> "integer"
         [] t = "negativeInteger" -> "nonPositiveInteger"
         [] t = "int" -> "long"
         [] t = "short" -> "int"
         [] t = "byte" -> "short"
         [] t \in {"positiveInteger", "unsignedLong"} -> "nonNegativeInteger"
         [] t = "unsignedInt" -> "unsignedLong"
         [] t = "unsignedShort" -> "unsignedInt"
         [] t = "unsignedByte" -> "unsignedShort"
         [] OTHER -> "term"]

(* The same table continued with what the provider discovers. *)
Extends ==
    [t \in KnownLiteralTypes \cup CustomTypes |->
       IF t \in KnownLiteralTypes THEN extensionTableInput[t] ELSE Discovered[t]]

Depth[t \in DOMAIN Extends] ==
    IF Extends[t] = "term" THEN 0 ELSE Depth[Extends[t]] + 1

SuperTypes[t \in DOMAIN Extends] ==
    {t} \cup IF Extends[t] = "term" THEN {} ELSE SuperTypes[Extends[t]]

(* extensionTableBuilderInitKey and getSuperTypes both copy the parent's      *)
(* dictionary and add the type itself, one deeper.                            *)
getSuperTypeDict == [t \in DOMAIN Extends |-> [s \in SuperTypes[t] |-> Depth[s]]]

isSubTypeOf(baseType, argumentType) ==
    /\ baseType # "term"
    /\ argumentType \in DOMAIN getSuperTypeDict[baseType]

(* The types an argument may have besides the declared one, after conversion. *)
typePromotion ==
    [t \in KnownLiteralTypes |->
       CASE t = "string" -> {"anyURI"}
         [] t = "double" -> {"float", "decimal"}
         [] t = "float"  -> {"decimal"}
         [] OTHER -> {}]
=============================================================================
