----------------------------- MODULE Overloads -----------------------------
(***************************************************************************)
(* How a function of the expression evaluator picks the implementation for *)
(* the arguments of a call (packages/utils-expression-evaluator/lib/       *)
(* functions/OverloadTree.ts and Helpers.ts, packages/bus-function-factory *)
(* /lib/implementation/Core.ts).                                           *)
(*                                                                         *)
(* The overloads of a function are the sequence of the calls that declare  *)
(* them: [types, checked], where checked says that the implementation is   *)
(* wrapped to refuse literals whose lexical form is invalid. An            *)
(* implementation is named by the types it was declared for, and by the    *)
(* path of types that leads to it in the tree.                             *)
(***************************************************************************)
EXTENDS Types, Sequences, FiniteSets

On(types) == [types |-> types, checked |-> TRUE]
Unchecked(types) == [types |-> types, checked |-> FALSE]

TermTypes == {"namedNode", "literal", "blankNode", "quad", "defaultGraph"}

(* The paths that lead to an overload: each declared type, or one that is    *)
(* promoted to it.                                                           *)
Promotable(type) ==
    {type} \cup IF type \in KnownLiteralTypes THEN typePromotion[type] ELSE {}
PathsTo(types) ==
    {p \in [DOMAIN types -> UNION {Promotable(types[i]) : i \in DOMAIN types}] :
       \A i \in DOMAIN types : p[i] \in Promotable(types[i])}
promotionCount(path, types) == Cardinality({i \in DOMAIN types : path[i] # types[i]})

(* The tree, as a function from its paths to the overload found at their end.*)
(* Of the overloads that claim a path, the one with the fewest promotions    *)
(* has it, and of those the one that was added last.                         *)
addOverload(overloads) ==
    LET claims(path) == {k \in DOMAIN overloads : path \in PathsTo(overloads[k].types)}
        count(path, k) == promotionCount(path, overloads[k].types)
    IN  [path \in UNION {PathsTo(overloads[k].types) : k \in DOMAIN overloads} |->
           overloads[CHOOSE k \in claims(path) : \A j \in claims(path) :
                       \/ count(path, k) < count(path, j)
                       \/ count(path, k) = count(path, j) /\ k >= j]]

(* The priority of a type for an argument; an argument only descends into    *)
(* the types it has.                                                         *)
getSubTreeWithArg(arg) ==
    LET ranks(supers) == [t \in {"term", arg.termType} \cup DOMAIN supers |->
                            CASE t = "term" -> 0 [] t = arg.termType -> 1 [] OTHER -> supers[t] + 2]
    IN  ranks(IF arg.termType = "literal" THEN getSuperTypeDict[arg.dataType] ELSE <<>>)

NoImplementation == [types |-> <<"no implementation">>]
Crash            == [types |-> <<"crash">>]

(* The depth-first search takes the branch of the highest priority first, so *)
(* it ends at the lexicographically greatest path. When that one ends at a   *)
(* node where only longer overloads have an implementation, it goes on with  *)
(* an argument that does not exist.                                          *)
searchRanked(tree, ranks) ==
    LET length == Len(ranks)
        reached == {p \in {SubSeq(q, 1, length) :
                              q \in {r \in DOMAIN tree : Len(r) >= length}} :
                       \A i \in 1 .. length : p[i] \in DOMAIN ranks[i]}
        before(p, q) == \E i \in 1 .. length :
                           /\ ranks[i][p[i]] < ranks[i][q[i]]
                           /\ \A j \in 1 .. i - 1 : p[j] = q[j]
        overloadAt(path) ==
            IF path \notin DOMAIN tree THEN Crash
            ELSE [types |-> tree[path].types, path |-> path, checked |-> tree[path].checked]
        among(paths) ==
            IF paths = {} \/ (length = 0 /\ <<>> \notin DOMAIN tree) THEN NoImplementation
            ELSE overloadAt(CHOOSE p \in paths : \A q \in paths : ~before(p, q))
    IN  among(reached)

search(tree, args) == searchRanked(tree, [i \in DOMAIN args |-> getSubTreeWithArg(args[i])])


-----------------------------------------------------------------------------
(* The cache of the searches, shared by the queries of an engine: a set of   *)
(* [identifier, key, func].                                                  *)

KeyOfTermTypes(args) == [i \in DOMAIN args |-> args[i].termType]                \* mutant

KeyOf(args) == [i \in DOMAIN args |-> IF args[i].termType = "literal" THEN args[i].dataType
                                      ELSE args[i].termType]
Cached(cache, identifier, args) ==
    {e \in cache : e.identifier = identifier /\ e.key = KeyOf(args)}
searchCached(cache, identifier, tree, args) ==
    LET hit == Cached(cache, identifier, args)
    IN  IF hit # {} THEN (CHOOSE e \in hit : TRUE).func ELSE search(tree, args)
addToCache(cache, identifier, args, func) ==
    IF args = <<>> \/ func \in {NoImplementation, Crash} THEN cache
    ELSE cache \cup {[identifier |-> identifier, key |-> KeyOf(args), func |-> func]}

=============================================================================
