------------------------- MODULE FunctionCalls_proof -------------------------
(* Proofs about the calls of functions on terms: the cache of overloads, the *)
(* functional forms for terms of any kind, nested as deep as the bound       *)
(* allows, and the aggregates of any number of solutions.                    *)
EXTENDS FunctionCalls, FiniteSetTheorems, WellFoundedInduction, TLAPS

-----------------------------------------------------------------------------
(* The cache of overloads. *)

(* An entry holds what a search found for some call with that key.           *)
EntriesFound ==
    \A entry \in functionArgumentsCache :
      \E call \in Calls :
        /\ entry.identifier = call.identifier /\ entry.key = KeyOf(call.args)
        /\ entry.func = search(Trees[call.identifier], call.args)

CacheInv == EntriesFound /\ CacheAgreesWithSearch

(* Arguments with one key have the same types, so they descend into the same *)
(* branches of a tree: a search cannot tell them apart.                      *)
LEMMA SameKeySameSearch ==
    ASSUME NEW c \in Calls, NEW d \in Calls, KeyOf(c.args) = KeyOf(d.args), NEW tree
    PROVE  search(tree, c.args) = search(tree, d.args)
<1> DEFINE key(term) == IF term.termType = "literal" THEN term.dataType ELSE term.termType
<1>1. KeyOf(c.args) = [i \in DOMAIN c.args |-> key(c.args[i])]
      /\ KeyOf(d.args) = [i \in DOMAIN d.args |-> key(d.args[i])]
  BY DEF KeyOf
<1>2. DOMAIN c.args = DOMAIN d.args
      /\ \A i \in DOMAIN c.args : key(c.args[i]) = key(d.args[i])
  BY <1>1
<1>3. ASSUME NEW i \in DOMAIN c.args
      PROVE  getSubTreeWithArg(c.args[i]) = getSubTreeWithArg(d.args[i])
  <2>1. key(c.args[i]) = key(d.args[i])
    BY <1>2, <1>3
  <2>2. /\ c.args[i].termType \in TermTypes /\ d.args[i].termType \in TermTypes
        /\ c.args[i].termType = "literal" => c.args[i].dataType \in DOMAIN getSuperTypeDict
        /\ d.args[i].termType = "literal" => d.args[i].dataType \in DOMAIN getSuperTypeDict
    BY <1>2, <1>3, OverloadAssumption
  <2>3. c.args[i].termType = d.args[i].termType
    BY <2>1, <2>2, OverloadAssumption
  <2>4. c.args[i].termType = "literal" => c.args[i].dataType = d.args[i].dataType
    BY <2>1, <2>3
  <2> QED  BY <2>3, <2>4 DEF getSubTreeWithArg
<1>4. [i \in DOMAIN c.args |-> getSubTreeWithArg(c.args[i])]
        = [i \in DOMAIN d.args |-> getSubTreeWithArg(d.args[i])]
  BY <1>2, <1>3
<1> QED  BY <1>4 DEF search

(* A call finds what a search finds, be it in the cache, and leaves there    *)
(* only what a search found.                                                 *)
LEMMA CallKeepsInv ==
    ASSUME CacheInv, NEW call \in Calls, Call(call.identifier, call.args)
    PROVE  CacheInv'
<1> DEFINE tree == Trees[call.identifier]
           hit == Cached(functionArgumentsCache, call.identifier, call.args)
<1>1. found' = search(tree, call.args)
  <2>1. CASE hit = {}
    BY <2>1 DEF Call, searchCached
  <2>2. CASE hit # {}
    <3> DEFINE entry == CHOOSE e \in hit : TRUE
    <3>1. found' = entry.func /\ entry \in hit
      BY <2>2 DEF Call, searchCached
    <3>2. /\ entry \in functionArgumentsCache
          /\ entry.identifier = call.identifier /\ entry.key = KeyOf(call.args)
      BY <3>1 DEF Cached
    <3>3. PICK other \in Calls :
            /\ entry.identifier = other.identifier /\ entry.key = KeyOf(other.args)
            /\ entry.func = search(Trees[other.identifier], other.args)
      BY <3>2 DEF CacheInv, EntriesFound
    <3>4. search(tree, other.args) = search(tree, call.args)
      BY <3>2, <3>3, SameKeySameSearch
    <3> QED  BY <3>1, <3>2, <3>3, <3>4
  <2> QED  BY <2>1, <2>2
<1>2. EntriesFound'
  <2>1. functionArgumentsCache' = addToCache(functionArgumentsCache, call.identifier,
                                                call.args, found')
    BY DEF Call
  <2>2. CASE functionArgumentsCache' = functionArgumentsCache
    BY <2>2 DEF CacheInv, EntriesFound
  <2>3. CASE functionArgumentsCache' = functionArgumentsCache \cup
               {[identifier |-> call.identifier, key |-> KeyOf(call.args), func |-> found']}
    BY <1>1, <2>3 DEF CacheInv, EntriesFound
  <2> QED  BY <2>1, <2>2, <2>3 DEF addToCache
<1>3. CacheAgreesWithSearch'
  BY <1>1 DEF Call, CacheAgreesWithSearch
<1> QED  BY <1>2, <1>3 DEF CacheInv

(* However many calls share the cache, and for any overload trees: a call is *)
(* given the overload that a search of its own finds (OverloadTree.search).  *)
THEOREM CacheAgreesWithSearchCorrect == Spec => []CacheAgreesWithSearch
<1>1. Init => CacheInv
  BY DEF Init, CacheInv, EntriesFound, CacheAgreesWithSearch
<1>2. CacheInv /\ [Next]_vars => CacheInv'
  <2> SUFFICES ASSUME CacheInv, [Next]_vars PROVE CacheInv'
    OBVIOUS
  <2>1. CASE \E call \in Calls : Call(call.identifier, call.args)
    BY <2>1, CallKeepsInv
  <2>2. CASE UNCHANGED cacheVars
    BY <2>2 DEF cacheVars, CacheInv, EntriesFound, CacheAgreesWithSearch
  <2> QED  BY <2>1, <2>2 DEF Next, vars
<1>3. CacheInv => CacheAgreesWithSearch
  BY DEF CacheInv
<1> QED  BY <1>1, <1>2, <1>3, PTL DEF Spec

-----------------------------------------------------------------------------
(* Induction over the numbers, with the set of those that satisfy what is to *)
(* be shown.                                                                 *)

(* A set of natural numbers has a least one.                                 *)
LEMMA Minimum ==
  ASSUME NEW S \in SUBSET Nat, S # {}
  PROVE  \E n \in S : \A m \in S : n <= m
<1>1. PICK n \in S : \A m \in S : ~ (<<m, n>> \in OpToRel(<, Nat))
  BY NatLessThanWellFounded, WFMin
<1>2. ASSUME NEW m \in S PROVE n <= m
  <2>1. ~ (<<m, n>> \in {pair \in Nat \X Nat : pair[1] < pair[2]})
    BY <1>1 DEF OpToRel
  <2> QED  BY <2>1
<1> QED  BY <1>2

(* Induction over the natural numbers, for a set instead of a predicate: the *)
(* provers cannot instantiate a theorem that takes an operator.              *)
LEMMA Induction ==
  ASSUME NEW S, 0 \in S, \A n \in Nat : n \in S => n + 1 \in S
  PROVE  \A n \in Nat : n \in S
<1> SUFFICES ASSUME NEW k \in Nat, k \notin S PROVE FALSE
  OBVIOUS
<1>1. PICK n \in Nat \ S : \A m \in Nat \ S : n <= m
  BY Minimum, Nat \ S # {}
<1>2. n # 0 /\ n - 1 \in Nat
  BY <1>1
<1>3. n - 1 \in S
  BY <1>1, <1>2
<1> QED  BY <1>1, <1>2, <1>3

-----------------------------------------------------------------------------
(* How terms and expressions nest. *)

(* The levels are what their recursive definition says.                      *)
LEMMA LevelsUnfold ==
  ASSUME NEW x
  PROVE  Levels(x) = [n \in 0 .. MaxNesting |->
                        IF n = 0 THEN {x} ELSE UNION {Parts(y) : y \in Levels(x)[n - 1]}]
<1> DEFINE step(f, n) == IF n = 0 THEN {x} ELSE UNION {Parts(y) : y \in f[n - 1]}
           S == {k \in Nat : \E f : f = [n \in 0 .. k |-> step(f, n)]}
<1>1. 0 \in S
  <2> DEFINE g == [n \in 0 .. 0 |-> {x}]
  <2>1. g = [n \in 0 .. 0 |-> step(g, n)]
    OBVIOUS
  <2> QED  BY <2>1
<1>2. ASSUME NEW k \in Nat, k \in S PROVE k + 1 \in S
  <2>1. PICK f : f = [n \in 0 .. k |-> step(f, n)]
    BY <1>2
  <2> DEFINE g == [n \in 0 .. k + 1 |-> step(f, n)]
  <2>2. ASSUME NEW n \in 0 .. k + 1 PROVE step(f, n) = step(g, n)
    <3>1. CASE n = 0
      BY <3>1
    <3>2. CASE n # 0
      <4>1. n - 1 \in 0 .. k /\ n - 1 \in 0 .. k + 1
        BY <3>2
      <4>2. g[n - 1] = step(f, n - 1) /\ f[n - 1] = step(f, n - 1)
        BY <2>1, <4>1
      <4>3. g[n - 1] = f[n - 1]
        BY <4>2
      <4> QED  BY <4>3
    <3> QED  BY <3>1, <3>2
  <2>3. g = [n \in 0 .. k + 1 |-> step(g, n)]
    <3> HIDE DEF step
    <3> QED  BY <2>2
  <2> HIDE DEF g
  <2> QED  BY <2>3
<1>3. MaxNesting \in S
  <2> HIDE DEF S
  <2> QED  BY <1>1, <1>2, Induction, NestingAssumption
<1>4. \E f : f = [n \in 0 .. MaxNesting |->
                    IF n = 0 THEN {x} ELSE UNION {Parts(y) : y \in f[n - 1]}]
  BY <1>3
<1> QED  BY <1>4 DEF Levels

(* Each level holds the parts of the one above it.                           *)
LEMMA LevelSteps ==
  ASSUME NEW x
  PROVE  /\ Levels(x)[0] = {x}
         /\ \A n \in 0 .. MaxNesting :
              n + 1 \in 0 .. MaxNesting => Levels(x)[n + 1] = UNION {Parts(y) : y \in Levels(x)[n]}
<1>1. Levels(x)[0] = {x}
  BY LevelsUnfold, NestingAssumption
<1>2. ASSUME NEW n \in 0 .. MaxNesting, n + 1 \in 0 .. MaxNesting
      PROVE  Levels(x)[n + 1] = UNION {Parts(y) : y \in Levels(x)[n]}
  <2> DEFINE level == Levels(x)
  <2>1. level = [i \in 0 .. MaxNesting |->
                   IF i = 0 THEN {x} ELSE UNION {Parts(y) : y \in level[i - 1]}]
    BY LevelsUnfold
  <2> HIDE DEF level
  <2>2. level[n + 1] = UNION {Parts(y) : y \in level[n + 1 - 1]}
    BY <1>2, <2>1
  <2>3. n + 1 - 1 = n
    OBVIOUS
  <2> QED  BY <2>2, <2>3 DEF level
<1> QED  BY <1>1, <1>2

(* The levels below something are those below its parts, one further down.   *)
LEMMA LevelsOfParts ==
  ASSUME NEW x, NEW n \in 0 .. MaxNesting, n + 1 \in 0 .. MaxNesting
  PROVE  Levels(x)[n + 1] = UNION {Levels(y)[n] : y \in Parts(x)}
<1> DEFINE S == {k \in Nat : k + 1 \in 0 .. MaxNesting =>
                               Levels(x)[k + 1] = UNION {Levels(y)[k] : y \in Parts(x)}}
<1>1. 0 \in S
  <2>1. \A y : Levels(y)[0] = {y}
    BY LevelSteps
  <2>2. UNION {Levels(y)[0] : y \in Parts(x)} = Parts(x)
    BY <2>1
  <2>3. ASSUME 0 + 1 \in 0 .. MaxNesting PROVE Levels(x)[0 + 1] = Parts(x)
    <3>1. Levels(x)[0 + 1] = UNION {Parts(y) : y \in Levels(x)[0]}
      BY <2>3, LevelSteps, NestingAssumption
    <3> QED  BY <3>1, <2>1
  <2> QED  BY <2>2, <2>3
<1>2. ASSUME NEW k \in Nat, k \in S PROVE k + 1 \in S
  <2> SUFFICES ASSUME k + 1 + 1 \in 0 .. MaxNesting
               PROVE  Levels(x)[k + 1 + 1] = UNION {Levels(y)[k + 1] : y \in Parts(x)}
    OBVIOUS
  <2>1. k \in 0 .. MaxNesting /\ k + 1 \in 0 .. MaxNesting
    BY NestingAssumption
  <2>2. Levels(x)[k + 1] = UNION {Levels(y)[k] : y \in Parts(x)}
    BY <1>2, <2>1
  <2>3. Levels(x)[k + 1 + 1] = UNION {Parts(z) : z \in Levels(x)[k + 1]}
    BY <2>1, LevelSteps
  <2>4. \A y : Levels(y)[k + 1] = UNION {Parts(z) : z \in Levels(y)[k]}
    BY <2>1, LevelSteps
  <2> QED  BY <2>2, <2>3, <2>4
<1>3. n \in S
  <2> HIDE DEF S
  <2> QED  BY <1>1, <1>2, Induction
<1> QED  BY <1>3

(* What nests at most n levels deep nests at most n + 1 levels deep. *)
LEMMA NestsDeeper ==
  ASSUME NEW x, NEW n \in 0 .. MaxNesting, n + 1 \in 0 .. MaxNesting, NestsAtMost(x, n)
  PROVE  Levels(x)[n + 1] = {} /\ NestsAtMost(x, n + 1)
<1>1. Levels(x)[n + 1] = UNION {Parts(y) : y \in Levels(x)[n]}
  BY LevelSteps
<1>2. \A y \in Levels(x)[n] : Parts(y) = {}
  BY DEF NestsAtMost
<1>3. Levels(x)[n + 1] = {}
  BY <1>1, <1>2
<1> QED  BY <1>3 DEF NestsAtMost

(* What nests at most n levels nests at most k of them, for any k from n on. *)
LEMMA NestsAsDeep ==
  ASSUME NEW x, NEW n \in 0 .. MaxNesting, NEW k \in n .. MaxNesting, NestsAtMost(x, n)
  PROVE  NestsAtMost(x, k)
<1> DEFINE S == {d \in Nat : n + d \in 0 .. MaxNesting => NestsAtMost(x, n + d)}
<1>1. 0 \in S
  OBVIOUS
<1>2. ASSUME NEW d \in Nat, d \in S PROVE d + 1 \in S
  <2> SUFFICES ASSUME n + (d + 1) \in 0 .. MaxNesting PROVE NestsAtMost(x, n + (d + 1))
    OBVIOUS
  <2>1. n + d \in 0 .. MaxNesting /\ n + (d + 1) = (n + d) + 1
    BY NestingAssumption
  <2> QED  BY <1>2, <2>1, NestsDeeper
<1>3. k - n \in Nat /\ n + (k - n) = k /\ k \in 0 .. MaxNesting
  BY NestingAssumption
<1>4. k - n \in S
  <2> HIDE DEF S
  <2> QED  BY <1>1, <1>2, <1>3, Induction
<1> QED  BY <1>3, <1>4

(* Something nests one level more than its parts.                            *)
LEMMA NestsAboveParts ==
  ASSUME NEW x, NEW n \in 0 .. MaxNesting, n + 1 \in 0 .. MaxNesting
  PROVE  NestsAtMost(x, n + 1) <=> \A y \in Parts(x) : NestsAtMost(y, n)
BY LevelsOfParts DEF NestsAtMost

(* The parts nest one level less than the whole.                             *)
LEMMA PartsNest ==
  ASSUME NEW x, NestsAtMost(x, MaxNesting), NEW y \in Parts(x)
  PROVE  NestsAtMost(y, MaxNesting) /\ Levels(y)[MaxNesting] = {}
<1>1. MaxNesting - 1 \in 0 .. MaxNesting
  <2>1. MaxNesting # 0
    BY LevelSteps, NestingAssumption DEF NestsAtMost
  <2> QED  BY <2>1, NestingAssumption
<1>2. (MaxNesting - 1) + 1 = MaxNesting /\ MaxNesting \in 0 .. MaxNesting
  BY NestingAssumption
<1>3. NestsAtMost(y, MaxNesting - 1)
  BY <1>1, <1>2, NestsAboveParts
<1> QED  BY <1>1, <1>2, <1>3, NestsDeeper

(* Within something lies what is on its levels: itself, and what lies within *)
(* its parts.                                                                *)
LEMMA WithinLevels ==
  ASSUME NEW x
  PROVE  Within(x) = UNION {Levels(x)[n] : n \in 0 .. MaxNesting}
<1>1. CASE Parts(x) = {}
  <2>1. Levels(x)[0] = {x} /\ 0 \in 0 .. MaxNesting
    BY LevelSteps, NestingAssumption
  <2>2. ASSUME NEW n \in 0 .. MaxNesting, n # 0 PROVE Levels(x)[n] = {}
    <3>1. n - 1 \in 0 .. MaxNesting /\ (n - 1) + 1 = n
      BY <2>2, NestingAssumption
    <3> QED  BY <1>1, <3>1, LevelsOfParts
  <2>3. UNION {Levels(x)[n] : n \in 0 .. MaxNesting} = {x}
    BY <2>1, <2>2
  <2> QED  BY <1>1, <2>3 DEF Within
<1>2. CASE Parts(x) # {}
  BY <1>2 DEF Within
<1> QED  BY <1>1, <1>2

(* What lies within a term or an expression is itself and what lies within   *)
(* its parts.                                                                *)
LEMMA WithinParts ==
  ASSUME NEW x, NestsAtMost(x, MaxNesting)
  PROVE  Within(x) = {x} \cup UNION {Within(y) : y \in Parts(x)}
<1>1. x \in Within(x)
  BY LevelSteps, WithinLevels, NestingAssumption
<1>2. ASSUME NEW y \in Parts(x), NEW z \in Within(y) PROVE z \in Within(x)
  <2>1. PICK n \in 0 .. MaxNesting : z \in Levels(y)[n]
    BY <1>2, WithinLevels
  <2>2. n # MaxNesting
    BY <2>1, PartsNest
  <2>3. n + 1 \in 0 .. MaxNesting
    BY <2>2, NestingAssumption
  <2>4. z \in Levels(x)[n + 1]
    BY <2>1, <2>3, LevelsOfParts
  <2> QED  BY <2>3, <2>4, WithinLevels
<1>3. ASSUME NEW z \in Within(x), z # x PROVE \E y \in Parts(x) : z \in Within(y)
  <2>1. PICK n \in 0 .. MaxNesting : z \in Levels(x)[n]
    BY <1>3, WithinLevels
  <2>2. n # 0
    BY <1>3, <2>1, LevelSteps
  <2>3. n - 1 \in 0 .. MaxNesting /\ (n - 1) + 1 = n
    BY <2>2, NestingAssumption
  <2>4. PICK y \in Parts(x) : z \in Levels(y)[n - 1]
    BY <2>1, <2>3, LevelsOfParts
  <2> QED  BY <2>3, <2>4, WithinLevels
<1> QED  BY <1>1, <1>2, <1>3

(* What lies within something that nests within the bound does so too, and   *)
(* what lies within that lies within the whole.                              *)
LEMMA WithinNests ==
  ASSUME NEW x, NestsAtMost(x, MaxNesting), NEW z \in Within(x)
  PROVE  NestsAtMost(z, MaxNesting) /\ Within(z) \subseteq Within(x)
<1> DEFINE S == {n \in Nat : n \in 0 .. MaxNesting =>
                   \A y \in Levels(x)[n] :
                     NestsAtMost(y, MaxNesting) /\ Within(y) \subseteq Within(x)}
<1>1. 0 \in S
  BY LevelSteps, NestingAssumption
<1>2. ASSUME NEW n \in Nat, n \in S PROVE n + 1 \in S
  <2> SUFFICES ASSUME n + 1 \in 0 .. MaxNesting, NEW y \in Levels(x)[n + 1]
               PROVE  NestsAtMost(y, MaxNesting) /\ Within(y) \subseteq Within(x)
    OBVIOUS
  <2>1. n \in 0 .. MaxNesting
    BY NestingAssumption
  <2>2. PICK w \in Levels(x)[n] : y \in Parts(w)
    BY <2>1, LevelSteps
  <2>3. NestsAtMost(w, MaxNesting) /\ Within(w) \subseteq Within(x)
    BY <1>2, <2>1, <2>2
  <2>4. Within(y) \subseteq Within(w)
    BY <2>2, <2>3, WithinParts
  <2> QED  BY <2>2, <2>3, <2>4, PartsNest
<1>3. \A n \in Nat : n \in S
  <2> HIDE DEF S
  <2> QED  BY <1>1, <1>2, Induction
<1> QED  BY <1>3, WithinLevels

(* The parts of what lies within lie within.                                 *)
LEMMA PartsWithin ==
  ASSUME NEW x, NestsAtMost(x, MaxNesting), NEW z \in Within(x)
  PROVE  Parts(z) \subseteq Within(x)
<1>1. NestsAtMost(z, MaxNesting) /\ Within(z) \subseteq Within(x)
  BY WithinNests
<1>2. ASSUME NEW y \in Parts(z) PROVE y \in Within(z)
  <2>1. y \in Within(y)
    BY <1>1, <1>2, PartsNest, WithinParts
  <2> QED  BY <1>1, <2>1, WithinParts
<1> QED  BY <1>1, <1>2

-----------------------------------------------------------------------------
(* What recurses over terms and expressions is defined wherever they nest    *)
(* within the bound, and unfolds to its own definition.                      *)

Value(x, m, value) == IF IsExpression(x) THEN Evaluated(x, m, value) ELSE Transformed(x, value)
AreValues(f, x, m) == f = [y \in Within(x) |-> Value(y, m, f)]

(* A value depends on the values of the parts only. *)
LEMMA ValueOfParts ==
  ASSUME NEW x, NEW m, NEW f, NEW g, \A y \in Parts(x) : f[y] = g[y]
  PROVE  Value(x, m, f) = Value(x, m, g)
<1>1. CASE IsExpression(x)
  <2>1. Parts(x) = Operands(x)
    BY <1>1 DEF Parts
  <2>2. ASSUME IsConstantQuad(x) PROVE f[TripleOf(x.term)] = g[TripleOf(x.term)]
    <3>1. TripleOf(x.term) \in Operands(x)
      BY <2>2 DEF Operands, IsConstantQuad
    <3> QED  BY <2>1, <3>1
  <2>3. ASSUME x.kind = "operator" PROVE evalFunction(x, m, f) = evalFunction(x, m, g)
    <3>1. \A i \in DOMAIN x.args : x.args[i] \in Operands(x)
      BY <2>3 DEF Operands, IsConstantQuad
    <3>2. [i \in DOMAIN x.args |-> f[x.args[i]]] = [i \in DOMAIN x.args |-> g[x.args[i]]]
      BY <2>1, <3>1
    <3> QED  BY <3>2 DEF evalFunction
  <2>4. Evaluated(x, m, f) = Evaluated(x, m, g)
    <3>1. CASE x.kind = "operator"
      BY <2>3, <3>1 DEF Evaluated
    <3>2. CASE x.kind = "term"
      BY <2>2, <3>2 DEF Evaluated
    <3>3. CASE x.kind \notin {"operator", "term"}
      BY <3>3 DEF Evaluated
    <3> QED  BY <3>1, <3>2, <3>3
  <2> QED  BY <1>1, <2>4 DEF Value
<1>2. CASE ~ IsExpression(x)
  <2>1. ASSUME x.termType = "quad" PROVE OfParts(x, f) = OfParts(x, g)
    <3>1. {x.subject, x.predicate, x.object, x.graph} = Parts(x)
      BY <1>2, <2>1 DEF Parts, PartsOfTerm
    <3> QED  BY <3>1 DEF OfParts
  <2>2. Transformed(x, f) = Transformed(x, g)
    BY <2>1 DEF Transformed
  <2> QED  BY <1>2, <2>2 DEF Value
<1> QED  BY <1>1, <1>2

(* There is a function that gives each term or expression within another its *)
(* value, when the whole nests within the bound: by induction over the       *)
(* levels, from the inside.                                                  *)
LEMMA ValuesExist ==
  ASSUME NEW x, NEW m, NestsAtMost(x, MaxNesting)
  PROVE  \E f : AreValues(f, x, m)
<1> DEFINE W(k) == {y \in Within(x) : NestsAtMost(y, k)}
           S == {k \in Nat : k \in 0 .. MaxNesting => \E f : f = [y \in W(k) |-> Value(y, m, f)]}
<1>1. 0 \in S
  <2> DEFINE g == [y \in W(0) |-> Value(y, m, <<>>)]
  <2>1. ASSUME NEW y \in W(0) PROVE Value(y, m, <<>>) = Value(y, m, g)
    <3>1. Parts(y) = {}
      BY LevelSteps DEF NestsAtMost
    <3> QED  BY <3>1, ValueOfParts
  <2>2. g = [y \in W(0) |-> Value(y, m, g)]
    BY <2>1
  <2> HIDE DEF g
  <2> QED  BY <2>2
<1>2. ASSUME NEW k \in Nat, k \in S PROVE k + 1 \in S
  <2> SUFFICES ASSUME k + 1 \in 0 .. MaxNesting
               PROVE  \E g : g = [y \in W(k + 1) |-> Value(y, m, g)]
    OBVIOUS
  <2>1. k \in 0 .. MaxNesting
    BY NestingAssumption
  <2>2. PICK f : f = [y \in W(k) |-> Value(y, m, f)]
    BY <1>2, <2>1
  <2> DEFINE g == [y \in W(k + 1) |-> Value(y, m, f)]
  <2>3. ASSUME NEW y \in W(k + 1), NEW z \in Parts(y) PROVE f[z] = g[z]
    <3>1. z \in Within(x)
      BY <2>3, PartsWithin
    <3>2. NestsAtMost(z, k)
      BY <2>1, <2>3, NestsAboveParts
    <3>3. NestsAtMost(z, k + 1)
      BY <2>1, <3>2, NestsDeeper
    <3>4. z \in W(k) /\ z \in W(k + 1)
      BY <3>1, <3>2, <3>3
    <3> HIDE DEF W
    <3> QED  BY <2>2, <3>4
  <2>4. ASSUME NEW y \in W(k + 1) PROVE Value(y, m, f) = Value(y, m, g)
    BY <2>3, ValueOfParts
  <2>5. g = [y \in W(k + 1) |-> Value(y, m, g)]
    BY <2>4
  <2> HIDE DEF g
  <2> QED  BY <2>5
<1>3. MaxNesting \in S
  <2> HIDE DEF S
  <2> QED  BY <1>1, <1>2, Induction, NestingAssumption
<1>4. W(MaxNesting) = Within(x)
  BY WithinNests
<1> QED  BY <1>3, <1>4, NestingAssumption DEF AreValues

(* The values within a part are the same, seen from the part or the whole.   *)
LEMMA ValuesAgree ==
  ASSUME NEW x, NEW m, NestsAtMost(x, MaxNesting), NEW y \in Parts(x),
         NEW f, AreValues(f, x, m), NEW g, AreValues(g, y, m)
  PROVE  f[y] = g[y]
<1> DEFINE S == {k \in Nat : k \in 0 .. MaxNesting =>
                   \A z \in Within(y) : NestsAtMost(z, k) => f[z] = g[z]}
<1>1. NestsAtMost(y, MaxNesting) /\ y \in Within(y)
  BY PartsNest, WithinParts
<1>2. Within(y) \subseteq Within(x)
  BY WithinParts
<1>3. \A z \in Within(y) : f[z] = Value(z, m, f) /\ g[z] = Value(z, m, g)
  BY <1>2 DEF AreValues
<1>4. 0 \in S
  <2> SUFFICES ASSUME NEW z \in Within(y), NestsAtMost(z, 0) PROVE f[z] = g[z]
    OBVIOUS
  <2>1. Parts(z) = {}
    BY LevelSteps DEF NestsAtMost
  <2> QED  BY <1>3, <2>1, ValueOfParts
<1>5. ASSUME NEW k \in Nat, k \in S PROVE k + 1 \in S
  <2> SUFFICES ASSUME k + 1 \in 0 .. MaxNesting, NEW z \in Within(y), NestsAtMost(z, k + 1)
               PROVE  f[z] = g[z]
    OBVIOUS
  <2>1. k \in 0 .. MaxNesting
    BY NestingAssumption
  <2>2. ASSUME NEW w \in Parts(z) PROVE f[w] = g[w]
    <3>1. w \in Within(y)
      BY <1>1, <2>2, PartsWithin
    <3>2. NestsAtMost(w, k)
      BY <2>1, <2>2, NestsAboveParts
    <3> QED  BY <1>5, <2>1, <3>1, <3>2
  <2> QED  BY <1>3, <2>2, ValueOfParts
<1>6. MaxNesting \in S
  <2> HIDE DEF S
  <2> QED  BY <1>4, <1>5, Induction, NestingAssumption
<1> QED  BY <1>1, <1>6, NestingAssumption

(* A term or an expression that nests within the bound.                      *)
IsTerm(x) == NestsAtMost(x, MaxNesting) /\ \A y \in Within(x) : ~ IsExpression(y)
IsWhole(x) == NestsAtMost(x, MaxNesting) /\ \A y \in Within(x) : IsExpression(y)

(* The conversion of a term is made of those of its parts, as the recursion  *)
(* of transformRDFTermUnsafe (TermTransformer.ts) says.                      *)
LEMMA transformTermUnfolds ==
  ASSUME NEW x, IsTerm(x)
  PROVE  transformTerm(x) = Transformed(x, [y \in Parts(x) |-> transformTerm(y)])
<1> PICK m : m = <<>>
  OBVIOUS
<1> DEFINE ofAll(f, z) == f = [y \in Within(z) |-> Transformed(y, f)]
           value(z) == CHOOSE f : ofAll(f, z)
<1>1. \A z : transformTerm(z) = value(z)[z]
  BY DEF transformTerm
<1>2. ASSUME NEW z, IsTerm(z) PROVE AreValues(value(z), z, m)
  <2>1. \A f : ofAll(f, z) <=> AreValues(f, z, m)
    BY <1>2 DEF IsTerm, Value, AreValues
  <2> HIDE DEF ofAll
  <2>2. \E f : AreValues(f, z, m)
    BY <1>2, ValuesExist DEF IsTerm
  <2> QED  BY <2>1, <2>2
<1> HIDE DEF value
<1>3. ASSUME NEW y \in Parts(x) PROVE value(x)[y] = transformTerm(y)
  <2>1. IsTerm(y) /\ NestsAtMost(x, MaxNesting)
    BY PartsNest, WithinParts DEF IsTerm
  <2>2. value(x)[y] = value(y)[y]
    BY <1>2, <2>1, ValuesAgree
  <2> QED  BY <1>1, <2>2
<1>4. x \in Within(x) /\ ~ IsExpression(x)
  BY WithinParts DEF IsTerm
<1>5. transformTerm(x) = Value(x, m, value(x))
  BY <1>1, <1>2, <1>4 DEF AreValues
<1>6. Value(x, m, value(x)) = Value(x, m, [y \in Parts(x) |-> transformTerm(y)])
  BY <1>3, ValueOfParts
<1> QED  BY <1>4, <1>5, <1>6 DEF Value

(* The outcome of an expression is made of those of its operands, as the     *)
(* recursion of evaluatorExpressionEvaluation (InternalEvaluator.ts) says.   *)
LEMMA EvaluateUnfolds ==
  ASSUME NEW x, NEW m, IsWhole(x)
  PROVE  Evaluate(x, m) = Evaluated(x, m, [y \in Parts(x) |-> Evaluate(y, m)])
<1> DEFINE ofAll(f, z) == f = [y \in Within(z) |-> Evaluated(y, m, f)]
           value(z) == CHOOSE f : ofAll(f, z)
<1>1. \A z : Evaluate(z, m) = value(z)[z]
  BY DEF Evaluate
<1>2. ASSUME NEW z, IsWhole(z) PROVE AreValues(value(z), z, m)
  <2>1. \A f : ofAll(f, z) <=> AreValues(f, z, m)
    BY <1>2 DEF IsWhole, Value, AreValues
  <2> HIDE DEF ofAll
  <2>2. \E f : AreValues(f, z, m)
    BY <1>2, ValuesExist DEF IsWhole
  <2> QED  BY <2>1, <2>2
<1> HIDE DEF value
<1>3. ASSUME NEW y \in Parts(x) PROVE value(x)[y] = Evaluate(y, m)
  <2>1. IsWhole(y) /\ NestsAtMost(x, MaxNesting)
    BY PartsNest, WithinParts DEF IsWhole
  <2>2. value(x)[y] = value(y)[y]
    BY <1>2, <2>1, ValuesAgree
  <2> QED  BY <1>1, <2>2
<1>4. x \in Within(x) /\ IsExpression(x)
  BY WithinParts DEF IsWhole
<1>5. Evaluate(x, m) = Value(x, m, value(x))
  BY <1>1, <1>2, <1>4 DEF AreValues
<1>6. Value(x, m, value(x)) = Value(x, m, [y \in Parts(x) |-> Evaluate(y, m)])
  BY <1>3, ValueOfParts
<1> QED  BY <1>4, <1>5, <1>6 DEF Value

-----------------------------------------------------------------------------
(* Outcomes and their boolean values. *)

(* A thrown error is one, and has no boolean value.                          *)
LEMMA ErrorIsError == \A name : IsError(Error(name)) /\ EBV(Error(name)) = "error"
BY DEF IsError, Error, EBV

(* There are three boolean values, and that of an error is "error".          *)
LEMMA EBVOfError ==
  ASSUME NEW outcome
  PROVE  /\ EBV(outcome) \in {"true", "false", "error"}
         /\ IsError(outcome) => EBV(outcome) = "error"
         /\ IsError(EBVError(outcome)) /\ EBV(EBVError(outcome)) = "error"
BY ErrorIsError DEF EBV, EBVError, coerceEBV

TruthOf(b) == IF b THEN "true" ELSE "false"

(* A boolean literal has the value it was made with.                         *)
LEMMA BoolOutcome ==
  ASSUME NEW b \in BOOLEAN
  PROVE  /\ ~ IsError(bool(b)) /\ bool(b).bool = b /\ IsTrue(bool(b)) = b
         /\ bool(b).termType = "literal"
         /\ coerceEBV(bool(b)) = TruthOf(b) /\ EBV(bool(b)) = TruthOf(b)
<1> DEFINE lit == Literal("boolean", IF b THEN <<"true">> ELSE <<"false">>, "boolean")
<1>1. bool(b) = [f \in DOMAIN lit \cup {"bool"} |-> IF f = "bool" THEN b ELSE lit[f]]
  BY DEF bool, BooleanLiteral, WithField
<1>2. /\ DOMAIN lit = {"termType", "class", "value", "dataType", "language", "direction"}
      /\ lit.termType = "literal" /\ lit.class = "boolean"
  BY DEF Literal
<1>3. /\ DOMAIN bool(b) =
           {"termType", "class", "value", "dataType", "language", "direction", "bool"}
      /\ bool(b).termType = "literal" /\ bool(b).class = "boolean" /\ bool(b).bool = b
  <2> HIDE DEF lit
  <2> QED  BY <1>1, <1>2
<1>4. ~ IsError(bool(b))
  BY <1>3 DEF IsError
<1>5. coerceEBV(bool(b)) = TruthOf(b)
  BY <1>3 DEF coerceEBV, NumericClasses, TruthOf
<1> QED  BY <1>3, <1>4, <1>5 DEF EBV, IsTrue

(* Of several outcomes, the first that is an error is reported. *)
LEMMA FirstErrorIsError ==
  ASSUME NEW S, NEW outcomes \in Seq(S), AnyError(outcomes)
  PROVE  IsError(FirstError(outcomes))
<1> DEFINE errors == {i \in DOMAIN outcomes : IsError(outcomes[i])}
<1>1. errors \in SUBSET Nat /\ errors # {} /\ DOMAIN outcomes = 1 .. Len(outcomes)
  BY DEF AnyError
<1>2. PICK i \in errors : \A j \in errors : i <= j
  <2> HIDE DEF errors
  <2> QED  BY <1>1, Minimum
<1>3. \A j \in 1 .. i - 1 : j \in DOMAIN outcomes /\ j \notin errors
  BY <1>1, <1>2
<1>4. \E k \in DOMAIN outcomes :
        IsError(outcomes[k]) /\ \A j \in 1 .. k - 1 : ~ IsError(outcomes[j])
  BY <1>2, <1>3
<1> QED  BY <1>4 DEF FirstError

(* && and || are the connectives of the three-valued logic. *)
Both(p, q) == IF "false" \in {p, q} THEN "false" ELSE IF "error" \in {p, q} THEN "error" ELSE "true"
Either(p, q) == IF "true" \in {p, q} THEN "true" ELSE IF "error" \in {p, q} THEN "error" ELSE "false"
Neither(p) == CASE p = "true" -> "false" [] p = "false" -> "true" [] OTHER -> "error"

(* The function of && has the table of AND of SPARQL.                        *)
LEMMA LogicalAndTable ==
  ASSUME NEW a, NEW b
  PROVE  EBV(ExpressionFunctionLogicalAnd(<<a, b>>)) = Both(EBV(a), EBV(b))
<1> DEFINE operands == <<a, b>>
<1>1. operands[1] = a /\ operands[2] = b
  OBVIOUS
<1>2. /\ EBV(bool(TRUE)) = "true" /\ EBV(bool(FALSE)) = "false"
      /\ EBV(bool(EBV(b) = "true")) = TruthOf(EBV(b) = "true")
  BY BoolOutcome DEF TruthOf
<1>3. \A o \in {a, b} : EBV(o) \in {"true", "false", "error"} /\ EBV(EBVError(o)) = "error"
  BY EBVOfError
<1> HIDE DEF operands
<1>4. EBV(ExpressionFunctionLogicalAnd(operands)) = Both(EBV(a), EBV(b))
  BY <1>1, <1>2, <1>3 DEF ExpressionFunctionLogicalAnd, Both, TruthOf
<1> QED  BY <1>4 DEF operands

(* The function of || has the table of OR of SPARQL.                         *)
LEMMA LogicalOrTable ==
  ASSUME NEW a, NEW b
  PROVE  EBV(ExpressionFunctionLogicalOr(<<a, b>>)) = Either(EBV(a), EBV(b))
<1> DEFINE operands == <<a, b>>
<1>1. operands[1] = a /\ operands[2] = b
  OBVIOUS
<1>2. /\ EBV(bool(TRUE)) = "true" /\ EBV(bool(FALSE)) = "false"
      /\ EBV(bool(EBV(b) = "true")) = TruthOf(EBV(b) = "true")
  BY BoolOutcome DEF TruthOf
<1>3. \A o \in {a, b} : EBV(o) \in {"true", "false", "error"} /\ EBV(EBVError(o)) = "error"
  BY EBVOfError
<1> HIDE DEF operands
<1>4. EBV(ExpressionFunctionLogicalOr(operands)) = Either(EBV(a), EBV(b))
  BY <1>1, <1>2, <1>3 DEF ExpressionFunctionLogicalOr, Either, TruthOf
<1> QED  BY <1>4 DEF operands

-----------------------------------------------------------------------------
(* Overload trees. *)

(* A path of a tree leads to one of the overloads that claim it: of those    *)
(* with the fewest promotions, there is one that was added last.             *)
LEMMA PathHasOverload ==
  ASSUME NEW S, \A overload \in S : IsFiniteSet(DOMAIN overload.types),
         NEW overloads \in Seq(S), NEW path \in DOMAIN addOverload(overloads)
  PROVE  \E k \in DOMAIN overloads : /\ path \in PathsTo(overloads[k].types)
                                     /\ addOverload(overloads)[path] = overloads[k]
<1> DEFINE claims == {k \in DOMAIN overloads : path \in PathsTo(overloads[k].types)}
           count(k) == promotionCount(path, overloads[k].types)
           best(k) == \A j \in claims : \/ count(k) < count(j)
                                        \/ count(k) = count(j) /\ k >= j
<1>1. claims # {} /\ claims \in SUBSET Nat /\ \A k \in claims : k <= Len(overloads)
  BY DEF addOverload
<1>2. Len(overloads) \in Nat
  OBVIOUS
<1>3. ASSUME NEW k \in claims PROVE count(k) \in Nat
  <2>1. IsFiniteSet(DOMAIN overloads[k].types)
    OBVIOUS
  <2>2. IsFiniteSet({i \in DOMAIN overloads[k].types : path[i] # overloads[k].types[i]})
    BY <2>1, FS_Subset
  <2> QED  BY <2>2, FS_CardinalityType DEF promotionCount
<1>4. addOverload(overloads)[path] = overloads[CHOOSE k \in claims : best(k)]
  BY DEF addOverload
<1> HIDE DEF claims, count
<1>5. PICK c \in {count(k) : k \in claims} : \A d \in {count(k) : k \in claims} : c <= d
  BY <1>1, <1>3, Minimum
<1> DEFINE last == {Len(overloads) - k : k \in {j \in claims : count(j) = c}}
<1>6. PICK l \in last : \A n \in last : l <= n
  <2>1. last \in SUBSET Nat /\ last # {}
    BY <1>1, <1>2, <1>5
  <2> HIDE DEF last
  <2> QED  BY <2>1, Minimum
<1>7. PICK k \in claims : count(k) = c /\ l = Len(overloads) - k
  BY <1>6
<1>8. ASSUME NEW j \in claims PROVE count(k) < count(j) \/ (count(k) = count(j) /\ k >= j)
  <2>1. c <= count(j) /\ c \in Nat /\ count(j) \in Nat
    BY <1>3, <1>5, <1>8
  <2>2. ASSUME count(j) = c PROVE k >= j
    <3>1. l <= Len(overloads) - j
      BY <1>6, <1>8, <2>2
    <3> QED  BY <1>1, <1>2, <1>7, <1>8, <3>1
  <2> QED  BY <1>7, <2>1, <2>2
<1>9. (CHOOSE n \in claims : best(n)) \in claims
  BY <1>8
<1> QED  BY <1>4, <1>9 DEF claims

(* A search ends at a path of the tree, or finds no implementation. *)
FoundAt(tree, path) == [types |-> tree[path].types, path |-> path, checked |-> tree[path].checked]

(* A search finds an overload of the tree, or fails.                         *)
LEMMA SearchFinds ==
  ASSUME NEW tree, NEW list
  PROVE  \/ search(tree, list) \in {NoImplementation, Crash}
         \/ \E path \in DOMAIN tree : search(tree, list) = FoundAt(tree, path)
BY DEF search, searchRanked, FoundAt

(* What calling an overload that a search found gives. *)
Given(found_, list) ==
    [i \in DOMAIN list |-> IF found_.path[i] = found_.types[i] THEN list[i]
                           ELSE conversionFunction(list[i], found_.types[i])]

(* The two failures of a search differ.                                      *)
LEMMA FailuresDiffer == NoImplementation # Crash
<1>1. NoImplementation.types[1] = "no implementation" /\ Crash.types[1] = "crash"
  BY DEF NoImplementation, Crash
<1>2. "no implementation" # "crash"
  OBVIOUS
<1> QED  BY <1>1, <1>2

(* An overload that was found is no failure.                                 *)
LEMMA FoundIsNoFailure ==
  ASSUME NEW tree, NEW path
  PROVE  FoundAt(tree, path) \notin {NoImplementation, Crash}
BY DEF FoundAt, NoImplementation, Crash

(* = either fails or says whether its arguments are equal. *)
Decided(outcome) == IsError(outcome) \/ \E b \in BOOLEAN : outcome = bool(b)

EqualityTypes == {NUMERIC, "string", "langString", STRINGLY, "boolean", "dateTime", "date",
                  "quad", "term", "duration", "time"}

(* Every overload of = takes two arguments of one type.                      *)
LEMMA EqualityOverloads ==
  ASSUME NEW path \in DOMAIN EqualityTree
  PROVE  \E type \in EqualityTypes : EqualityTree[path].types = Twice(type)
<1> DEFINE S == {On(Twice(type)) : type \in EqualityTypes}
                  \cup {Unchecked(Twice(type)) : type \in EqualityTypes}
           comparable ==
             <<NUMERIC, "string", "langString", STRINGLY, "boolean", "dateTime", "date">>
           overloads == OnTwice(comparable)
                          \o <<Unchecked(Twice("quad")), Unchecked(Twice("term"))>>
                          \o OnTwice(<<"duration", "time">>)
<1>1. ASSUME NEW types \in Seq(EqualityTypes) PROVE OnTwice(types) \in Seq(S)
  BY DEF OnTwice
<1>2. comparable \in Seq(EqualityTypes) /\ <<"duration", "time">> \in Seq(EqualityTypes)
  BY DEF EqualityTypes
<1>3. <<Unchecked(Twice("quad")), Unchecked(Twice("term"))>> \in Seq(S)
  BY DEF EqualityTypes
<1>4. OnTwice(comparable) \in Seq(S) /\ OnTwice(<<"duration", "time">>) \in Seq(S)
  BY <1>1, <1>2
<1>5. overloads \in Seq(S)
  <2> HIDE DEF S, comparable
  <2> QED  BY <1>3, <1>4
<1>6. ASSUME NEW overload \in S
      PROVE  \E type \in EqualityTypes : overload.types = Twice(type)
  BY DEF On, Unchecked
<1>7. ASSUME NEW overload \in S PROVE IsFiniteSet(DOMAIN overload.types)
  <2>1. PICK type : overload.types = <<type, type>>
    BY <1>6, <1>7 DEF Twice
  <2>2. IsFiniteSet(1 .. 2)
    <3>1. 1 \in Int /\ 2 \in Int
      OBVIOUS
    <3> QED  BY <3>1, FS_Interval, Zenon
  <2>3. DOMAIN overload.types = 1 .. 2
    BY <2>1
  <2> QED  BY <2>2, <2>3
<1>8. EqualityTree = addOverload(overloads)
  BY DEF EqualityTree
<1> HIDE DEF S, overloads
<1>9. PICK k \in DOMAIN overloads : EqualityTree[path] = overloads[k]
  BY <1>5, <1>7, <1>8, PathHasOverload
<1>10. overloads[k] \in S
  BY <1>5, <1>9
<1> QED  BY <1>6, <1>9, <1>10

(* = is decided whatever it takes the parts of quads to be.                  *)
LEMMA EqualityOfDecided ==
  ASSUME NEW list, NEW equality
  PROVE  Decided(EqualityOf(list, equality))
<1> DEFINE equal(a, i) == equality[a[1][Components[i]], a[2][Components[i]]]
           differing(a) == {i \in 1 .. 4 : ~ IsTrue(equal(a, i))}
           first(a) == CHOOSE i \in differing(a) : \A j \in differing(a) : i <= j
           quads(a) == IF differing(a) # {} /\ IsError(equal(a, first(a))) THEN equal(a, first(a))
                       ELSE bool(differing(a) = {})
           call(t, a) ==
             CASE t[1] = NUMERIC -> bool(NumEqual(a[1].num, a[2].num))
               [] t[1] = "string" -> bool(a[1].value = a[2].value)
               [] t[1] = "langString" ->
                    bool(a[1].value = a[2].value /\ a[1].language = a[2].language)
               [] t[1] = STRINGLY -> bool(FALSE)
               [] t[1] = "boolean" -> bool(a[1].bool = a[2].bool)
               [] t[1] \in DateClasses -> bool(UTC(a[1]) = UTC(a[2]))
               [] t[1] = "duration" -> bool(Months(a[1]) = Months(a[2])
                                              /\ Seconds(a[1]) = Seconds(a[2]))
               [] t[1] = "quad" -> quads(a)
               [] t[1] = "term" -> RDFEquals(a)
           choice == search(EqualityTree, list)
           given == Given(choice, list)
<1>1. \A b \in BOOLEAN : Decided(bool(b))
  BY DEF Decided
<1>2. \A name : Decided(Error(name))
  BY ErrorIsError DEF Decided
<1>3. ASSUME NEW a PROVE Decided(quads(a)) /\ Decided(RDFEquals(a))
  <2>1. Decided(quads(a))
    <3> HIDE DEF equal, differing, first
    <3> QED  BY <1>1 DEF Decided
  <2> QED  BY <1>1, <1>2, <2>1 DEF RDFEquals
<1>4. ASSUME NEW a, NEW type \in EqualityTypes PROVE Decided(call(Twice(type), a))
  <2>1. Twice(type)[1] = type
    BY DEF Twice
  <2>2. NumEqual(a[1].num, a[2].num) \in BOOLEAN
    BY DEF NumEqual
  <2> HIDE DEF quads
  <2> QED  BY <1>1, <1>3, <2>1, <2>2 DEF EqualityTypes, DateClasses, NUMERIC, STRINGLY
<1>5. EqualityOf(list, equality) =
        CASE choice = NoImplementation -> Error("InvalidArgumentTypes")
          [] choice = Crash -> Error("TypeError")
          [] choice \notin {NoImplementation, Crash} ->
               IF choice.checked THEN wrapInvalidLexicalProtected(call(choice.types, given), given)
                                 ELSE call(choice.types, given)
  BY DEF EqualityOf, applyOnTerms, Invoke, Given
<1> HIDE DEF call
<1>6. CASE choice \in {NoImplementation, Crash}
  <2> HIDE DEF choice, given
  <2> QED  BY <1>2, <1>5, <1>6, FailuresDiffer
<1>7. CASE choice \notin {NoImplementation, Crash}
  <2>1. PICK path \in DOMAIN EqualityTree : choice = FoundAt(EqualityTree, path)
    BY <1>7, SearchFinds
  <2>2. PICK type \in EqualityTypes : choice.types = Twice(type)
    BY <2>1, EqualityOverloads DEF FoundAt
  <2> HIDE DEF choice, given
  <2>3. Decided(call(choice.types, given))
    BY <1>4, <2>2
  <2>4. Decided(wrapInvalidLexicalProtected(call(choice.types, given), given))
    BY <1>2, <2>3 DEF wrapInvalidLexicalProtected
  <2> QED  BY <1>5, <1>7, <2>3, <2>4
<1> QED  BY <1>6, <1>7

(* = is decided for arguments that nest to any depth.                        *)
LEMMA EqualityDecided ==
  ASSUME NEW list
  PROVE  Decided(TermFunctionEquality(list))
<1> DEFINE equality == CHOOSE f : f = [x \in Within(list[1]), y \in Within(list[2]) |->
                                         EqualityOf(<<x, y>>, f)]
<1>1. TermFunctionEquality(list) = EqualityOf(list, equality)
  BY DEF TermFunctionEquality
<1> HIDE DEF equality
<1>2. Decided(EqualityOf(list, equality))
  BY EqualityOfDecided
<1> QED  BY <1>1, <1>2

-----------------------------------------------------------------------------
(* Functions that take terms of any kind. *)

(* No type is promoted to a term.                                            *)
LEMMA TermHasNoPromotion == Promotable("term") = {"term"}
BY DEF Promotable, KnownLiteralTypes, TypeAlias, TypeURL, DateTimeTypes, DurationTypes,
       StringTypes, IntegerTypes

(* The tree of a function with one overload, for terms of any kind, leads to *)
(* that overload only.                                                       *)
LEMMA OneOverloadForTerms ==
  ASSUME NEW types \in Seq({"term"}), NEW checked
  PROVE  addOverload(<<[types |-> types, checked |-> checked]>>)
           = [path \in {types} |-> [types |-> types, checked |-> checked]]
<1> DEFINE overload == [types |-> types, checked |-> checked]
           overloads == <<overload>>
           tree == addOverload(overloads)
<1>1. overloads \in Seq({overload}) /\ DOMAIN overloads = {1} /\ overloads[1] = overload
  OBVIOUS
<1>2. PathsTo(types) = {types}
  <2>1. \A i \in DOMAIN types : types[i] = "term"
    OBVIOUS
  <2>2. UNION {Promotable(types[i]) : i \in DOMAIN types} \subseteq {"term"}
        /\ \A i \in DOMAIN types : types[i] \in Promotable(types[i])
    BY <2>1, TermHasNoPromotion
  <2>3. types \in [DOMAIN types -> UNION {Promotable(types[i]) : i \in DOMAIN types}]
    BY <2>2
  <2>4. ASSUME NEW p \in PathsTo(types) PROVE p = types
    <3>1. p \in [DOMAIN types -> {"term"}] /\ types \in [DOMAIN types -> {"term"}]
      BY <2>1, <2>2, <2>4 DEF PathsTo
    <3> QED  BY <3>1
  <2> QED  BY <2>2, <2>3, <2>4 DEF PathsTo
<1>3. DOMAIN tree = {types}
  <2>1. DOMAIN tree = UNION {PathsTo(overloads[k].types) : k \in DOMAIN overloads}
    BY DEF addOverload
  <2> HIDE DEF tree
  <2> QED  BY <1>1, <1>2, <2>1
<1>4. tree[types] = overload
  <2>1. IsFiniteSet(DOMAIN types)
    <3>1. DOMAIN types = 1 .. Len(types) /\ Len(types) \in Int /\ 1 \in Int
      OBVIOUS
    <3>2. IsFiniteSet(1 .. Len(types))
      BY <3>1, FS_Interval, Zenon
    <3> QED  BY <3>1, <3>2
  <2>2. \A o \in {overload} : IsFiniteSet(DOMAIN o.types)
    BY <2>1
  <2>3. types \in DOMAIN addOverload(overloads)
    BY <1>3
  <2> HIDE DEF overloads
  <2>4. PICK k \in DOMAIN overloads : addOverload(overloads)[types] = overloads[k]
    BY <1>1, <2>2, <2>3, PathHasOverload
  <2> QED  BY <1>1, <2>4
<1>5. tree = [path \in DOMAIN tree |-> tree[path]]
  BY DEF addOverload
<1> HIDE DEF tree
<1> QED  BY <1>3, <1>4, <1>5 DEF tree

(* An outcome is an error or a term of one of the kinds. *)
GoodTerm(x) == ~ IsError(x) /\ x.termType \in TermTypes
Outcome(x) == IsError(x) \/ GoodTerm(x)

(* A term of any kind is found under "term", at no distance.                 *)
LEMMA AnyTermIsATerm ==
  ASSUME NEW x, x.termType \in TermTypes
  PROVE  "term" \in DOMAIN getSubTreeWithArg(x) /\ getSubTreeWithArg(x)["term"] = 0
BY DEF getSubTreeWithArg, TermTypes

(* A function that takes terms of any kind is given its one overload.        *)
LEMMA SearchForTerms ==
  ASSUME NEW types \in Seq({"term"}), NEW checked, NEW S, NEW list \in Seq(S),
         Len(list) = Len(types), \A i \in DOMAIN list : list[i].termType \in TermTypes
  PROVE  search(addOverload(<<[types |-> types, checked |-> checked]>>), list)
           = [types |-> types, path |-> types, checked |-> checked]
<1> DEFINE overload == [types |-> types, checked |-> checked]
           tree == [path \in {types} |-> overload]
           ranks == [i \in DOMAIN list |-> getSubTreeWithArg(list[i])]
           length == Len(ranks)
           reached == {p \in {SubSeq(q, 1, length) :
                                q \in {r \in DOMAIN tree : Len(r) >= length}} :
                         \A i \in 1 .. length : p[i] \in DOMAIN ranks[i]}
           before(p, q) == \E i \in 1 .. length :
                             /\ ranks[i][p[i]] < ranks[i][q[i]]
                             /\ \A j \in 1 .. i - 1 : p[j] = q[j]
           chosen == CHOOSE p \in reached : \A q \in reached : ~ before(p, q)
<1>1. length = Len(types) /\ length \in Nat /\ DOMAIN types = 1 .. length
      /\ DOMAIN ranks = 1 .. length
  <2>1. ranks \in Seq({getSubTreeWithArg(list[i]) : i \in DOMAIN list}) /\ Len(ranks) = Len(list)
    OBVIOUS
  <2> QED  BY <2>1
<1>2. \A i \in 1 .. length : types[i] = "term" /\ types[i] \in DOMAIN ranks[i]
                               /\ ranks[i][types[i]] = 0
  BY <1>1, AnyTermIsATerm
<1>3. SubSeq(types, 1, length) = types
  BY <1>1
<1>4. reached = {types}
  <2> HIDE DEF ranks, length
  <2> QED  BY <1>1, <1>2, <1>3
<1>5. ~ before(types, types)
  <2> HIDE DEF ranks, length
  <2> QED  BY <1>2
<1>6. chosen = types
  <2> HIDE DEF before
  <2> QED  BY <1>4, <1>5
<1>7. searchRanked(tree, ranks) =
        IF reached = {} \/ (length = 0 /\ <<>> \notin DOMAIN tree) THEN NoImplementation
        ELSE IF chosen \notin DOMAIN tree THEN Crash
        ELSE [types |-> tree[chosen].types, path |-> chosen, checked |-> tree[chosen].checked]
  BY DEF searchRanked
<1>8. length = 0 => <<>> \in DOMAIN tree
  BY <1>1
<1> HIDE DEF ranks, length, reached, chosen
<1>9. searchRanked(tree, ranks) = [types |-> types, path |-> types, checked |-> checked]
  BY <1>4, <1>6, <1>7, <1>8
<1> QED  BY <1>9, OneOverloadForTerms DEF search, ranks

(* Such a function is given its arguments as they are. *)
LEMMA NotOfTerm ==
  ASSUME NEW x, GoodTerm(x)
  PROVE  TermFunctionNot(<<x>>) = IF coerceEBV(x) = "error" THEN Error("EBVCoercionError")
                                  ELSE bool(coerceEBV(x) = "false")
<1> DEFINE list == <<x>>
           types == <<"term">>
           choice == search(TermTree, list)
           given == [i \in DOMAIN list |-> IF choice.path[i] = choice.types[i] THEN list[i]
                                           ELSE conversionFunction(list[i], choice.types[i])]
           negated(a) == IF coerceEBV(a[1]) = "error" THEN Error("EBVCoercionError")
                         ELSE bool(coerceEBV(a[1]) = "false")
<1>1. choice = [types |-> types, path |-> types, checked |-> FALSE]
  <2>1. TermTree = addOverload(<<[types |-> types, checked |-> FALSE]>>)
    BY DEF TermTree, Unchecked
  <2>2. types \in Seq({"term"}) /\ list \in Seq({x}) /\ Len(list) = Len(types)
        /\ \A i \in DOMAIN list : list[i].termType \in TermTypes
    BY DEF GoodTerm
  <2> QED  BY <2>1, <2>2, SearchForTerms
<1>2. choice = FoundAt([path \in {types} |-> [types |-> types, checked |-> FALSE]], types)
  BY <1>1 DEF FoundAt
<1>3. choice \notin {NoImplementation, Crash}
  BY <1>2, FoundIsNoFailure
<1>4. TermFunctionNot(list) =
        CASE choice = NoImplementation -> Error("InvalidArgumentTypes")
          [] choice = Crash -> Error("TypeError")
          [] choice \notin {NoImplementation, Crash} ->
               IF choice.checked THEN wrapInvalidLexicalProtected(negated(given), given)
                                 ELSE negated(given)
  BY DEF TermFunctionNot, applyOnTerms, Invoke
<1>5. given = list
  <2> HIDE DEF choice
  <2> QED  BY <1>1
<1> HIDE DEF choice, given, negated
<1>6. TermFunctionNot(list) = negated(list)
  BY <1>1, <1>3, <1>4, <1>5
<1> QED  BY <1>6 DEF negated

(* triple makes a quad of terms, unless the object is a literal of invalid   *)
(* form (TermFunctionTriple.ts, wrapInvalidLexicalProtected in Helpers.ts).  *)
LEMMA TripleOfTerms ==
  ASSUME NEW s, NEW p, NEW o, GoodTerm(s), GoodTerm(p), GoodTerm(o),
         s.termType \in {"namedNode", "blankNode"}, p.termType = "namedNode"
  PROVE  TermFunctionTriple(<<s, p, o>>) =
           IF o.termType = "literal" /\ o.class = "nonLexical" THEN Error("InvalidLexicalForm")
           ELSE Quad(s, p, o, DefaultGraph)
<1> DEFINE list == <<s, p, o>>
           types == <<"term", "term", "term">>
           choice == search(TripleTree, list)
           given == [i \in DOMAIN list |-> IF choice.path[i] = choice.types[i] THEN list[i]
                                           ELSE conversionFunction(list[i], choice.types[i])]
           triple(a) == IF a[1].termType \in {"namedNode", "blankNode"}
                           /\ a[2].termType = "namedNode"
                        THEN Quad(a[1], a[2], a[3], DefaultGraph) ELSE Error("ExpressionError")
<1>1. choice = [types |-> types, path |-> types, checked |-> TRUE]
  <2>1. TripleTree = addOverload(<<[types |-> types, checked |-> TRUE]>>)
    BY DEF TripleTree, On
  <2>2. types \in Seq({"term"}) /\ list \in Seq({s, p, o}) /\ Len(list) = Len(types)
        /\ \A i \in DOMAIN list : list[i].termType \in TermTypes
    BY DEF GoodTerm
  <2> HIDE DEF types, list
  <2> QED  BY <2>1, <2>2, SearchForTerms
<1>2. choice = FoundAt([path \in {types} |-> [types |-> types, checked |-> TRUE]], types)
  BY <1>1 DEF FoundAt
<1>3. choice \notin {NoImplementation, Crash}
  BY <1>2, FoundIsNoFailure
<1>4. TermFunctionTriple(list) =
        CASE choice = NoImplementation -> Error("InvalidArgumentTypes")
          [] choice = Crash -> Error("TypeError")
          [] choice \notin {NoImplementation, Crash} ->
               IF choice.checked THEN wrapInvalidLexicalProtected(triple(given), given)
                                 ELSE triple(given)
  BY DEF TermFunctionTriple, applyOnTerms, Invoke
<1>5. given = list
  <2> HIDE DEF choice
  <2> QED  BY <1>1
<1> HIDE DEF choice, given, triple
<1>6. TermFunctionTriple(list) = wrapInvalidLexicalProtected(triple(list), list)
  BY <1>1, <1>3, <1>4, <1>5
<1>7. (\E i \in DOMAIN list : list[i].termType = "literal" /\ list[i].class = "nonLexical")
        <=> (o.termType = "literal" /\ o.class = "nonLexical")
  OBVIOUS
<1>8. triple(list) = Quad(s, p, o, DefaultGraph)
  BY DEF triple
<1> HIDE DEF list
<1>9. TermFunctionTriple(list) =
        IF o.termType = "literal" /\ o.class = "nonLexical" THEN Error("InvalidLexicalForm")
        ELSE Quad(s, p, o, DefaultGraph)
  BY <1>6, <1>7, <1>8 DEF wrapInvalidLexicalProtected
<1> QED  BY <1>9 DEF list

-----------------------------------------------------------------------------
(* The actors that answer for a function. *)

(* An actor answers for the names it is dedicated to only.                   *)
LEMMA OnlyDedicated ==
  ASSUME NEW fn, NEW names, NEW list, NEW arity, NEW outcomes
  PROVE  /\ fn \notin names => DedicatedSet(fn, names, list, arity, outcomes) = {}
         /\ fn \in names /\ Len(list) \in arity =>
              DedicatedSet(fn, names, list, arity, outcomes) = outcomes
BY DEF DedicatedSet

(* Of all the actors for functions on terms, one answers for each of these.  *)
LEMMA OneActorAnswers ==
  ASSUME NEW fn \in {"!", "=", "triple"}, NEW list
  PROVE  applyTermFunction(fn, list)
           = FactoryTermNot(fn, list) \cup FactoryTermEquality(fn, list)
               \cup FactoryTermTriple(fn, list)
BY OnlyDedicated
   DEF applyTermFunction, Dedicated,
         FactoryTermAbs, FactoryTermAddition, FactoryTermCeil, FactoryTermContains,
         FactoryTermDatatype, FactoryTermDay, FactoryTermDivision,
         FactoryTermEncodeForUri, FactoryTermEquality, FactoryTermFloor,
         FactoryTermGreaterThan, FactoryTermGreaterThanEqual, FactoryTermHasLang,
         FactoryTermHasLangdir, FactoryTermHours, FactoryTermInequality, FactoryTermIri,
         FactoryTermIsBlank, FactoryTermIsIri, FactoryTermIsLiteral,
         FactoryTermIsNumeric, FactoryTermIsTriple, FactoryTermLang, FactoryTermLangdir,
         FactoryTermLangmatches, FactoryTermLcase, FactoryTermLesserThan,
         FactoryTermLesserThanEqual, FactoryTermMd5, FactoryTermMinutes,
         FactoryTermMonth, FactoryTermMultiplication, FactoryTermNot, FactoryTermNow,
         FactoryTermObject, FactoryTermPredicate, FactoryTermRand, FactoryTermRegex,
         FactoryTermReplace, FactoryTermRound, FactoryTermSeconds, FactoryTermSha1,
         FactoryTermSha256, FactoryTermSha384, FactoryTermSha512, FactoryTermStr,
         FactoryTermStrAfter, FactoryTermStrBefore, FactoryTermStrDt,
         FactoryTermStrEnds, FactoryTermStrLang, FactoryTermStrLangdir,
         FactoryTermStrLen, FactoryTermStrStarts, FactoryTermStrUuid, FactoryTermSubStr,
         FactoryTermSubject, FactoryTermSubtraction, FactoryTermTimezone,
         FactoryTermTriple, FactoryTermTz, FactoryTermUcase, FactoryTermUnaryMinus,
         FactoryTermUnaryPlus, FactoryTermUuid, FactoryTermXsdToBoolean,
         FactoryTermXsdToDate, FactoryTermXsdToDatetime,
         FactoryTermXsdToDayTimeDuration, FactoryTermXsdToDecimal,
         FactoryTermXsdToDouble, FactoryTermXsdToDuration, FactoryTermXsdToFloat,
         FactoryTermXsdToInteger, FactoryTermXsdToString, FactoryTermXsdToTime,
         FactoryTermXsdToYearMonthDuration, FactoryTermYear

(* One actor answers for each of the functions on terms that the forms use.  *)
LEMMA TermFunctionAnswers ==
  ASSUME NEW x, NEW y, NEW z
  PROVE  /\ applyTermFunction("!", <<x>>) = {TermFunctionNot(<<x>>)}
         /\ applyTermFunction("=", <<x, y>>) = {TermFunctionEquality(<<x, y>>)}
         /\ applyTermFunction("triple", <<x, y, z>>) = {TermFunctionTriple(<<x, y, z>>)}
<1>1. applyTermFunction("!", <<x>>) = {TermFunctionNot(<<x>>)}
  <2> DEFINE list == <<x>>
  <2>1. Len(list) \in {1}
    OBVIOUS
  <2> HIDE DEF list
  <2>2. FactoryTermNot("!", list) = {TermFunctionNot(list)}
    BY <2>1 DEF Dedicated, DedicatedSet, FactoryTermNot
  <2>3. FactoryTermEquality("!", list) = {}
    BY OnlyDedicated DEF Dedicated, FactoryTermEquality
  <2>4. FactoryTermTriple("!", list) = {}
    BY OnlyDedicated DEF Dedicated, FactoryTermTriple
  <2>5. applyTermFunction("!", list) = {TermFunctionNot(list)}
    BY <2>2, <2>3, <2>4, OneActorAnswers
  <2> QED  BY <2>5 DEF list
<1>2. applyTermFunction("=", <<x, y>>) = {TermFunctionEquality(<<x, y>>)}
  <2> DEFINE list == <<x, y>>
  <2>1. Len(list) \in {2}
    OBVIOUS
  <2> HIDE DEF list
  <2>2. FactoryTermEquality("=", list) = {TermFunctionEquality(list)}
    BY <2>1 DEF Dedicated, DedicatedSet, FactoryTermEquality
  <2>3. FactoryTermNot("=", list) = {}
    BY OnlyDedicated DEF Dedicated, FactoryTermNot
  <2>4. FactoryTermTriple("=", list) = {}
    BY OnlyDedicated DEF Dedicated, FactoryTermTriple
  <2>5. applyTermFunction("=", list) = {TermFunctionEquality(list)}
    BY <2>2, <2>3, <2>4, OneActorAnswers
  <2> QED  BY <2>5 DEF list
<1>3. applyTermFunction("triple", <<x, y, z>>) = {TermFunctionTriple(<<x, y, z>>)}
  <2> DEFINE list == <<x, y, z>>
  <2>1. Len(list) \in {3}
    OBVIOUS
  <2> HIDE DEF list
  <2>2. FactoryTermTriple("triple", list) = {TermFunctionTriple(list)}
    BY <2>1 DEF Dedicated, DedicatedSet, FactoryTermTriple
  <2>3. FactoryTermNot("triple", list) = {}
    BY OnlyDedicated DEF Dedicated, FactoryTermNot
  <2>4. FactoryTermEquality("triple", list) = {}
    BY OnlyDedicated DEF Dedicated, FactoryTermEquality
  <2>5. applyTermFunction("triple", list) = {TermFunctionTriple(list)}
    BY <2>2, <2>3, <2>4, OneActorAnswers
  <2> QED  BY <2>5 DEF list
<1> QED  BY <1>1, <1>2, <1>3

(* A function of the bus is only called when no argument failed. *)
LEMMA ProvidedAnswers ==
  ASSUME NEW x, NEW y, NEW z
  PROVE  /\ IsError(x) => IsError(Provided("!", <<x>>))
         /\ ~ IsError(x) => Provided("!", <<x>>) = TermFunctionNot(<<x>>)
         /\ IsError(x) \/ IsError(y) => IsError(Provided("=", <<x, y>>))
         /\ ~ (IsError(x) \/ IsError(y)) => Provided("=", <<x, y>>) = TermFunctionEquality(<<x, y>>)
         /\ IsError(x) \/ IsError(y) \/ IsError(z) => IsError(Provided("triple", <<x, y, z>>))
         /\ ~ (IsError(x) \/ IsError(y) \/ IsError(z)) =>
              Provided("triple", <<x, y, z>>) = TermFunctionTriple(<<x, y, z>>)
<1>1. /\ AnyError(<<x>>) <=> IsError(x)
      /\ AnyError(<<x, y>>) <=> IsError(x) \/ IsError(y)
      /\ AnyError(<<x, y, z>>) <=> IsError(x) \/ IsError(y) \/ IsError(z)
  BY DEF AnyError
<1>2. <<x>> \in Seq({x, y, z}) /\ <<x, y>> \in Seq({x, y, z}) /\ <<x, y, z>> \in Seq({x, y, z})
  OBVIOUS
<1>3. ASSUME NEW list \in Seq({x, y, z}), AnyError(list), NEW fn
      PROVE  IsError(Provided(fn, list))
  BY <1>3, FirstErrorIsError DEF Provided
<1>4. ASSUME NEW list, NEW fn, ~ AnyError(list), NEW outcome,
             applyTermFunction(fn, list) = {outcome}
      PROVE  Provided(fn, list) = outcome
  BY <1>4 DEF Provided
<1>5. IsError(x) => IsError(Provided("!", <<x>>))
  BY <1>1, <1>2, <1>3
<1>6. ~ IsError(x) => Provided("!", <<x>>) = TermFunctionNot(<<x>>)
  BY <1>1, <1>4, TermFunctionAnswers
<1>7. IsError(x) \/ IsError(y) => IsError(Provided("=", <<x, y>>))
  BY <1>1, <1>2, <1>3
<1>8. ~ (IsError(x) \/ IsError(y)) => Provided("=", <<x, y>>) = TermFunctionEquality(<<x, y>>)
  BY <1>1, <1>4, TermFunctionAnswers
<1>9. IsError(x) \/ IsError(y) \/ IsError(z) => IsError(Provided("triple", <<x, y, z>>))
  BY <1>1, <1>2, <1>3
<1>10. ~ (IsError(x) \/ IsError(y) \/ IsError(z)) =>
         Provided("triple", <<x, y, z>>) = TermFunctionTriple(<<x, y, z>>)
  BY <1>1, <1>4, TermFunctionAnswers
<1> QED  BY <1>5, <1>6, <1>7, <1>8, <1>9, <1>10

(* The functional forms have one actor each. *)
LEMMA FormAnswers ==
  ASSUME NEW list
  PROVE  /\ Len(list) = 2 => /\ applyForm("&&", list) = ExpressionFunctionLogicalAnd(list)
                             /\ applyForm("||", list) = ExpressionFunctionLogicalOr(list)
                             /\ applyForm("sameterm", list) = ExpressionFunctionSameTerm(list)
         /\ Len(list) = 3 => applyForm("if", list) = ExpressionFunctionIf(list)
         /\ Len(list) \in Nat => applyForm("coalesce", list) = ExpressionFunctionCoalesce(list)
         /\ Len(list) \in Nat \ {0} => /\ applyForm("in", list) = ExpressionFunctionIn(list)
                                       /\ applyForm("notin", list) = ExpressionFunctionNotIn(list)
<1> DEFINE answers(fn) == UNION {
             FactoryExpressionLogicalAnd(fn, list), FactoryExpressionLogicalOr(fn, list),
             FactoryExpressionIf(fn, list), FactoryExpressionCoalesce(fn, list),
             FactoryExpressionIn(fn, list), FactoryExpressionNotIn(fn, list),
             FactoryExpressionSameTerm(fn, list), FactoryExpressionConcat(fn, list),
             FactoryExpressionBnode(fn, list)}
<1>1. ASSUME NEW fn
      PROVE  /\ fn # "&&" => FactoryExpressionLogicalAnd(fn, list) = {}
             /\ fn # "||" => FactoryExpressionLogicalOr(fn, list) = {}
             /\ fn # "if" => FactoryExpressionIf(fn, list) = {}
             /\ fn # "coalesce" => FactoryExpressionCoalesce(fn, list) = {}
             /\ fn # "in" => FactoryExpressionIn(fn, list) = {}
             /\ fn # "notin" => FactoryExpressionNotIn(fn, list) = {}
             /\ fn # "sameterm" => FactoryExpressionSameTerm(fn, list) = {}
             /\ fn # "concat" => FactoryExpressionConcat(fn, list) = {}
             /\ fn # "bnode" => FactoryExpressionBnode(fn, list) = {}
  BY OnlyDedicated
     DEF Dedicated, FactoryExpressionLogicalAnd, FactoryExpressionLogicalOr,
         FactoryExpressionIf, FactoryExpressionCoalesce, FactoryExpressionIn,
         FactoryExpressionNotIn, FactoryExpressionSameTerm,
         FactoryExpressionConcat, FactoryExpressionBnode
<1>2. /\ Len(list) = 2 =>
           /\ FactoryExpressionLogicalAnd("&&", list) = {ExpressionFunctionLogicalAnd(list)}
           /\ FactoryExpressionLogicalOr("||", list) = {ExpressionFunctionLogicalOr(list)}
           /\ FactoryExpressionSameTerm("sameterm", list) = {ExpressionFunctionSameTerm(list)}
      /\ Len(list) = 3 => FactoryExpressionIf("if", list) = {ExpressionFunctionIf(list)}
      /\ Len(list) \in Nat =>
           FactoryExpressionCoalesce("coalesce", list) = {ExpressionFunctionCoalesce(list)}
      /\ Len(list) \in Nat \ {0} =>
           /\ FactoryExpressionIn("in", list) = {ExpressionFunctionIn(list)}
           /\ FactoryExpressionNotIn("notin", list) = {ExpressionFunctionNotIn(list)}
  BY DEF Dedicated, DedicatedSet, FactoryExpressionLogicalAnd, FactoryExpressionLogicalOr,
         FactoryExpressionIf, FactoryExpressionCoalesce, FactoryExpressionIn,
         FactoryExpressionNotIn, FactoryExpressionSameTerm
<1>3. /\ Len(list) = 2 => answers("&&") = {ExpressionFunctionLogicalAnd(list)}
      /\ Len(list) = 2 => answers("||") = {ExpressionFunctionLogicalOr(list)}
      /\ Len(list) = 3 => answers("if") = {ExpressionFunctionIf(list)}
      /\ Len(list) \in Nat => answers("coalesce") = {ExpressionFunctionCoalesce(list)}
      /\ Len(list) \in Nat \ {0} => answers("in") = {ExpressionFunctionIn(list)}
      /\ Len(list) \in Nat \ {0} => answers("notin") = {ExpressionFunctionNotIn(list)}
      /\ Len(list) = 2 => answers("sameterm") = {ExpressionFunctionSameTerm(list)}
  <2>1. \A fn : answers(fn) =
          FactoryExpressionLogicalAnd(fn, list) \cup FactoryExpressionLogicalOr(fn, list)
            \cup FactoryExpressionIf(fn, list) \cup FactoryExpressionCoalesce(fn, list)
            \cup FactoryExpressionIn(fn, list) \cup FactoryExpressionNotIn(fn, list)
            \cup FactoryExpressionSameTerm(fn, list) \cup FactoryExpressionConcat(fn, list)
            \cup FactoryExpressionBnode(fn, list)
    OBVIOUS
  <2> HIDE DEF answers
  <2> QED  BY <1>1, <1>2, <2>1
<1>4. \A fn : applyForm(fn, list) = CHOOSE outcome \in answers(fn) : TRUE
  BY DEF applyForm
<1> HIDE DEF answers
<1> QED  BY <1>3, <1>4

-----------------------------------------------------------------------------
(* Evaluation of expressions, from the outcomes of their operands. *)

(* An expression that nests at most n levels deep. *)
NestedExpression(x, n) == NestsAtMost(x, n) /\ \A y \in Within(x) : IsExpression(y)

(* An expression nested n levels is whole, and nested k levels for any k     *)
(* from n on.                                                                *)
LEMMA NestedIsWhole ==
  ASSUME NEW x, NEW n \in 0 .. MaxNesting, NestedExpression(x, n)
  PROVE  IsWhole(x) /\ \A k \in n .. MaxNesting : NestedExpression(x, k)
<1>1. \A k \in n .. MaxNesting : NestsAtMost(x, k)
  BY NestsAsDeep DEF NestedExpression
<1>2. MaxNesting \in n .. MaxNesting
  BY NestingAssumption
<1> QED  BY <1>1, <1>2 DEF NestedExpression, IsWhole

(* What a call consists of.                                                  *)
LEMMA ApplyFields ==
  ASSUME NEW fn, NEW list
  PROVE  /\ IsExpression(Apply(fn, list)) /\ Apply(fn, list).kind = "operator"
         /\ Apply(fn, list).operator = fn /\ Apply(fn, list).args = list
         /\ Parts(Apply(fn, list)) = {list[i] : i \in DOMAIN list}
<1>1. /\ IsExpression(Apply(fn, list)) /\ Apply(fn, list).kind = "operator"
      /\ Apply(fn, list).operator = fn /\ Apply(fn, list).args = list
  BY DEF Apply, IsExpression
<1> QED  BY <1>1 DEF Parts, Operands, IsConstantQuad

(* A call nests one level more than its arguments.                           *)
LEMMA ApplyNests ==
  ASSUME NEW fn, NEW list, NEW n \in 0 .. MaxNesting, n + 1 \in 0 .. MaxNesting,
         \A i \in DOMAIN list : NestedExpression(list[i], n)
  PROVE  NestedExpression(Apply(fn, list), n + 1)
<1> DEFINE x == Apply(fn, list)
<1>1. IsExpression(x) /\ Parts(x) = {list[i] : i \in DOMAIN list}
  BY ApplyFields
<1> HIDE DEF x
<1>2. NestsAtMost(x, n + 1)
  BY <1>1, NestsAboveParts DEF NestedExpression
<1>3. NestsAtMost(x, MaxNesting)
  BY <1>2, NestsAsDeep, NestingAssumption
<1>4. \A y \in Within(x) : IsExpression(y)
  BY <1>1, <1>3, WithinParts DEF NestedExpression
<1> QED  BY <1>2, <1>4 DEF NestedExpression, x

(* The outcome of a call is what its function makes of the outcomes of its   *)
(* arguments.                                                                *)
LEMMA EvaluateApply ==
  ASSUME NEW fn, NEW list, NEW m, NEW n \in 0 .. MaxNesting, NestedExpression(Apply(fn, list), n)
  PROVE  LET outcomes == [i \in DOMAIN list |-> Evaluate(list[i], m)]
         IN  Evaluate(Apply(fn, list), m) = CHOOSE outcome \in
               CASE fn \in Forms -> {applyForm(fn, outcomes)}
                 [] fn = "bound" -> FactoryExpressionBound(fn, list, m)
                 [] fn \in DOMAIN ExtensionFunctions -> FactoryExpressionExtensions(fn, outcomes)
                 [] OTHER -> {Provided(fn, outcomes)} : TRUE
<1> DEFINE x == Apply(fn, list)
           outcomes == [i \in DOMAIN list |-> Evaluate(list[i], m)]
           value == [y \in Parts(x) |-> Evaluate(y, m)]
<1>1. Evaluate(x, m) = Evaluated(x, m, value)
  <2>1. IsWhole(x)
    BY NestedIsWhole
  <2> QED  BY <2>1, EvaluateUnfolds
<1>2. x.kind = "operator" /\ x.operator = fn /\ x.args = list
      /\ Parts(x) = {list[i] : i \in DOMAIN list}
  BY ApplyFields
<1>3. [i \in DOMAIN list |-> value[list[i]]] = outcomes
  BY <1>2
<1> HIDE DEF x, value, outcomes
<1>4. Evaluated(x, m, value) = evalFunction(x, m, value)
  BY <1>2 DEF Evaluated
<1>5. evalFunction(x, m, value) = CHOOSE outcome \in
               CASE fn \in Forms -> {applyForm(fn, outcomes)}
                 [] fn = "bound" -> FactoryExpressionBound(fn, list, m)
                 [] fn \in DOMAIN ExtensionFunctions -> FactoryExpressionExtensions(fn, outcomes)
                 [] OTHER -> {Provided(fn, outcomes)} : TRUE
  BY <1>2, <1>3 DEF evalFunction
<1>6. Evaluate(x, m) = CHOOSE outcome \in
               CASE fn \in Forms -> {applyForm(fn, outcomes)}
                 [] fn = "bound" -> FactoryExpressionBound(fn, list, m)
                 [] fn \in DOMAIN ExtensionFunctions -> FactoryExpressionExtensions(fn, outcomes)
                 [] OTHER -> {Provided(fn, outcomes)} : TRUE
  BY <1>1, <1>4, <1>5
<1> QED  BY <1>6 DEF x, outcomes

(* A form and a function of the bus that no extension shadows. *)
LEMMA EvaluateForm ==
  ASSUME NEW fn \in Forms, NEW list, NEW m, NEW n \in 0 .. MaxNesting,
         NestedExpression(Apply(fn, list), n)
  PROVE  Evaluate(Apply(fn, list), m) = applyForm(fn, [i \in DOMAIN list |-> Evaluate(list[i], m)])
<1> DEFINE outcomes == [i \in DOMAIN list |-> Evaluate(list[i], m)]
<1>1. fn # "bound" /\ fn \notin DOMAIN ExtensionFunctions
  BY ExtensionAssumption DEF Forms
<1>2. Evaluate(Apply(fn, list), m) = CHOOSE outcome \in
               CASE fn \in Forms -> {applyForm(fn, outcomes)}
                 [] fn = "bound" -> FactoryExpressionBound(fn, list, m)
                 [] fn \in DOMAIN ExtensionFunctions -> FactoryExpressionExtensions(fn, outcomes)
                 [] OTHER -> {Provided(fn, outcomes)} : TRUE
  BY EvaluateApply
<1> HIDE DEF outcomes
<1>3. Evaluate(Apply(fn, list), m) = applyForm(fn, outcomes)
  BY <1>1, <1>2
<1> QED  BY <1>3 DEF outcomes

(* The outcome of a function on terms, when no extension has taken its name. *)
LEMMA EvaluateFunction ==
  ASSUME NEW fn \in {"!", "=", "triple"}, NEW list, NEW m, NEW n \in 0 .. MaxNesting,
         NestedExpression(Apply(fn, list), n)
  PROVE  Evaluate(Apply(fn, list), m) = Provided(fn, [i \in DOMAIN list |-> Evaluate(list[i], m)])
<1> DEFINE outcomes == [i \in DOMAIN list |-> Evaluate(list[i], m)]
<1>1. fn # "bound" /\ fn \notin Forms /\ fn \notin DOMAIN ExtensionFunctions
  BY ExtensionAssumption DEF Forms
<1>2. Evaluate(Apply(fn, list), m) = CHOOSE outcome \in
               CASE fn \in Forms -> {applyForm(fn, outcomes)}
                 [] fn = "bound" -> FactoryExpressionBound(fn, list, m)
                 [] fn \in DOMAIN ExtensionFunctions -> FactoryExpressionExtensions(fn, outcomes)
                 [] OTHER -> {Provided(fn, outcomes)} : TRUE
  BY EvaluateApply
<1> HIDE DEF outcomes
<1>3. Evaluate(Apply(fn, list), m) = Provided(fn, outcomes)
  BY <1>1, <1>2
<1> QED  BY <1>3 DEF outcomes

(* BOUND looks at the bindings only.                                         *)
LEMMA EvaluateBound ==
  ASSUME NEW v, NEW m, NEW n \in 0 .. MaxNesting,
         NestedExpression(Apply("bound", <<Variable(v)>>), n)
  PROVE  Evaluate(Apply("bound", <<Variable(v)>>), m) = bool(v \in DOMAIN m)
<1> DEFINE list == <<Variable(v)>>
           outcomes == [i \in DOMAIN list |-> Evaluate(list[i], m)]
<1>1. "bound" \notin Forms /\ "bound" \notin DOMAIN ExtensionFunctions
  BY ExtensionAssumption DEF Forms
<1>2. Evaluate(Apply("bound", list), m) = CHOOSE outcome \in
               CASE "bound" \in Forms -> {applyForm("bound", outcomes)}
                 [] "bound" = "bound" -> FactoryExpressionBound("bound", list, m)
                 [] "bound" \in DOMAIN ExtensionFunctions ->
                      FactoryExpressionExtensions("bound", outcomes)
                 [] OTHER -> {Provided("bound", outcomes)} : TRUE
  BY EvaluateApply
<1>3. Len(list) = 1 /\ list[1].kind = "variable" /\ list[1].name = v
  BY DEF Variable
<1> HIDE DEF list, outcomes
<1>4. FactoryExpressionBound("bound", list, m) = {bool(v \in DOMAIN m)}
  BY <1>3 DEF FactoryExpressionBound, Dedicated, DedicatedSet, ExpressionFunctionBound
<1>5. Evaluate(Apply("bound", list), m) = bool(v \in DOMAIN m)
  BY <1>1, <1>2, <1>4
<1> QED  BY <1>5 DEF list

(* The outcome of a variable is the term it is bound to, converted.          *)
LEMMA EvaluateVariable ==
  ASSUME NEW v, NEW m
  PROVE  /\ NestedExpression(Variable(v), 0)
         /\ Evaluate(Variable(v), m) = IF v \in DOMAIN m THEN transformTerm(m[v])
                                       ELSE Error("UnboundVariableError")
<1> DEFINE x == Variable(v)
<1>1. IsExpression(x) /\ x.kind = "variable" /\ x.name = v
  BY DEF Variable, IsExpression
<1>2. Parts(x) = {}
  BY <1>1 DEF Parts, Operands, IsConstantQuad
<1> HIDE DEF x
<1>3. Within(x) = {x}
  BY <1>2 DEF Within
<1>4. NestedExpression(x, 0)
  BY <1>1, <1>2, <1>3, LevelSteps DEF NestedExpression, NestsAtMost
<1>5. IsWhole(x)
  BY <1>4, NestedIsWhole, NestingAssumption
<1>6. Evaluate(x, m) = Evaluated(x, m, [y \in Parts(x) |-> Evaluate(y, m)])
  BY <1>5, EvaluateUnfolds
<1>7. Evaluate(x, m) = IF v \in DOMAIN m THEN transformTerm(m[v]) ELSE Error("UnboundVariableError")
  BY <1>1, <1>6 DEF Evaluated
<1> QED  BY <1>4, <1>7 DEF x

-----------------------------------------------------------------------------
(* The conversion of RDF terms. *)

(* The two ways to make a literal give terms of the evaluator.               *)
LEMMA LiteralFields ==
  ASSUME NEW class, NEW value, NEW dataType, NEW field \in {"num", "bool", "date", "dur"}, NEW v
  PROVE  /\ GoodTerm(Literal(class, value, dataType))
         /\ Literal(class, value, dataType).termType = "literal"
         /\ GoodTerm(WithField(Literal(class, value, dataType), field, v))
         /\ WithField(Literal(class, value, dataType), field, v).termType = "literal"
<1> DEFINE lit == Literal(class, value, dataType)
<1>1. /\ DOMAIN lit = {"termType", "class", "value", "dataType", "language", "direction"}
      /\ lit.termType = "literal"
  BY DEF Literal
<1> HIDE DEF lit
<1>2. WithField(lit, field, v) = [f \in DOMAIN lit \cup {field} |-> IF f = field THEN v ELSE lit[f]]
  BY DEF WithField
<1>3. /\ DOMAIN WithField(lit, field, v) = DOMAIN lit \cup {field}
      /\ WithField(lit, field, v).termType = lit.termType
  BY <1>1, <1>2
<1>4. GoodTerm(lit) /\ GoodTerm(WithField(lit, field, v))
  BY <1>1, <1>3 DEF GoodTerm, IsError, TermTypes
<1> QED  BY <1>1, <1>3, <1>4 DEF lit

IsLiteralTerm(x) == GoodTerm(x) /\ x.termType = "literal"

(* So do the classes of literals.                                            *)
LEMMA LiteralsAreTerms ==
  ASSUME NEW class, NEW value, NEW dataType, NEW language, NEW direction, NEW v
  PROVE  /\ IsLiteralTerm(Literal(class, value, dataType))
         /\ IsLiteralTerm(StringLiteral(value, dataType))
         /\ IsLiteralTerm(NonLexicalLiteral(dataType, value))
         /\ IsLiteralTerm(LangStringLiteral(value, language))
         /\ IsLiteralTerm(DirLangStringLiteral(value, language, direction))
         /\ IsLiteralTerm(NumericLiteral(class, v, dataType, value))
         /\ IsLiteralTerm(BooleanLiteral(v, value))
         /\ IsLiteralTerm(DateLiteral(class, v, value, dataType))
         /\ IsLiteralTerm(DurationLiteral(class, v, value, dataType))
<1>1. IsLiteralTerm(Literal(class, value, dataType))
  BY LiteralFields DEF IsLiteralTerm
<1>2. /\ IsLiteralTerm(StringLiteral(value, dataType))
      /\ IsLiteralTerm(NonLexicalLiteral(dataType, value))
      /\ IsLiteralTerm(NumericLiteral(class, v, dataType, value))
      /\ IsLiteralTerm(BooleanLiteral(v, value))
      /\ IsLiteralTerm(DateLiteral(class, v, value, dataType))
      /\ IsLiteralTerm(DurationLiteral(class, v, value, dataType))
  BY LiteralFields
     DEF IsLiteralTerm, StringLiteral, NonLexicalLiteral, NumericLiteral, BooleanLiteral,
         DateLiteral, DurationLiteral
<1>3. IsLiteralTerm(LangStringLiteral(value, language))
  BY DEF LangStringLiteral, Literal, IsLiteralTerm, GoodTerm, IsError, TermTypes
<1>4. IsLiteralTerm(DirLangStringLiteral(value, language, direction))
  BY DEF DirLangStringLiteral, Literal, IsLiteralTerm, GoodTerm, IsError, TermTypes
<1> QED  BY <1>1, <1>2, <1>3, <1>4

(* A literal is converted to a literal, whatever its datatype and its value. *)
LEMMA LiteralConverts ==
  ASSUME NEW lit
  PROVE  IsLiteralTerm(transformLiteral(lit))
<1> DEFINE types == SuperTypes[lit.dataType]
<1> DEFINE durationOf(class, form, parsed) ==
             IF form = NoForm \/ parsed = ParseError THEN NonLexicalLiteral(lit.dataType, lit.value)
             ELSE DurationLiteral(class, parsed, lit.value, lit.dataType)
           dateOf(class, form, parsed) ==
             IF form = NoForm \/ parsed = ParseError THEN NonLexicalLiteral(lit.dataType, lit.value)
             ELSE DateLiteral(class, parsed, lit.value, lit.dataType)
           spelled(spellings) == Read(spellings, lit.value)
           durationForm == spelled(DurationSpellings)
           yearMonth == durationOf("yearMonthDuration", durationForm, parseYearMonthDuration(durationForm))
           dayTime == durationOf("dayTimeDuration", durationForm, parseDayTimeDuration(durationForm))
           anyDuration == durationOf("duration", durationForm, parseDuration(durationForm))
           dateTime == dateOf("dateTime", spelled(DateTimeSpellings),
                              parseDateTime(spelled(DateTimeSpellings)))
           day == dateOf("date", spelled(DateSpellings), parseDate(spelled(DateSpellings)))
           time == dateOf("time", spelled(TimeSpellings), parseTime(spelled(TimeSpellings)))
           decimal == OrNotANumber(parseXSDDecimal(lit.value), lit,
                                   IF "integer" \in types THEN "integer" ELSE "decimal")
           float == OrNotANumber(parseXSDFloat(lit.value), lit,
                                 IF "float" \in types THEN "float" ELSE "double")
<1>2. transformLiteral(lit) =
        CASE "string" \in types -> StringLiteral(lit.value, lit.dataType)
          [] "langString" \in types -> LangStringLiteral(lit.value, lit.language)
          [] "dirLangString" \in types ->
               DirLangStringLiteral(lit.value, lit.language, lit.direction)
          [] "yearMonthDuration" \in types -> yearMonth
          [] "dayTimeDuration" \in types -> dayTime
          [] types \cap DurationTypes = {"duration"} -> anyDuration
          [] "dateTime" \in types -> dateTime
          [] "date" \in types -> day
          [] "time" \in types -> time
          [] "boolean" \in types ->
               IF lit.value \in {<<"true">>, <<"false">>, <<"1">>, <<"0">>}
               THEN BooleanLiteral(lit.value \in {<<"true">>, <<"1">>}, lit.value)
               ELSE NonLexicalLiteral(lit.dataType, lit.value)
          [] "decimal" \in types -> decimal
          [] types \cap {"float", "double"} # {} -> float
          [] OTHER -> Literal("other", lit.value, lit.dataType)
  BY DEF transformLiteral, OrNonLexical, Parsed
<1>3. /\ IsLiteralTerm(yearMonth) /\ IsLiteralTerm(dayTime) /\ IsLiteralTerm(anyDuration)
      /\ IsLiteralTerm(dateTime) /\ IsLiteralTerm(day) /\ IsLiteralTerm(time)
      /\ IsLiteralTerm(decimal) /\ IsLiteralTerm(float)
  BY LiteralsAreTerms DEF OrNotANumber
<1> HIDE DEF yearMonth, dayTime, anyDuration, dateTime, day, time, decimal, float, types
<1> QED  BY <1>2, <1>3, LiteralsAreTerms

(* An RDF term that nests within the bound, and so do its parts. *)
IsNestedRDFTerm(t) == NestsAtMost(t, MaxNesting) /\ \A y \in Within(t) : IsRDFTerm(y)

(* An RDF term is no expression and no error.                                *)
LEMMA RDFTermKinds ==
  ASSUME NEW t, IsRDFTerm(t)
  PROVE  /\ ~ IsExpression(t) /\ ~ IsError(t) /\ t.termType \in TermTypes
         /\ t.termType = "quad" => /\ t = Quad(t.subject, t.predicate, t.object, DefaultGraph)
                                   /\ t.graph = DefaultGraph
                                   /\ t.subject.termType \in {"namedNode", "blankNode"}
                                   /\ t.predicate.termType = "namedNode"
<1>1. CASE t.termType \in {"namedNode", "blankNode"}
  <2>1. t = [termType |-> t.termType, value |-> t.value]
    BY <1>1 DEF IsRDFTerm
  <2>2. DOMAIN t = {"termType", "value"}
    BY <2>1
  <2> QED  BY <1>1, <2>2 DEF IsExpression, IsError, TermTypes
<1>2. CASE t.termType = "literal"
  <2>1. t = RDFLiteral(t.value, t.dataType, t.language, t.direction)
    BY <1>2 DEF IsRDFTerm
  <2>2. DOMAIN t = {"termType", "value", "dataType", "language", "direction"}
    BY <2>1 DEF RDFLiteral
  <2> QED  BY <1>2, <2>2 DEF IsExpression, IsError, TermTypes
<1>3. CASE t.termType = "quad"
  <2>1. /\ t = Quad(t.subject, t.predicate, t.object, DefaultGraph)
        /\ t.subject.termType \in {"namedNode", "blankNode"} /\ t.predicate.termType = "namedNode"
    BY <1>3 DEF IsRDFTerm
  <2>2. DOMAIN t = {"termType", "subject", "predicate", "object", "graph"} /\ t.graph = DefaultGraph
    BY <2>1 DEF Quad
  <2> QED  BY <1>3, <2>1, <2>2 DEF IsExpression, IsError, TermTypes
<1>4. CASE t.termType \notin {"namedNode", "blankNode", "literal", "quad"}
  <2>1. t = DefaultGraph
    BY <1>4 DEF IsRDFTerm
  <2>2. DOMAIN t = {"termType"} /\ t.termType = "defaultGraph"
    BY <2>1 DEF DefaultGraph
  <2> QED  BY <1>4, <2>2 DEF IsExpression, IsError, TermTypes
<1> QED  BY <1>1, <1>2, <1>3, <1>4

(* The parts of an RDF term are RDF terms.                                   *)
LEMMA RDFTermIsTerm ==
  ASSUME NEW t, IsNestedRDFTerm(t)
  PROVE  IsTerm(t) /\ IsRDFTerm(t) /\ \A y \in Parts(t) : IsNestedRDFTerm(y)
<1>1. Within(t) = {t} \cup UNION {Within(y) : y \in Parts(t)}
  BY WithinParts DEF IsNestedRDFTerm
<1>2. IsTerm(t)
  BY RDFTermKinds DEF IsTerm, IsNestedRDFTerm
<1>3. \A y \in Parts(t) : NestsAtMost(y, MaxNesting)
  BY PartsNest DEF IsNestedRDFTerm
<1> QED  BY <1>1, <1>2, <1>3 DEF IsNestedRDFTerm

(* Only literals are changed by the conversion, alone or in quoted triples.  *)
LEMMA TransformedTerm ==
  ASSUME NEW t, IsNestedRDFTerm(t)
  PROVE  /\ GoodTerm(transformTerm(t))
         /\ t.termType \notin {"literal", "quad"} => transformTerm(t) = t
         /\ t.termType = "literal" => transformTerm(t) = transformLiteral(t)
         /\ t.termType = "quad" =>
              transformTerm(t) = Quad(t.subject, t.predicate, transformTerm(t.object), DefaultGraph)
<1>1. IsTerm(t) /\ IsRDFTerm(t)
  BY RDFTermIsTerm
<1>2. ASSUME NEW x, IsNestedRDFTerm(x), x.termType # "quad"
      PROVE  transformTerm(x) = IF x.termType = "literal" THEN transformLiteral(x) ELSE x
  <2>1. transformTerm(x) = Transformed(x, [y \in Parts(x) |-> transformTerm(y)])
    BY <1>2, RDFTermIsTerm, transformTermUnfolds
  <2> QED  BY <1>2, <2>1 DEF Transformed
<1>3. CASE t.termType \notin {"literal", "quad"}
  <2>1. transformTerm(t) = t
    BY <1>2, <1>3
  <2>2. GoodTerm(t)
    BY <1>1, RDFTermKinds DEF GoodTerm
  <2> QED  BY <1>3, <2>1, <2>2
<1>4. CASE t.termType = "literal"
  <2>1. transformTerm(t) = transformLiteral(t)
    BY <1>2, <1>4
  <2> QED  BY <1>4, <2>1, LiteralConverts DEF IsLiteralTerm
<1>5. CASE t.termType = "quad"
  <2>1. /\ t = Quad(t.subject, t.predicate, t.object, DefaultGraph) /\ t.graph = DefaultGraph
        /\ t.subject.termType \in {"namedNode", "blankNode"} /\ t.predicate.termType = "namedNode"
    BY <1>1, <1>5, RDFTermKinds
  <2>2. Parts(t) = {t.subject, t.predicate, t.object, t.graph}
    BY <1>1, <1>5, RDFTermKinds DEF Parts, PartsOfTerm
  <2>3. IsNestedRDFTerm(t.subject) /\ IsNestedRDFTerm(t.predicate) /\ IsNestedRDFTerm(t.graph)
    BY <2>2, RDFTermIsTerm
  <2>4. transformTerm(t.subject) = t.subject /\ transformTerm(t.predicate) = t.predicate
    BY <1>2, <2>1, <2>3
  <2>5. transformTerm(t.graph) = DefaultGraph
    <3>1. t.graph.termType = "defaultGraph"
      BY <2>1 DEF DefaultGraph
    <3> QED  BY <1>2, <2>1, <2>3, <3>1
  <2> DEFINE value == [y \in Parts(t) |-> transformTerm(y)]
  <2>6. /\ value[t.subject] = t.subject /\ value[t.predicate] = t.predicate
        /\ value[t.object] = transformTerm(t.object) /\ value[t.graph] = DefaultGraph
    BY <2>2, <2>4, <2>5
  <2>7. transformTerm(t) = Transformed(t, value)
    BY <1>1, transformTermUnfolds
  <2> HIDE DEF value
  <2>8. transformTerm(t) = Quad(t.subject, t.predicate, transformTerm(t.object), DefaultGraph)
    BY <1>5, <2>6, <2>7 DEF Transformed, OfParts
  <2>9. GoodTerm(Quad(t.subject, t.predicate, transformTerm(t.object), DefaultGraph))
    BY DEF Quad, GoodTerm, IsError, TermTypes
  <2> QED  BY <1>5, <2>8, <2>9
<1> QED  BY <1>3, <1>4, <1>5

-----------------------------------------------------------------------------
(* The constants of a query. *)

(* What a constant consists of: a quad becomes a call of triple.             *)
LEMMA ConstantFields ==
  ASSUME NEW t
  PROVE  /\ IsExpression(Constant(t)) /\ Constant(t).kind = "term" /\ Constant(t).term = t
         /\ Parts(Constant(t)) = IF t.termType = "quad" THEN {TripleOf(t)} ELSE {}
         /\ Parts(TripleOf(t)) = {Constant(t.subject), Constant(t.predicate), Constant(t.object)}
         /\ IsExpression(TripleOf(t))
<1>1. IsExpression(Constant(t)) /\ Constant(t).kind = "term" /\ Constant(t).term = t
  BY DEF Constant, IsExpression
<1>2. Parts(Constant(t)) = IF t.termType = "quad" THEN {TripleOf(t)} ELSE {}
  BY <1>1 DEF Parts, Operands, IsConstantQuad
<1> DEFINE list == <<Constant(t.subject), Constant(t.predicate), Constant(t.object)>>
<1>3. {list[i] : i \in DOMAIN list}
        = {Constant(t.subject), Constant(t.predicate), Constant(t.object)}
  <2>1. /\ DOMAIN list = {1, 2, 3}
        /\ list[1] = Constant(t.subject) /\ list[2] = Constant(t.predicate)
        /\ list[3] = Constant(t.object)
    OBVIOUS
  <2> HIDE DEF list
  <2> QED  BY <2>1
<1>4. TripleOf(t) = Apply("triple", list)
  BY DEF TripleOf
<1> HIDE DEF list
<1> QED  BY <1>1, <1>2, <1>3, <1>4, ApplyFields

(* All expressions within a constant are constants or calls of triple.       *)
LEMMA ConstantNests ==
  ASSUME NEW t, NEW n \in 0 .. MaxNesting, NestsAtMost(Constant(t), n)
  PROVE  NestedExpression(Constant(t), n)
<1> DEFINE OfConstants(y) == \E c : y = Constant(c) \/ y = TripleOf(c)
           x == Constant(t)
           S == {k \in Nat : k \in 0 .. MaxNesting => \A y \in Levels(x)[k] : OfConstants(y)}
<1>1. ASSUME NEW y, OfConstants(y)
      PROVE  IsExpression(y) /\ \A z \in Parts(y) : OfConstants(z)
  <2>1. PICK c : y = Constant(c) \/ y = TripleOf(c)
    BY <1>1
  <2>2. CASE y = Constant(c)
    BY <2>2, ConstantFields
  <2>3. CASE y = TripleOf(c)
    BY <2>3, ConstantFields
  <2> QED  BY <2>1, <2>2, <2>3
<1>2. OfConstants(x)
  OBVIOUS
<1> HIDE DEF OfConstants, x
<1>3. 0 \in S
  BY <1>2, LevelSteps
<1>4. ASSUME NEW k \in Nat, k \in S PROVE k + 1 \in S
  <2> SUFFICES ASSUME k + 1 \in 0 .. MaxNesting, NEW y \in Levels(x)[k + 1]
               PROVE  OfConstants(y)
    OBVIOUS
  <2>1. k \in 0 .. MaxNesting
    BY NestingAssumption
  <2>2. PICK z \in Levels(x)[k] : y \in Parts(z)
    BY <2>1, LevelSteps
  <2> QED  BY <1>1, <1>4, <2>1, <2>2
<1>5. \A k \in Nat : k \in S
  <2> HIDE DEF S
  <2> QED  BY <1>3, <1>4, Induction
<1>6. \A y \in Within(x) : IsExpression(y)
  BY <1>1, <1>5, WithinLevels
<1> QED  BY <1>6 DEF NestedExpression, x

IllTypedWithin(t) ==
    \E x \in Within(t) : x.termType = "literal" /\ transformLiteral(x).class = "nonLexical"
ConstantGives(t, m) ==
    /\ IllTyped(t) => IsError(Evaluate(Constant(t), m))
    /\ ~ IllTyped(t) => Evaluate(Constant(t), m) = transformTerm(t)

(* A constant that is no quad is the term it stands for.                     *)
LEMMA PlainConstant ==
  ASSUME NEW t, NEW m, t.termType # "quad", NestsAtMost(Constant(t), MaxNesting)
  PROVE  Evaluate(Constant(t), m) = transformTerm(t) /\ ~ IllTyped(t)
<1>1. IsWhole(Constant(t))
  BY ConstantNests, NestingAssumption DEF NestedExpression, IsWhole
<1>2. Evaluate(Constant(t), m)
        = Evaluated(Constant(t), m, [y \in Parts(Constant(t)) |-> Evaluate(y, m)])
  BY <1>1, EvaluateUnfolds
<1>3. Evaluate(Constant(t), m) = transformTerm(t)
  BY <1>2, ConstantFields DEF Evaluated, IsConstantQuad
<1> QED  BY <1>3 DEF IllTyped

(* A quad that is spelled out is evaluated as a call of the function triple. *)
LEMMA QuadConstant ==
  ASSUME NEW t, NEW m, t.termType = "quad", NestsAtMost(Constant(t), MaxNesting)
  PROVE  /\ NestsAtMost(Constant(t.subject), MaxNesting)
         /\ NestsAtMost(Constant(t.predicate), MaxNesting)
         /\ NestsAtMost(Constant(t.object), MaxNesting)
         /\ Evaluate(Constant(t), m) =
              Provided("triple", <<Evaluate(Constant(t.subject), m),
                                   Evaluate(Constant(t.predicate), m),
                                   Evaluate(Constant(t.object), m)>>)
<1> DEFINE list == <<Constant(t.subject), Constant(t.predicate), Constant(t.object)>>
           value == [y \in Parts(Constant(t)) |-> Evaluate(y, m)]
<1>1. Parts(Constant(t)) = {TripleOf(t)}
  BY ConstantFields
<1>2. NestsAtMost(TripleOf(t), MaxNesting)
  BY <1>1, PartsNest
<1>3. /\ NestsAtMost(Constant(t.subject), MaxNesting)
      /\ NestsAtMost(Constant(t.predicate), MaxNesting)
      /\ NestsAtMost(Constant(t.object), MaxNesting)
  BY <1>2, ConstantFields, PartsNest
<1>4. IsWhole(Constant(t))
  BY ConstantNests, NestingAssumption DEF NestedExpression, IsWhole
<1>5. Evaluate(Constant(t), m) = Evaluate(TripleOf(t), m)
  <2>1. Evaluate(Constant(t), m) = Evaluated(Constant(t), m, value)
    BY <1>4, EvaluateUnfolds
  <2>2. value[TripleOf(t)] = Evaluate(TripleOf(t), m)
    BY <1>1
  <2> HIDE DEF value
  <2> QED  BY <2>1, <2>2, ConstantFields DEF Evaluated, IsConstantQuad
<1>6. NestedExpression(TripleOf(t), MaxNesting)
  <2>1. TripleOf(t) \in Within(Constant(t)) /\ Within(TripleOf(t)) \subseteq Within(Constant(t))
    BY <1>1, <1>2, WithinParts
  <2> QED  BY <1>2, <1>4, <2>1 DEF NestedExpression, IsWhole
<1>7. TripleOf(t) = Apply("triple", list)
  BY DEF TripleOf
<1>8. Evaluate(TripleOf(t), m) = Provided("triple", [i \in DOMAIN list |-> Evaluate(list[i], m)])
  <2> HIDE DEF list
  <2>1. MaxNesting \in 0 .. MaxNesting
    BY NestingAssumption
  <2> QED  BY <1>6, <1>7, <2>1, EvaluateFunction
<1>9. [i \in DOMAIN list |-> Evaluate(list[i], m)]
        = <<Evaluate(Constant(t.subject), m), Evaluate(Constant(t.predicate), m),
            Evaluate(Constant(t.object), m)>>
  OBVIOUS
<1> QED  BY <1>3, <1>5, <1>8, <1>9

(* A constant quad gives the term it stands for if its object does.          *)
LEMMA ConstantOfParts ==
  ASSUME NEW t, NEW m, IsNestedRDFTerm(t), NestsAtMost(Constant(t), MaxNesting),
         t.termType = "quad" => ConstantGives(t.object, m)
  PROVE  ConstantGives(t, m)
<1>1. CASE t.termType # "quad"
  BY <1>1, PlainConstant DEF ConstantGives
<1>2. CASE t.termType = "quad"
  <2> DEFINE s == t.subject
             p == t.predicate
             o == t.object
             oValue == Evaluate(Constant(o), m)
  <2>1. IsRDFTerm(t) /\ NestsAtMost(t, MaxNesting) /\ ~ IsExpression(t)
    BY RDFTermIsTerm, RDFTermKinds DEF IsNestedRDFTerm
  <2>2. t.graph = DefaultGraph /\ s.termType \in {"namedNode", "blankNode"}
        /\ p.termType = "namedNode"
    BY <1>2, <2>1, RDFTermKinds
  <2>3. Parts(t) = {s, p, o, DefaultGraph}
    BY <1>2, <2>1, <2>2 DEF Parts, PartsOfTerm
  <2>4. IsNestedRDFTerm(s) /\ IsNestedRDFTerm(p) /\ IsNestedRDFTerm(o)
        /\ IsNestedRDFTerm(DefaultGraph)
    BY <2>3, RDFTermIsTerm
  <2>5. \A x \in {s, p, DefaultGraph} : x.termType \notin {"literal", "quad"}
    BY <2>2 DEF DefaultGraph
  <2>6. ASSUME NEW x, IsNestedRDFTerm(x), x.termType # "quad" PROVE Within(x) = {x}
    <3>1. ~ IsExpression(x)
      BY <2>6, RDFTermIsTerm, RDFTermKinds
    <3>2. Parts(x) = {}
      BY <2>6, <3>1 DEF Parts, PartsOfTerm
    <3> QED  BY <3>2 DEF Within
  <2>7. IllTyped(t) <=> IllTypedWithin(o)
    <3>1. Within(t) = {t} \cup UNION {Within(y) : y \in Parts(t)}
      BY <2>1, WithinParts
    <3>2. Within(s) = {s} /\ Within(p) = {p} /\ Within(DefaultGraph) = {DefaultGraph}
      BY <2>4, <2>5, <2>6
    <3>3. Within(t) = {t, s, p, DefaultGraph} \cup Within(o)
      BY <2>3, <3>1, <3>2
    <3> QED  BY <1>2, <2>5, <3>3 DEF IllTyped, IllTypedWithin
  <2>8. /\ o.termType = "quad" => (IllTyped(o) <=> IllTypedWithin(o))
        /\ o.termType # "quad" =>
             (IllTypedWithin(o) <=>
                o.termType = "literal" /\ transformLiteral(o).class = "nonLexical")
    BY <2>4, <2>6 DEF IllTyped, IllTypedWithin
  <2>9. Evaluate(Constant(s), m) = s /\ Evaluate(Constant(p), m) = p
    BY <1>2, <2>4, <2>5, QuadConstant, PlainConstant, TransformedTerm
  <2>10. Evaluate(Constant(t), m) = Provided("triple", <<s, p, oValue>>)
    BY <1>2, <2>9, QuadConstant
  <2>11. GoodTerm(s) /\ GoodTerm(p)
    BY <2>4, RDFTermIsTerm, RDFTermKinds DEF GoodTerm
  <2>12. CASE IllTyped(o)
    <3>1. IsError(oValue) /\ o.termType = "quad"
      BY <1>2, <2>12 DEF ConstantGives, IllTyped
    <3>2. IllTyped(t)
      BY <2>7, <2>8, <2>12, <3>1
    <3> HIDE DEF oValue
    <3>3. IsError(Evaluate(Constant(t), m))
      BY <2>10, <3>1, ProvidedAnswers
    <3> QED  BY <3>2, <3>3 DEF ConstantGives
  <2>13. CASE ~ IllTyped(o)
    <3>1. oValue = transformTerm(o) /\ GoodTerm(oValue)
      BY <1>2, <2>4, <2>13, TransformedTerm DEF ConstantGives
    <3>2. Evaluate(Constant(t), m) = TermFunctionTriple(<<s, p, oValue>>)
      <4> HIDE DEF oValue, s, p
      <4> QED  BY <2>10, <2>11, <3>1, ProvidedAnswers DEF GoodTerm
    <3>3. TermFunctionTriple(<<s, p, oValue>>) =
            IF oValue.termType = "literal" /\ oValue.class = "nonLexical"
            THEN Error("InvalidLexicalForm") ELSE Quad(s, p, oValue, DefaultGraph)
      <4> HIDE DEF oValue, s, p
      <4> QED  BY <2>2, <2>11, <3>1, TripleOfTerms
    <3>4. /\ o.termType = "literal" => oValue = transformLiteral(o) /\ oValue.termType = "literal"
          /\ o.termType = "quad" => oValue.termType = "quad"
          /\ o.termType \notin {"literal", "quad"} => oValue.termType \notin {"literal", "quad"}
      <4>1. o.termType = "quad" => oValue.termType = "quad"
        BY <2>4, <3>1, TransformedTerm DEF Quad
      <4>2. o.termType = "literal" => oValue = transformLiteral(o) /\ oValue.termType = "literal"
        BY <2>4, <3>1, TransformedTerm, LiteralConverts DEF IsLiteralTerm
      <4>3. o.termType \notin {"literal", "quad"} => oValue = o
        BY <2>4, <3>1, TransformedTerm
      <4> QED  BY <4>1, <4>2, <4>3
    <3>5. IllTyped(t) <=> oValue.termType = "literal" /\ oValue.class = "nonLexical"
      <4> HIDE DEF oValue
      <4> QED  BY <2>7, <2>8, <2>13, <3>4
    <3>6. transformTerm(t) = Quad(s, p, oValue, DefaultGraph)
      BY <1>2, <3>1, TransformedTerm
    <3> HIDE DEF oValue
    <3> QED  BY <3>2, <3>3, <3>5, <3>6, ErrorIsError DEF ConstantGives
  <2> QED  BY <2>12, <2>13
<1> QED  BY <1>1, <1>2

(* A term that a query spells out evaluates to what it converts to, but for  *)
(* a quoted triple with a literal of invalid form, which is an error.        *)
LEMMA ConstantEvaluates ==
  ASSUME NEW t, NEW m, IsNestedRDFTerm(t), NestsAtMost(Constant(t), MaxNesting)
  PROVE  ConstantGives(t, m)
<1> DEFINE Constants(k) == {x \in Within(t) : /\ IsNestedRDFTerm(x) /\ NestsAtMost(x, k)
                                              /\ NestsAtMost(Constant(x), MaxNesting)}
           S == {k \in Nat : k \in 0 .. MaxNesting => \A x \in Constants(k) : ConstantGives(x, m)}
<1>1. \A x : x.termType = "quad" /\ IsNestedRDFTerm(x) => x.object \in Parts(x)
  BY RDFTermIsTerm, RDFTermKinds DEF Parts, PartsOfTerm
<1>2. 0 \in S
  <2> SUFFICES ASSUME NEW x \in Constants(0) PROVE ConstantGives(x, m)
    OBVIOUS
  <2>1. Parts(x) = {}
    BY LevelSteps DEF NestsAtMost
  <2> QED  BY <1>1, <2>1, ConstantOfParts
<1>3. ASSUME NEW k \in Nat, k \in S PROVE k + 1 \in S
  <2> SUFFICES ASSUME k + 1 \in 0 .. MaxNesting, NEW x \in Constants(k + 1)
               PROVE  ConstantGives(x, m)
    OBVIOUS
  <2>1. k \in 0 .. MaxNesting
    BY NestingAssumption
  <2>2. ASSUME x.termType = "quad" PROVE ConstantGives(x.object, m)
    <3>1. x.object \in Parts(x)
      BY <1>1, <2>2
    <3>2. IsNestedRDFTerm(x.object) /\ NestsAtMost(x.object, k)
      BY <2>1, <3>1, RDFTermIsTerm, NestsAboveParts
    <3>3. NestsAtMost(Constant(x.object), MaxNesting)
      BY <2>2, QuadConstant
    <3>4. x.object \in Within(t)
      BY <3>1, PartsWithin DEF IsNestedRDFTerm
    <3>5. x.object \in Constants(k)
      BY <3>2, <3>3, <3>4
    <3> HIDE DEF Constants
    <3> QED  BY <1>3, <2>1, <3>5
  <2> QED  BY <2>2, ConstantOfParts
<1>4. MaxNesting \in S
  <2> HIDE DEF S
  <2> QED  BY <1>2, <1>3, Induction, NestingAssumption
<1>5. t \in Constants(MaxNesting)
  BY WithinParts DEF IsNestedRDFTerm
<1> HIDE DEF Constants
<1> QED  BY <1>4, <1>5, NestingAssumption

-----------------------------------------------------------------------------
(* The functional forms. *)

(* A boolean is a term of the evaluator.                                     *)
LEMMA BoolIsOutcome ==
  ASSUME NEW b \in BOOLEAN
  PROVE  GoodTerm(bool(b))
BY BoolOutcome DEF GoodTerm, TermTypes

(* The connectives give terms or errors.                                     *)
LEMMA ConnectivesGiveOutcomes ==
  ASSUME NEW a, NEW b
  PROVE  /\ Outcome(ExpressionFunctionLogicalAnd(<<a, b>>))
         /\ Outcome(ExpressionFunctionLogicalOr(<<a, b>>))
<1> DEFINE list == <<a, b>>
<1>1. \A c \in BOOLEAN : Outcome(bool(c))
  BY BoolIsOutcome DEF Outcome
<1>2. \A o : Outcome(EBVError(o))
  BY EBVOfError DEF Outcome
<1>3. (EBV(list[2]) = "true") \in BOOLEAN
  OBVIOUS
<1> HIDE DEF list
<1>4. Outcome(ExpressionFunctionLogicalAnd(list))
  BY <1>1, <1>2, <1>3 DEF ExpressionFunctionLogicalAnd
<1>5. Outcome(ExpressionFunctionLogicalOr(list))
  BY <1>1, <1>2, <1>3 DEF ExpressionFunctionLogicalOr
<1> QED  BY <1>4, <1>5 DEF list

(* && of expressions has the table of AND.                                   *)
LEMMA AndGives ==
  ASSUME NEW a, NEW b, NEW m, NEW n \in 0 .. MaxNesting, n + 1 \in 0 .. MaxNesting,
         NestedExpression(a, n), NestedExpression(b, n)
  PROVE  /\ NestedExpression(And(a, b), n + 1) /\ Outcome(Evaluate(And(a, b), m))
         /\ EBV(Evaluate(And(a, b), m)) = Both(EBV(Evaluate(a, m)), EBV(Evaluate(b, m)))
<1> DEFINE list == <<a, b>>
           outcomes == [i \in DOMAIN list |-> Evaluate(list[i], m)]
<1>1. NestedExpression(Apply("&&", list), n + 1)
  BY ApplyNests
<1>2. Evaluate(Apply("&&", list), m) = applyForm("&&", outcomes)
  BY <1>1, EvaluateForm DEF Forms
<1>3. outcomes = <<Evaluate(a, m), Evaluate(b, m)>> /\ Len(<<Evaluate(a, m), Evaluate(b, m)>>) = 2
  OBVIOUS
<1> HIDE DEF list, outcomes
<1>4. Evaluate(Apply("&&", list), m)
        = ExpressionFunctionLogicalAnd(<<Evaluate(a, m), Evaluate(b, m)>>)
  BY <1>2, <1>3, FormAnswers
<1>5. And(a, b) = Apply("&&", list)
  BY DEF And, list
<1> QED  BY <1>1, <1>4, <1>5, LogicalAndTable, ConnectivesGiveOutcomes

(* || of expressions has the table of OR.                                    *)
LEMMA OrGives ==
  ASSUME NEW a, NEW b, NEW m, NEW n \in 0 .. MaxNesting, n + 1 \in 0 .. MaxNesting,
         NestedExpression(a, n), NestedExpression(b, n)
  PROVE  /\ NestedExpression(OrElse(a, b), n + 1) /\ Outcome(Evaluate(OrElse(a, b), m))
         /\ EBV(Evaluate(OrElse(a, b), m)) = Either(EBV(Evaluate(a, m)), EBV(Evaluate(b, m)))
<1> DEFINE list == <<a, b>>
           outcomes == [i \in DOMAIN list |-> Evaluate(list[i], m)]
<1>1. NestedExpression(Apply("||", list), n + 1)
  BY ApplyNests
<1>2. Evaluate(Apply("||", list), m) = applyForm("||", outcomes)
  BY <1>1, EvaluateForm DEF Forms
<1>3. outcomes = <<Evaluate(a, m), Evaluate(b, m)>> /\ Len(<<Evaluate(a, m), Evaluate(b, m)>>) = 2
  OBVIOUS
<1> HIDE DEF list, outcomes
<1>4. Evaluate(Apply("||", list), m)
        = ExpressionFunctionLogicalOr(<<Evaluate(a, m), Evaluate(b, m)>>)
  BY <1>2, <1>3, FormAnswers
<1>5. OrElse(a, b) = Apply("||", list)
  BY DEF OrElse, list
<1> QED  BY <1>1, <1>4, <1>5, LogicalOrTable, ConnectivesGiveOutcomes

(* ! of an expression turns its boolean value around, and keeps an error.    *)
LEMMA NotGives ==
  ASSUME NEW a, NEW m, NEW n \in 0 .. MaxNesting, n + 1 \in 0 .. MaxNesting,
         NestedExpression(a, n), Outcome(Evaluate(a, m))
  PROVE  /\ NestedExpression(Not(a), n + 1) /\ Outcome(Evaluate(Not(a), m))
         /\ EBV(Evaluate(Not(a), m)) = Neither(EBV(Evaluate(a, m)))
<1> DEFINE list == <<a>>
           outcomes == [i \in DOMAIN list |-> Evaluate(list[i], m)]
           x == Evaluate(a, m)
<1>1. NestedExpression(Apply("!", list), n + 1)
  BY ApplyNests
<1>2. Evaluate(Apply("!", list), m) = Provided("!", outcomes)
  BY <1>1, EvaluateFunction
<1>3. outcomes = <<x>> /\ Not(a) = Apply("!", list)
  BY DEF Not
<1> HIDE DEF list, outcomes, x
<1>4. Evaluate(Not(a), m) = Provided("!", <<x>>)
  BY <1>2, <1>3
<1>5. CASE IsError(x)
  BY <1>1, <1>3, <1>4, <1>5, ProvidedAnswers DEF Outcome, EBV, Neither, x
<1>6. CASE ~ IsError(x)
  <2>1. GoodTerm(x)
    BY <1>6 DEF Outcome, x
  <2>2. Evaluate(Not(a), m) = IF coerceEBV(x) = "error" THEN Error("EBVCoercionError")
                              ELSE bool(coerceEBV(x) = "false")
    BY <1>4, <1>6, <2>1, ProvidedAnswers, NotOfTerm
  <2>3. EBV(x) = coerceEBV(x) /\ EBV(x) \in {"true", "false", "error"}
    BY <1>6, EBVOfError DEF EBV
  <2>4. CASE EBV(x) = "error"
    <3>1. Evaluate(Not(a), m) = Error("EBVCoercionError")
      BY <2>2, <2>3, <2>4
    <3> QED  BY <1>1, <1>3, <2>4, <3>1, ErrorIsError DEF Outcome, Neither, x
  <2>5. CASE EBV(x) # "error"
    <3> DEFINE b == EBV(x) = "false"
    <3>1. Evaluate(Not(a), m) = bool(b) /\ b \in BOOLEAN
      BY <2>2, <2>3, <2>5
    <3>2. EBV(bool(b)) = TruthOf(b) /\ Outcome(bool(b))
      BY BoolOutcome, BoolIsOutcome DEF Outcome
    <3>3. TruthOf(b) = Neither(EBV(x))
      BY <2>3, <2>5 DEF TruthOf, Neither
    <3> HIDE DEF b
    <3> QED  BY <1>1, <1>3, <3>1, <3>2, <3>3 DEF x
  <2> QED  BY <2>4, <2>5
<1> QED  BY <1>5, <1>6

(* IF only looks at the branch it takes, and COALESCE at the first argument  *)
(* that evaluates.                                                           *)
LEMMA IfGives ==
  ASSUME NEW a, NEW b, NEW m, 1 \in 0 .. MaxNesting,
         NestedExpression(a, 0), NestedExpression(b, 0)
  PROVE  EBV(Evaluate(Apply("if", <<a, b, b>>), m))
           = IF EBV(Evaluate(a, m)) = "error" THEN "error" ELSE EBV(Evaluate(b, m))
<1> DEFINE list == <<a, b, b>>
           outcomes == [i \in DOMAIN list |-> Evaluate(list[i], m)]
<1>1. NestedExpression(Apply("if", list), 1)
  <2>1. \A i \in DOMAIN list : NestedExpression(list[i], 0)
    OBVIOUS
  <2>2. 0 \in 0 .. MaxNesting /\ 0 + 1 = 1
    BY NestingAssumption
  <2> HIDE DEF list
  <2> QED  BY <2>1, <2>2, ApplyNests
<1>2. Evaluate(Apply("if", list), m) = applyForm("if", outcomes)
  BY <1>1, EvaluateForm DEF Forms
<1>3. /\ Len(outcomes) = 3 /\ outcomes[1] = Evaluate(a, m)
      /\ outcomes[2] = Evaluate(b, m) /\ outcomes[3] = Evaluate(b, m)
  <2>1. outcomes = <<Evaluate(a, m), Evaluate(b, m), Evaluate(b, m)>>
    OBVIOUS
  <2> HIDE DEF outcomes
  <2> QED  BY <2>1
<1> HIDE DEF outcomes
<1>4. Evaluate(Apply("if", list), m) = ExpressionFunctionIf(outcomes)
  BY <1>2, <1>3, FormAnswers
<1>5. EBV(Evaluate(a, m)) \in {"true", "false", "error"}
  BY EBVOfError
<1>6. EBV(ExpressionFunctionIf(outcomes))
        = IF EBV(Evaluate(a, m)) = "error" THEN "error" ELSE EBV(Evaluate(b, m))
  BY <1>3, <1>5, EBVOfError DEF ExpressionFunctionIf
<1> QED  BY <1>4, <1>6

(* COALESCE takes the first argument that is no error.                       *)
LEMMA CoalesceGives ==
  ASSUME NEW a, NEW b, NEW m, 1 \in 0 .. MaxNesting,
         NestedExpression(a, 0), NestedExpression(b, 0)
  PROVE  EBV(Evaluate(Apply("coalesce", <<a, b>>), m))
           = EBV(IF IsError(Evaluate(a, m)) THEN Evaluate(b, m) ELSE Evaluate(a, m))
<1> DEFINE list == <<a, b>>
           outcomes == [i \in DOMAIN list |-> Evaluate(list[i], m)]
           valid == {i \in DOMAIN outcomes : ~ IsError(outcomes[i])}
<1>1. NestedExpression(Apply("coalesce", list), 1)
  <2>1. \A i \in DOMAIN list : NestedExpression(list[i], 0)
    OBVIOUS
  <2>2. 0 \in 0 .. MaxNesting /\ 0 + 1 = 1
    BY NestingAssumption
  <2> HIDE DEF list
  <2> QED  BY <2>1, <2>2, ApplyNests
<1>2. Evaluate(Apply("coalesce", list), m) = applyForm("coalesce", outcomes)
  BY <1>1, EvaluateForm DEF Forms
<1>3. /\ Len(outcomes) = 2 /\ DOMAIN outcomes = {1, 2}
      /\ outcomes[1] = Evaluate(a, m) /\ outcomes[2] = Evaluate(b, m)
  <2>1. outcomes = <<Evaluate(a, m), Evaluate(b, m)>>
    OBVIOUS
  <2> HIDE DEF outcomes
  <2> QED  BY <2>1
<1> HIDE DEF outcomes
<1>4. Evaluate(Apply("coalesce", list), m) = ExpressionFunctionCoalesce(outcomes)
  BY <1>2, <1>3, FormAnswers
<1>5. ExpressionFunctionCoalesce(outcomes) =
        IF valid = {} THEN Error("CoalesceError") ELSE outcomes[FirstOf(valid)]
  BY DEF ExpressionFunctionCoalesce
<1>6. CASE ~ IsError(Evaluate(a, m))
  <2>1. 1 \in valid /\ \A i \in valid : 1 <= i /\ i \in {1, 2}
    BY <1>3, <1>6
  <2>2. FirstOf(valid) = 1
    <3> HIDE DEF valid
    <3> QED  BY <2>1 DEF FirstOf
  <2> HIDE DEF valid
  <2> QED  BY <1>3, <1>4, <1>5, <1>6, <2>1, <2>2
<1>7. CASE IsError(Evaluate(a, m)) /\ ~ IsError(Evaluate(b, m))
  <2>1. valid = {2}
    BY <1>3, <1>7
  <2>2. FirstOf(valid) = 2
    <3> HIDE DEF valid
    <3> QED  BY <2>1 DEF FirstOf
  <2> HIDE DEF valid
  <2> QED  BY <1>3, <1>4, <1>5, <1>7, <2>1, <2>2
<1>8. CASE IsError(Evaluate(a, m)) /\ IsError(Evaluate(b, m))
  <2>1. valid = {}
    BY <1>3, <1>8
  <2> QED  BY <1>4, <1>5, <1>8, <2>1, ErrorIsError, EBVOfError
<1> QED  BY <1>6, <1>7, <1>8

(* sameTerm compares the RDF terms of two outcomes.                          *)
LEMMA SameTermGives ==
  ASSUME NEW a, NEW b, NEW m, NEW n \in 0 .. MaxNesting, n + 1 \in 0 .. MaxNesting,
         NestedExpression(a, n), NestedExpression(b, n)
  PROVE  EBV(Evaluate(Apply("sameterm", <<a, b>>), m)) =
           IF IsError(Evaluate(a, m)) \/ IsError(Evaluate(b, m)) THEN "error"
           ELSE TruthOf(toRDF(Evaluate(a, m)) = toRDF(Evaluate(b, m)))
<1> DEFINE list == <<a, b>>
           outcomes == [i \in DOMAIN list |-> Evaluate(list[i], m)]
           x == Evaluate(a, m)
           y == Evaluate(b, m)
<1>1. NestedExpression(Apply("sameterm", list), n + 1)
  BY ApplyNests
<1>2. Evaluate(Apply("sameterm", list), m) = applyForm("sameterm", outcomes)
  BY <1>1, EvaluateForm DEF Forms
<1>3. outcomes = <<x, y>> /\ Len(<<x, y>>) = 2 /\ <<x, y>> \in Seq({x, y})
  OBVIOUS
<1> HIDE DEF list, outcomes, x, y
<1>4. Evaluate(Apply("sameterm", list), m) = ExpressionFunctionSameTerm(<<x, y>>)
  BY <1>2, <1>3, FormAnswers
<1>5. AnyError(<<x, y>>) <=> IsError(x) \/ IsError(y)
  BY DEF AnyError
<1>6. CASE IsError(x) \/ IsError(y)
  <2>1. IsError(FirstError(<<x, y>>))
    BY <1>3, <1>5, <1>6, FirstErrorIsError
  <2> QED  BY <1>4, <1>5, <1>6, <2>1, EBVOfError DEF ExpressionFunctionSameTerm, list, x, y
<1>7. CASE ~ (IsError(x) \/ IsError(y))
  <2> DEFINE b0 == toRDF(x) = toRDF(y)
  <2>1. ExpressionFunctionSameTerm(<<x, y>>) = bool(b0) /\ b0 \in BOOLEAN
    BY <1>5, <1>7 DEF ExpressionFunctionSameTerm
  <2>2. EBV(bool(b0)) = TruthOf(b0)
    BY BoolOutcome
  <2>3. EBV(Evaluate(Apply("sameterm", list), m)) = TruthOf(b0)
    BY <1>4, <2>1, <2>2
  <2> QED  BY <1>7, <2>3 DEF list, x, y
<1> QED  BY <1>6, <1>7

(* The outcome of a comparison: that of = when neither side fails. *)
Compared(x, y) == IF IsError(x) \/ IsError(y) THEN "error" ELSE EBV(TermFunctionEquality(<<x, y>>))

(* = of expressions compares their outcomes.                                 *)
LEMMA EqualGives ==
  ASSUME NEW a, NEW b, NEW m, NEW n \in 0 .. MaxNesting, n + 1 \in 0 .. MaxNesting,
         NestedExpression(a, n), NestedExpression(b, n)
  PROVE  /\ NestedExpression(Apply("=", <<a, b>>), n + 1)
         /\ EBV(Evaluate(Apply("=", <<a, b>>), m)) = Compared(Evaluate(a, m), Evaluate(b, m))
<1> DEFINE list == <<a, b>>
           outcomes == [i \in DOMAIN list |-> Evaluate(list[i], m)]
           x == Evaluate(a, m)
           y == Evaluate(b, m)
<1>1. NestedExpression(Apply("=", list), n + 1)
  BY ApplyNests
<1>2. Evaluate(Apply("=", list), m) = Provided("=", outcomes)
  BY <1>1, EvaluateFunction
<1>3. outcomes = <<x, y>>
  OBVIOUS
<1> HIDE DEF list, outcomes, x, y
<1>4. EBV(Evaluate(Apply("=", list), m)) = Compared(x, y)
  BY <1>2, <1>3, ProvidedAnswers, EBVOfError DEF Compared
<1> QED  BY <1>1, <1>4 DEF list, x, y

(* An outcome that is what a connective of the logic gives. *)
Answers(o, truth) ==
    /\ Outcome(o) /\ EBV(o) = truth
    /\ IsError(o) <=> truth = "error"
    /\ truth = "true" => o = bool(TRUE)
    /\ truth = "false" => o = bool(FALSE)

(* IN is the disjunction of the comparisons, and NOT IN the negation of it.  *)
LEMMA InTable ==
  ASSUME NEW x, NEW y, NEW z
  PROVE  /\ Outcome(ExpressionFunctionIn(<<x, y, z>>))
         /\ EBV(ExpressionFunctionIn(<<x, y, z>>)) = Either(Compared(x, y), Compared(x, z))
         /\ EBV(ExpressionFunctionNotIn(<<x, y, z>>))
              = Neither(Either(Compared(x, y), Compared(x, z)))
<1> DEFINE list == <<x, y, z>>
           equal(i) == IF IsError(list[i]) THEN list[i] ELSE TermFunctionEquality(<<list[1], list[i]>>)
           in == ExpressionFunctionIn(list)
           outcome == Either(Compared(x, y), Compared(x, z))
<1>1. /\ list[1] = x /\ list[2] = y /\ list[3] = z /\ 2 .. Len(list) = {2, 3}
  OBVIOUS
<1>2. in = CASE IsError(list[1]) -> list[1]
             [] ~ IsError(list[1]) /\ \E i \in 2 .. Len(list) : IsTrue(equal(i)) -> bool(TRUE)
             [] OTHER -> IF \E i \in 2 .. Len(list) : IsError(equal(i)) THEN Error("InError")
                                                                       ELSE bool(FALSE)
  BY DEF ExpressionFunctionIn
<1>3. /\ equal(2) = IF IsError(y) THEN y ELSE TermFunctionEquality(<<x, y>>)
      /\ equal(3) = IF IsError(z) THEN z ELSE TermFunctionEquality(<<x, z>>)
  BY <1>1
<1>4. ASSUME NEW e, Decided(e)
      PROVE  /\ IsError(e) <=> EBV(e) = "error"
             /\ IsTrue(e) <=> EBV(e) = "true"
             /\ EBV(e) \in {"true", "false", "error"}
  <2>1. CASE IsError(e)
    BY <2>1, EBVOfError DEF IsTrue
  <2>2. CASE ~ IsError(e)
    <3>1. PICK b \in BOOLEAN : e = bool(b)
      BY <1>4, <2>2 DEF Decided
    <3>2. ~ IsError(bool(b)) /\ IsTrue(bool(b)) = b /\ EBV(bool(b)) = TruthOf(b)
      BY BoolOutcome
    <3> QED  BY <3>1, <3>2 DEF TruthOf
  <2> QED  BY <2>1, <2>2
<1>5. Decided(equal(2)) /\ Decided(equal(3))
  BY <1>3, EqualityDecided DEF Decided
<1>6. ~ IsError(x) => EBV(equal(2)) = Compared(x, y) /\ EBV(equal(3)) = Compared(x, z)
  BY <1>3, EBVOfError DEF Compared
<1> HIDE DEF list, equal, in, outcome
<1>7. Answers(in, outcome)
  <2>1. CASE IsError(x)
    <3>1. in = x
      BY <1>1, <1>2, <2>1
    <3>2. outcome = "error"
      BY <2>1 DEF outcome, Compared, Either
    <3> QED  BY <2>1, <3>1, <3>2, EBVOfError DEF Answers, Outcome
  <2>2. CASE ~ IsError(x)
    <3>1. /\ IsTrue(equal(2)) <=> Compared(x, y) = "true"
          /\ IsTrue(equal(3)) <=> Compared(x, z) = "true"
          /\ IsError(equal(2)) <=> Compared(x, y) = "error"
          /\ IsError(equal(3)) <=> Compared(x, z) = "error"
      BY <1>4, <1>5, <1>6, <2>2
    <3>2. CASE IsTrue(equal(2)) \/ IsTrue(equal(3))
      <4>1. in = bool(TRUE)
        BY <1>1, <1>2, <2>2, <3>2
      <4>2. outcome = "true"
        BY <3>1, <3>2 DEF outcome, Either
      <4> QED  BY <4>1, <4>2, BoolOutcome, BoolIsOutcome DEF Answers, Outcome, TruthOf
    <3>3. CASE ~ (IsTrue(equal(2)) \/ IsTrue(equal(3))) /\ (IsError(equal(2)) \/ IsError(equal(3)))
      <4>1. in = Error("InError")
        BY <1>1, <1>2, <2>2, <3>3
      <4>2. outcome = "error"
        BY <3>1, <3>3 DEF outcome, Either
      <4> QED  BY <4>1, <4>2, ErrorIsError DEF Answers, Outcome
    <3>4. CASE ~ (IsTrue(equal(2)) \/ IsTrue(equal(3))) /\ ~ (IsError(equal(2)) \/ IsError(equal(3)))
      <4>1. in = bool(FALSE)
        BY <1>1, <1>2, <2>2, <3>4
      <4>2. outcome = "false"
        BY <3>1, <3>4 DEF outcome, Either
      <4> QED  BY <4>1, <4>2, BoolOutcome, BoolIsOutcome DEF Answers, Outcome, TruthOf
    <3> QED  BY <3>2, <3>3, <3>4
  <2> QED  BY <2>1, <2>2
<1>8. outcome \in {"true", "false", "error"}
  BY DEF outcome, Either
<1>9. EBV(ExpressionFunctionNotIn(list)) = Neither(outcome)
  <2>1. ExpressionFunctionNotIn(list) = IF IsError(in) THEN in ELSE bool(~ in.bool)
    BY DEF ExpressionFunctionNotIn, in
  <2>2. CASE IsError(in)
    BY <1>7, <2>1, <2>2 DEF Answers, Neither
  <2>3. CASE ~ IsError(in)
    <3>1. bool(TRUE).bool = TRUE /\ bool(FALSE).bool = FALSE
          /\ EBV(bool(TRUE)) = "true" /\ EBV(bool(FALSE)) = "false"
      BY BoolOutcome DEF TruthOf
    <3>2. CASE outcome = "true"
      <4>1. in = bool(TRUE)
        BY <1>7, <3>2 DEF Answers
      <4>2. (~ in.bool) = FALSE
        BY <3>1, <4>1
      <4>3. ExpressionFunctionNotIn(list) = bool(FALSE)
        BY <2>1, <2>3, <4>2
      <4> QED  BY <3>1, <3>2, <4>3 DEF Neither
    <3>3. CASE outcome = "false"
      <4>1. in = bool(FALSE)
        BY <1>7, <3>3 DEF Answers
      <4>2. (~ in.bool) = TRUE
        BY <3>1, <4>1
      <4>3. ExpressionFunctionNotIn(list) = bool(TRUE)
        BY <2>1, <2>3, <4>2
      <4> QED  BY <3>1, <3>3, <4>3 DEF Neither
    <3> QED  BY <1>7, <1>8, <2>3, <3>2, <3>3 DEF Answers
  <2> QED  BY <2>2, <2>3
<1> QED  BY <1>7, <1>9 DEF Answers, list, in, outcome

(* IN is the disjunction of the comparisons, NOT IN its negation.            *)
LEMMA InGives ==
  ASSUME NEW a, NEW b, NEW c, NEW m, NEW n \in 0 .. MaxNesting, n + 1 \in 0 .. MaxNesting,
         NestedExpression(a, n), NestedExpression(b, n), NestedExpression(c, n)
  PROVE  LET either == Either(Compared(Evaluate(a, m), Evaluate(b, m)),
                              Compared(Evaluate(a, m), Evaluate(c, m)))
         IN  /\ EBV(Evaluate(Apply("in", <<a, b, c>>), m)) = either
             /\ EBV(Evaluate(Apply("notin", <<a, b, c>>), m)) = Neither(either)
<1> DEFINE list == <<a, b, c>>
           outcomes == [i \in DOMAIN list |-> Evaluate(list[i], m)]
           x == Evaluate(a, m)
           y == Evaluate(b, m)
           z == Evaluate(c, m)
<1>1. \A i \in DOMAIN list : NestedExpression(list[i], n)
  OBVIOUS
<1>2. outcomes = <<x, y, z>> /\ Len(<<x, y, z>>) \in Nat \ {0}
  OBVIOUS
<1> HIDE DEF list, outcomes, x, y, z
<1>3. ASSUME NEW fn \in {"in", "notin"}
      PROVE  Evaluate(Apply(fn, list), m) = applyForm(fn, <<x, y, z>>)
  <2>1. NestedExpression(Apply(fn, list), n + 1)
    BY <1>1, ApplyNests
  <2>2. fn \in Forms
    BY DEF Forms
  <2>3. Evaluate(Apply(fn, list), m) = applyForm(fn, outcomes)
    BY <2>1, <2>2, EvaluateForm DEF outcomes
  <2> QED  BY <1>2, <2>3
<1>4. /\ EBV(Evaluate(Apply("in", list), m)) = Either(Compared(x, y), Compared(x, z))
      /\ EBV(Evaluate(Apply("notin", list), m)) = Neither(Either(Compared(x, y), Compared(x, z)))
  BY <1>2, <1>3, FormAnswers, InTable
<1> QED  BY <1>4 DEF list, x, y, z

-----------------------------------------------------------------------------
(* The laws of the functional forms. *)

(* What the assumption on the arguments says of those that are looked at.    *)
LEMMA TermsOfArguments ==
  ASSUME NEW list \in Arguments, Len(list) \in Nat \ {0}
  PROVE  /\ DOMAIN list = 1 .. Len(list) /\ MaxNesting >= 3
         /\ \A i \in DOMAIN list :
              /\ IsNestedRDFTerm(list[i])
              /\ NestedExpression(Constant(list[i]), MaxNesting - 3)
<1>1. list \in Seq({list[i] : i \in DOMAIN list})
  BY ArgumentsAssumption
<1>2. DOMAIN list = 1 .. Len(list)
  BY <1>1
<1>3. ASSUME NEW i \in DOMAIN list
      PROVE  /\ IsNestedRDFTerm(list[i]) /\ MaxNesting >= 3
             /\ NestsAtMost(Constant(list[i]), MaxNesting - 3)
  BY <1>3, ArgumentsAssumption DEF IsNestedRDFTerm
<1>4. 1 \in DOMAIN list
  BY <1>2
<1>5. MaxNesting - 3 \in 0 .. MaxNesting
  BY <1>3, <1>4, NestingAssumption
<1> QED  BY <1>2, <1>3, <1>4, <1>5, ConstantNests

(* The connectives, of which one is the other one negated. *)
LEMMA ConnectivesAgree ==
  ASSUME NEW p \in {"true", "false", "error"}, NEW q \in {"true", "false", "error"}
  PROVE  /\ Both(p, q) = Both(q, p) /\ Either(p, q) = Either(q, p)
         /\ Neither(Both(p, q)) = Either(Neither(p), Neither(q))
BY DEF Both, Either, Neither

(* The laws of the connectives, IF, COALESCE, BOUND and sameTerm for two     *)
(* terms.                                                                    *)
LEMMA LogicOfTerms ==
  ASSUME NEW list \in Arguments, Len(list) = 2, NEW bound \in SUBSET {1, 2}
  PROVE  LET m == [v \in bound |-> list[v]]
             ebv(expr) == evaluateAsEBV(expr, m)
             a == Variable(1)
             b == Variable(2)
         IN  /\ ebv(And(a, b)) = ebv(And(b, a))
             /\ ebv(OrElse(a, b)) = ebv(OrElse(b, a))
             /\ ebv(Not(And(a, b))) = ebv(OrElse(Not(a), Not(b)))
             /\ ebv(Apply("if", <<a, b, b>>)) = IF ebv(a) = "error" THEN "error" ELSE ebv(b)
             /\ ebv(Apply("coalesce", <<a, b>>)) = ebv(IF 1 \in bound THEN a ELSE b)
             /\ ebv(Apply("bound", <<a>>)) = "true" <=> 1 \in bound
             /\ 1 \in bound => ebv(Apply("sameterm", <<a, Constant(list[1])>>))
                                 = IF IllTyped(list[1]) THEN "error" ELSE "true"
<1> DEFINE m == [v \in bound |-> list[v]]
           a == Variable(1)
           b == Variable(2)
           t == list[1]
           p == EBV(Evaluate(a, m))
           q == EBV(Evaluate(b, m))
<1>1. /\ MaxNesting >= 3 /\ DOMAIN list = {1, 2}
      /\ \A i \in {1, 2} : IsNestedRDFTerm(list[i])
      /\ NestedExpression(Constant(t), MaxNesting - 3)
  BY TermsOfArguments
<1>2. {0, 1, 2, 0 + 1, 1 + 1, MaxNesting - 3, MaxNesting - 3 + 1} \subseteq 0 .. MaxNesting
  BY <1>1, NestingAssumption
<1>3. NestedExpression(a, 0) /\ NestedExpression(b, 0)
  BY EvaluateVariable
<1>4. /\ Evaluate(a, m) = IF 1 \in bound THEN transformTerm(list[1]) ELSE Error("UnboundVariableError")
      /\ Evaluate(b, m) = IF 2 \in bound THEN transformTerm(list[2]) ELSE Error("UnboundVariableError")
  BY EvaluateVariable
<1>5. Outcome(Evaluate(a, m)) /\ Outcome(Evaluate(b, m))
  BY <1>1, <1>4, TransformedTerm, ErrorIsError DEF Outcome
<1>6. 1 \in bound <=> ~ IsError(Evaluate(a, m))
  BY <1>1, <1>4, TransformedTerm, ErrorIsError DEF GoodTerm
<1>7. p \in {"true", "false", "error"} /\ q \in {"true", "false", "error"}
  BY EBVOfError
<1> HIDE DEF m, a, b, t
<1>8. /\ EBV(Evaluate(And(a, b), m)) = Both(p, q) /\ EBV(Evaluate(And(b, a), m)) = Both(q, p)
      /\ NestedExpression(And(a, b), 0 + 1) /\ Outcome(Evaluate(And(a, b), m))
  BY <1>2, <1>3, AndGives
<1>9. EBV(Evaluate(OrElse(a, b), m)) = Either(p, q) /\ EBV(Evaluate(OrElse(b, a), m)) = Either(q, p)
  BY <1>2, <1>3, OrGives
<1>10. /\ NestedExpression(Not(a), 0 + 1) /\ EBV(Evaluate(Not(a), m)) = Neither(p)
       /\ NestedExpression(Not(b), 0 + 1) /\ EBV(Evaluate(Not(b), m)) = Neither(q)
  BY <1>2, <1>3, <1>5, NotGives
<1>11. EBV(Evaluate(Not(And(a, b)), m)) = Neither(Both(p, q))
  <2>1. 1 \in 0 .. MaxNesting /\ 1 + 1 \in 0 .. MaxNesting /\ NestedExpression(And(a, b), 1)
    BY <1>2, <1>8
  <2> QED  BY <1>8, <2>1, NotGives
<1>12. EBV(Evaluate(OrElse(Not(a), Not(b)), m)) = Either(Neither(p), Neither(q))
  <2>1. 1 \in 0 .. MaxNesting /\ 1 + 1 \in 0 .. MaxNesting
        /\ NestedExpression(Not(a), 1) /\ NestedExpression(Not(b), 1)
    BY <1>2, <1>10
  <2>2. EBV(Evaluate(OrElse(Not(a), Not(b)), m))
          = Either(EBV(Evaluate(Not(a), m)), EBV(Evaluate(Not(b), m)))
    BY <2>1, OrGives
  <2> QED  BY <1>10, <2>2
<1>13. EBV(Evaluate(Apply("if", <<a, b, b>>), m)) = IF p = "error" THEN "error" ELSE q
  BY <1>2, <1>3, IfGives
<1>14. EBV(Evaluate(Apply("coalesce", <<a, b>>), m)) = EBV(Evaluate(IF 1 \in bound THEN a ELSE b, m))
  <2>1. EBV(Evaluate(Apply("coalesce", <<a, b>>), m))
          = EBV(IF IsError(Evaluate(a, m)) THEN Evaluate(b, m) ELSE Evaluate(a, m))
    BY <1>2, <1>3, CoalesceGives
  <2> QED  BY <1>6, <2>1
<1>15. EBV(Evaluate(Apply("bound", <<a>>), m)) = "true" <=> 1 \in bound
  <2>1. NestedExpression(Apply("bound", <<a>>), 0 + 1)
    <3> DEFINE one == <<a>>
    <3>1. \A i \in DOMAIN one : NestedExpression(one[i], 0)
      BY <1>3
    <3> HIDE DEF one
    <3>2. NestedExpression(Apply("bound", one), 0 + 1)
      BY <1>2, <3>1, ApplyNests
    <3> QED  BY <3>2 DEF one
  <2>2. Evaluate(Apply("bound", <<a>>), m) = bool(1 \in DOMAIN m)
    BY <1>2, <2>1, EvaluateBound DEF a
  <2>3. DOMAIN m = bound
    BY DEF m
  <2> DEFINE has == 1 \in DOMAIN m
  <2>4. has \in BOOLEAN
    OBVIOUS
  <2> HIDE DEF has
  <2>5. EBV(bool(has)) = TruthOf(has)
    BY <2>4, BoolOutcome
  <2>6. EBV(Evaluate(Apply("bound", <<a>>), m)) = TruthOf(has)
    BY <2>2, <2>5 DEF has
  <2> QED  BY <2>3, <2>6 DEF TruthOf, has
<1>16. ASSUME 1 \in bound
       PROVE  EBV(Evaluate(Apply("sameterm", <<a, Constant(t)>>), m))
                = IF IllTyped(t) THEN "error" ELSE "true"
  <2>1. NestedExpression(a, MaxNesting - 3)
    BY <1>1, <1>2, <1>3, NestedIsWhole, NestingAssumption
  <2>2. EBV(Evaluate(Apply("sameterm", <<a, Constant(t)>>), m)) =
           IF IsError(Evaluate(a, m)) \/ IsError(Evaluate(Constant(t), m)) THEN "error"
           ELSE TruthOf(toRDF(Evaluate(a, m)) = toRDF(Evaluate(Constant(t), m)))
    BY <1>1, <1>2, <2>1, SameTermGives
  <2>3. ConstantGives(t, m)
    <3>1. NestsAtMost(Constant(t), MaxNesting)
      BY <1>1, <1>2, NestedIsWhole DEF IsWhole
    <3> QED  BY <1>1, <3>1, ConstantEvaluates DEF t
  <2>4. Evaluate(a, m) = transformTerm(t) /\ ~ IsError(Evaluate(a, m))
    BY <1>4, <1>6, <1>16 DEF t
  <2> QED  BY <2>2, <2>3, <2>4 DEF ConstantGives, TruthOf
<1>17. /\ Both(p, q) = Both(q, p) /\ Either(p, q) = Either(q, p)
       /\ Neither(Both(p, q)) = Either(Neither(p), Neither(q))
  BY <1>7, ConnectivesAgree
<1> HIDE DEF p, q
<1>18. /\ EBV(Evaluate(And(a, b), m)) = EBV(Evaluate(And(b, a), m))
       /\ EBV(Evaluate(OrElse(a, b), m)) = EBV(Evaluate(OrElse(b, a), m))
       /\ EBV(Evaluate(Not(And(a, b)), m)) = EBV(Evaluate(OrElse(Not(a), Not(b)), m))
  BY <1>8, <1>9, <1>11, <1>12, <1>17
<1> QED  BY <1>13, <1>14, <1>15, <1>16, <1>18 DEF evaluateAsEBV, m, a, b, t, p, q

(* The law of IN and NOT IN for three terms.                                 *)
LEMMA InOfTerms ==
  ASSUME NEW list \in Arguments, Len(list) = 3
  PROVE  LET term(i) == Constant(list[i])
             equal(i) == Apply("=", <<term(1), term(i)>>)
             ebv(expr) == evaluateAsEBV(expr, <<>>)
         IN  /\ ebv(Apply("in", <<term(1), term(2), term(3)>>)) = ebv(OrElse(equal(2), equal(3)))
             /\ ebv(Apply("notin", <<term(1), term(2), term(3)>>))
                  = ebv(Not(OrElse(equal(2), equal(3))))
<1> DEFINE m == <<>>
           n == MaxNesting - 3
           a == Constant(list[1])
           b == Constant(list[2])
           c == Constant(list[3])
           ab == Apply("=", <<a, b>>)
           ac == Apply("=", <<a, c>>)
           either == Either(Compared(Evaluate(a, m), Evaluate(b, m)),
                            Compared(Evaluate(a, m), Evaluate(c, m)))
<1>1. /\ NestedExpression(a, n) /\ NestedExpression(b, n) /\ NestedExpression(c, n)
      /\ MaxNesting >= 3
  BY TermsOfArguments
<1>2. /\ n \in 0 .. MaxNesting /\ n + 1 \in 0 .. MaxNesting /\ n + 1 + 1 \in 0 .. MaxNesting
      /\ n + 1 + 1 + 1 \in 0 .. MaxNesting
  BY <1>1, NestingAssumption
<1> HIDE DEF n, m, a, b, c
<1>3. /\ EBV(Evaluate(Apply("in", <<a, b, c>>), m)) = either
      /\ EBV(Evaluate(Apply("notin", <<a, b, c>>), m)) = Neither(either)
  BY <1>1, <1>2, InGives
<1>4. /\ NestedExpression(ab, n + 1) /\ NestedExpression(ac, n + 1)
      /\ EBV(Evaluate(ab, m)) = Compared(Evaluate(a, m), Evaluate(b, m))
      /\ EBV(Evaluate(ac, m)) = Compared(Evaluate(a, m), Evaluate(c, m))
  BY <1>1, <1>2, EqualGives
<1> HIDE DEF ab, ac
<1>5. /\ NestedExpression(OrElse(ab, ac), n + 1 + 1) /\ Outcome(Evaluate(OrElse(ab, ac), m))
      /\ EBV(Evaluate(OrElse(ab, ac), m)) = either
  BY <1>2, <1>4, OrGives
<1>6. EBV(Evaluate(Not(OrElse(ab, ac)), m)) = Neither(either)
  BY <1>2, <1>5, NotGives
<1> QED  BY <1>3, <1>5, <1>6 DEF evaluateAsEBV, m, a, b, c, ab, ac

(* Whatever terms a query is about, of any datatype and nested as deep as the *)
(* bound allows: && and || do not depend on the side and are each the other   *)
(* one negated, IN and NOT IN agree with =, IF and COALESCE look only at what *)
(* they take, and a constant is the term a variable is bound to, but for the  *)
(* quoted triples with a literal of invalid form (the packages                *)
(* actor-function-factory-expression-, ActorExpressionEvaluatorFactoryDefault *)
(* and AlgebraTransformer.ts).                                                *)
THEOREM FormsAgreeCorrect == Spec => FormsAgree
<1>1. ASSUME NEW list \in Arguments PROVE FormsHold(list)
  <2>1. LogicHolds(list)
    BY <1>1, LogicOfTerms DEF LogicHolds
  <2>2. InIsDisjunction(list)
    BY <1>1, InOfTerms DEF InIsDisjunction
  <2> QED  BY <2>1, <2>2 DEF FormsHold
<1>2. [Next]_vars => [FormsHold(terms')]_terms
  <2> SUFFICES ASSUME Next, terms' # terms PROVE FormsHold(terms')
    BY DEF vars
  <2>1. terms' \in Arguments
    BY DEF Next
  <2> QED  BY <1>1, <2>1
<1> QED  BY <1>2, PTL DEF Spec, FormsAgree

-----------------------------------------------------------------------------
(* Aggregators: any number of solutions, one put after the other. *)

(* What the fold over the outcomes gives for a set of their positions. *)
PutInto(aggregator, distinct, outcomes, f, s) ==
    IF s = {} THEN EmptyAggregate
    ELSE putBindings(aggregator, distinct, f[s \ {Seqs!Max(s)}], outcomes[Seqs!Max(s)])

IsFold(aggregator, distinct, outcomes, n, f) ==
    f = [s \in SUBSET (1 .. n) |-> PutInto(aggregator, distinct, outcomes, f, s)]

(* The last of the first positions is the greatest. *)
LEMMA LastIsMax ==
  ASSUME NEW k \in Nat, NEW s \in SUBSET (1 .. k + 1), k + 1 \in s
  PROVE  Seqs!Max(s) = k + 1
<1>1. \A y \in s : k + 1 >= y
  OBVIOUS
<1>2. \A x \in s : (\A y \in s : x >= y) => x = k + 1
  OBVIOUS
<1> QED  BY <1>1, <1>2 DEF Seqs!Max

(* The fold is over any number of outcomes: by induction, one position more.   *)
LEMMA FoldExists ==
  ASSUME NEW aggregator, NEW distinct, NEW S, NEW outcomes \in Seq(S), NEW n \in Nat
  PROVE  \E f : IsFold(aggregator, distinct, outcomes, n, f)
<1> DEFINE put(f, s) == PutInto(aggregator, distinct, outcomes, f, s)
           K == {k \in Nat : \E f : IsFold(aggregator, distinct, outcomes, k, f)}
<1>1. 0 \in K
  <2> DEFINE g == [s \in SUBSET (1 .. 0) |-> EmptyAggregate]
  <2>1. \A s \in SUBSET (1 .. 0) : EmptyAggregate = put(g, s)
    <3>1. \A s \in SUBSET (1 .. 0) : s = {}
      OBVIOUS
    <3> QED  BY <3>1 DEF PutInto
  <2>2. g = [s \in SUBSET (1 .. 0) |-> put(g, s)]
    BY <2>1
  <2>3. IsFold(aggregator, distinct, outcomes, 0, g)
    BY <2>2 DEF IsFold
  <2> QED  BY <2>3
<1>2. ASSUME NEW k \in Nat, k \in K PROVE k + 1 \in K
  <2>0. PICK f : IsFold(aggregator, distinct, outcomes, k, f)
    BY <1>2
  <2>1. f = [s \in SUBSET (1 .. k) |-> put(f, s)]
    BY <2>0 DEF IsFold
  <2> DEFINE last(s) == putBindings(aggregator, distinct, f[s \ {k + 1}], outcomes[k + 1])
             g == [s \in SUBSET (1 .. k + 1) |-> IF k + 1 \in s THEN last(s) ELSE f[s]]
  <2>2. \A s \in SUBSET (1 .. k) : s \in SUBSET (1 .. k + 1) /\ k + 1 \notin s
    OBVIOUS
  <2>3. \A s \in SUBSET (1 .. k) : g[s] = f[s]
    BY <2>2
  <2>4. ASSUME NEW s \in SUBSET (1 .. k + 1) PROVE g[s] = put(g, s)
    <3>1. CASE k + 1 \in s
      <4>1. s \ {k + 1} \in SUBSET (1 .. k)
        OBVIOUS
      <4>2. g[s \ {k + 1}] = f[s \ {k + 1}]
        BY <2>3, <4>1
      <4>3. g[s] = last(s)
        BY <3>1
      <4>4. Seqs!Max(s) = k + 1
        BY <3>1, LastIsMax
      <4> HIDE DEF g
      <4> QED  BY <3>1, <4>2, <4>3, <4>4 DEF PutInto
    <3>2. CASE k + 1 \notin s
      <4> HIDE DEF g, put
      <4>1. s \in SUBSET (1 .. k) /\ s \ {Seqs!Max(s)} \in SUBSET (1 .. k)
        <5>1. \A y \in s : y \in 1 .. k
          BY <3>2
        <5> QED  BY <5>1
      <4>2. g[s] = f[s] /\ g[s \ {Seqs!Max(s)}] = f[s \ {Seqs!Max(s)}]
        BY <2>3, <4>1
      <4>3. f[s] = put(f, s)
        BY <2>1, <4>1
      <4> QED  BY <4>2, <4>3 DEF PutInto, put
    <3> QED  BY <3>1, <3>2
  <2>5. g = [s \in SUBSET (1 .. k + 1) |-> put(g, s)]
    <3>1. g = [s \in SUBSET (1 .. k + 1) |-> g[s]]
      OBVIOUS
    <3> HIDE DEF g, put
    <3> QED  BY <2>4, <3>1
  <2>6. IsFold(aggregator, distinct, outcomes, k + 1, g)
    BY <2>5 DEF IsFold
  <2> HIDE DEF g
  <2> QED  BY <2>6
<1>3. \A k \in Nat : k \in K
  <2> HIDE DEF K
  <2> QED  BY <1>1, <1>2, Induction
<1> QED  BY <1>3

(* The state of an aggregator after each outcome, for the outcomes of any     *)
(* number of solutions (AggregateEvaluator.ts).                               *)
IsRun(aggregator, distinct, outcomes, state) ==
    /\ state[0] = EmptyAggregate
    /\ \A j \in 0 .. Len(outcomes) - 1 :
         state[j + 1] = putBindings(aggregator, distinct, state[j], outcomes[j + 1])
    /\ Aggregate(aggregator, distinct, outcomes) = result(aggregator, state[Len(outcomes)])

(* Every aggregate is the result of such a run. *)
LEMMA AggregateRuns ==
  ASSUME NEW aggregator, NEW distinct, NEW S, NEW outcomes \in Seq(S)
  PROVE  \E state : IsRun(aggregator, distinct, outcomes, state)
<1> DEFINE n == Len(outcomes)
           isFold(f) == IsFold(aggregator, distinct, outcomes, n, f)
           fold == CHOOSE f : isFold(f)
           state == [j \in 0 .. n |-> fold[1 .. j]]
<1>1. isFold(fold)
  <2>1. n \in Nat
    OBVIOUS
  <2> HIDE DEF n, fold, state
  <2>2. \E f : isFold(f)
    BY <2>1, FoldExists
  <2> HIDE DEF isFold
  <2> QED  BY <2>2 DEF fold
<1>2. Aggregate(aggregator, distinct, outcomes) = result(aggregator, fold[1 .. n])
  <2>1. DOMAIN outcomes = 1 .. n
    OBVIOUS
  <2>2. Aggregate(aggregator, distinct, outcomes)
          = result(aggregator, (CHOOSE f : f = [s \in SUBSET DOMAIN outcomes |->
              PutInto(aggregator, distinct, outcomes, f, s)])[DOMAIN outcomes])
    BY DEF Aggregate, Seqs!FoldLeft, Seqs!MapThenFoldSet, PutInto
  <2> QED  BY <2>1, <2>2 DEF IsFold
<1> HIDE DEF fold
<1>3. fold[1 .. 0] = EmptyAggregate
  <2>1. 1 .. 0 = {}
    OBVIOUS
  <2> QED  BY <1>1, <2>1 DEF PutInto, IsFold
<1>4. ASSUME NEW j \in 0 .. n - 1
      PROVE  fold[1 .. j + 1] = putBindings(aggregator, distinct, fold[1 .. j], outcomes[j + 1])
  <2> DEFINE s == 1 .. j + 1
  <2>1. s \in SUBSET (1 .. n) /\ j + 1 \in s /\ s \ {j + 1} = 1 .. j /\ j \in Nat
    OBVIOUS
  <2>2. Seqs!Max(s) = j + 1
    BY <2>1, LastIsMax
  <2>3. fold[s] = PutInto(aggregator, distinct, outcomes, fold, s)
    BY <1>1, <2>1 DEF IsFold
  <2> QED  BY <2>1, <2>2, <2>3 DEF PutInto
<1>5. IsRun(aggregator, distinct, outcomes, state)
  <2>1. n \in Nat /\ \A j \in 0 .. n : state[j] = fold[1 .. j]
    OBVIOUS
  <2>2. \A j \in 0 .. n - 1 : j \in 0 .. n /\ j + 1 \in 0 .. n
    OBVIOUS
  <2> HIDE DEF state
  <2> QED  BY <1>2, <1>3, <1>4, <2>1, <2>2 DEF IsRun
<1> QED  BY <1>5

(* What an aggregator keeps, and what it makes of an error: it is unbound for *)
(* good, except when a variable was unbound (AggregateEvaluator.ts).          *)
IsAggregate(agg) ==
    /\ agg = [errorOccurred |-> agg.errorOccurred, variableValues |-> agg.variableValues,
              state |-> agg.state]
    /\ agg.errorOccurred \in BOOLEAN
    /\ \A outcome \in agg.variableValues : ~ IsError(outcome)
UnboundVariable == Error("UnboundVariableError")
Fails(outcome) == IsError(outcome) /\ outcome # UnboundVariable

(* The changes that putBindings makes to an aggregate. *)
MadeOf(errorOccurred, variableValues, state) ==
    [errorOccurred |-> errorOccurred, variableValues |-> variableValues, state |-> state]
Failed(agg) == [agg EXCEPT !.errorOccurred = TRUE]
AfterPut(agg, state, values) == [agg EXCEPT !.state = state, !.variableValues = values]

(* What an aggregate consists of, after a failure and with another term. *)
LEMMA AggregateFields ==
  ASSUME NEW e, NEW v, NEW s
  PROVE  LET agg == MadeOf(e, v, s)
         IN  /\ DOMAIN agg = {"errorOccurred", "variableValues", "state"}
             /\ agg.errorOccurred = e /\ agg.variableValues = v /\ agg.state = s
BY DEF MadeOf

(* After a failure it is still one, with an error. *)
LEMMA FailedFields ==
  ASSUME NEW agg, IsAggregate(agg)
  PROVE  IsAggregate(Failed(agg)) /\ Failed(agg).errorOccurred
<1> DEFINE h == Failed(agg)
<1>1. DOMAIN agg = {"errorOccurred", "variableValues", "state"}
  BY DEF IsAggregate
<1>2. DOMAIN h = DOMAIN agg /\ h = [f \in DOMAIN agg |-> h[f]]
  BY DEF Failed
<1>3. h.errorOccurred = TRUE /\ h.variableValues = agg.variableValues /\ h.state = agg.state
  BY <1>1 DEF Failed
<1> HIDE DEF h
<1>4. IsAggregate(h)
  BY <1>1, <1>2, <1>3 DEF IsAggregate
<1> QED  BY <1>3, <1>4 DEF h

(* With another term only its state and its values differ. *)
LEMMA AfterPutFields ==
  ASSUME NEW e, NEW v, NEW s, NEW agg, agg = MadeOf(e, v, s), NEW p, NEW w
  PROVE  AfterPut(agg, p, w) = MadeOf(e, w, p)
<1> DEFINE h == AfterPut(agg, p, w)
<1>1. /\ DOMAIN agg = {"errorOccurred", "variableValues", "state"}
      /\ agg.errorOccurred = e
  BY AggregateFields
<1>2. DOMAIN h = DOMAIN agg /\ h = [f \in DOMAIN agg |-> h[f]]
  BY DEF AfterPut
<1>3. h.errorOccurred = e /\ h.variableValues = w /\ h.state = p
  BY <1>1 DEF AfterPut
<1> HIDE DEF h
<1>4. h = MadeOf(e, w, p)
  BY <1>1, <1>2, <1>3 DEF MadeOf
<1> QED  BY <1>4 DEF h

(* An outcome leaves an aggregate one, and an error that occurred stays. *)
LEMMA PutKeeps ==
  ASSUME NEW aggregator, NEW distinct \in BOOLEAN, NEW agg, IsAggregate(agg), NEW outcome
  PROVE  LET next == putBindings(aggregator, distinct, agg, outcome)
         IN  /\ IsAggregate(next)
             /\ agg.errorOccurred \/ Fails(outcome) => next.errorOccurred
<1> DEFINE skipped == \/ agg.errorOccurred \/ outcome = UnboundVariable
                      \/ distinct /\ outcome \in agg.variableValues
           put == putTerm(aggregator, agg.state, outcome)
           values == IF distinct THEN agg.variableValues \cup {outcome} ELSE agg.variableValues
           given == AfterPut(agg, put, values)
           next == putBindings(aggregator, distinct, agg, outcome)
<1>1. /\ skipped => next = agg
      /\ ~ skipped /\ IsError(outcome) => next = Failed(agg)
      /\ ~ skipped /\ ~ IsError(outcome) => next = IF IsError(put) THEN Failed(agg) ELSE given
  BY DEF putBindings, UnboundVariable, IsAggregate, Failed, AfterPut
<1> HIDE DEF given
<1>2. given = MadeOf(agg.errorOccurred, values, put)
  <2>1. agg = MadeOf(agg.errorOccurred, agg.variableValues, agg.state)
    BY DEF IsAggregate, MadeOf
  <2> HIDE DEF put, values
  <2> QED  BY <2>1, AfterPutFields DEF given
<1>3. ~ IsError(outcome) => IsAggregate(given)
  BY <1>2 DEF IsAggregate, MadeOf
<1>4. skipped /\ Fails(outcome) => agg.errorOccurred
  BY DEF Fails, IsAggregate
<1> HIDE DEF next, put, values
<1>5. IsAggregate(next)
  BY <1>1, <1>3, FailedFields
<1>6. agg.errorOccurred \/ Fails(outcome) => next.errorOccurred
  BY <1>1, <1>4, FailedFields DEF Fails
<1> QED  BY <1>5, <1>6 DEF next

(* The outcomes an aggregate is made of, and the aggregator that makes it. *)
OutcomesOf(expr, solutions) == [i \in DOMAIN solutions |-> evaluate(expr.expression, solutions[i])]
AggregatorNames == {"sum", "avg", "count", "group_concat", "max", "min", "sample"}

(* One actor makes each of them, COUNT of star apart (the factories of the     *)
(* aggregators).                                                              *)
LEMMA AggregateOverOutcomes ==
  ASSUME NEW expr, NEW solutions, NEW variables,
         expr.aggregator \in AggregatorNames, expr.expression.kind # "wildcard"
  PROVE  AggregateOver(expr, solutions, variables)
           = Aggregate(expr.aggregator, expr.distinct, OutcomesOf(expr, solutions))
<1> DEFINE made == UNION {FactoryAverage(expr), FactoryGroupConcat(expr), FactoryMax(expr),
                          FactoryMin(expr), FactorySample(expr), FactorySum(expr),
                          FactoryCount(expr), FactoryWildcardCount(expr)}
<1>1. made = {expr.aggregator}
  BY DEF FactoryAverage, FactoryGroupConcat, FactoryMax, FactoryMin, FactorySample, FactorySum,
         FactoryCount, FactoryWildcardCount, Made, AggregatorNames
<1>2. (CHOOSE x \in made : TRUE) = expr.aggregator
  BY <1>1
<1>3. expr.aggregator # "wildcard count"
  BY DEF AggregatorNames
<1> QED  BY <1>2, <1>3 DEF AggregateOver, OutcomesOf

(* An expression that fails for one solution of a group makes the aggregate   *)
(* unbound, whichever aggregator it is, with or without DISTINCT, how many    *)
(* solutions come before and after it and in whatever order (putBindings and  *)
(* result of AggregateEvaluator.ts).                                          *)
THEOREM FailureUnbindsAggregate ==
  ASSUME NEW expr, NEW S, NEW solutions \in Seq(S), NEW variables,
         expr.aggregator \in AggregatorNames, expr.expression.kind # "wildcard",
         expr.distinct \in BOOLEAN,
         NEW i \in DOMAIN solutions, Fails(evaluate(expr.expression, solutions[i]))
  PROVE  AggregateOver(expr, solutions, variables) = NoTerm
<1> DEFINE outcomes == OutcomesOf(expr, solutions)
           n == Len(solutions)
<1>1. outcomes \in Seq({outcomes[j] : j \in 1 .. n}) /\ Len(outcomes) = n /\ n \in Nat
  BY DEF OutcomesOf
<1>2. i \in 1 .. n /\ Fails(outcomes[i])
  BY DEF OutcomesOf
<1> HIDE DEF outcomes, n
<1>3. PICK state : IsRun(expr.aggregator, expr.distinct, outcomes, state)
  BY <1>1, AggregateRuns
<1> DEFINE K == {j \in Nat : j <= n => /\ IsAggregate(state[j])
                                       /\ i <= j => state[j].errorOccurred}
<1>4. 0 \in K
  <2>1. state[0] = EmptyAggregate
    BY <1>3 DEF IsRun
  <2>2. IsAggregate(EmptyAggregate)
    BY DEF IsAggregate, EmptyAggregate
  <2> QED  BY <1>2, <2>1, <2>2
<1>5. ASSUME NEW j \in Nat, j \in K PROVE j + 1 \in K
  <2> SUFFICES ASSUME j + 1 <= n
               PROVE  IsAggregate(state[j + 1]) /\ (i <= j + 1 => state[j + 1].errorOccurred)
    OBVIOUS
  <2>1. j \in 0 .. n - 1 /\ j <= n /\ (i <= j + 1 => i <= j \/ i = j + 1)
    BY <1>1, <1>2
  <2>2. IsAggregate(state[j]) /\ (i <= j => state[j].errorOccurred)
    BY <1>5, <2>1
  <2>3. state[j + 1] = putBindings(expr.aggregator, expr.distinct, state[j], outcomes[j + 1])
    BY <1>1, <1>3, <2>1 DEF IsRun
  <2> QED  BY <1>2, <2>1, <2>2, <2>3, PutKeeps
<1> HIDE DEF K
<1>6. n \in K
  BY <1>1, <1>4, <1>5, Induction
<1>7. state[n].errorOccurred
  BY <1>1, <1>2, <1>6 DEF K
<1>8. Aggregate(expr.aggregator, expr.distinct, outcomes) = NoTerm
  BY <1>1, <1>3, <1>7 DEF IsRun, result
<1> QED  BY <1>8, AggregateOverOutcomes DEF outcomes

(* All solutions but the one at a position. *)
Without(solutions, i) ==
    [j \in 1 .. Len(solutions) - 1 |-> IF j < i THEN solutions[j] ELSE solutions[j + 1]]

(* A solution for which a variable of the expression is unbound makes no      *)
(* difference to the aggregate, wherever it comes in its group: by repeating  *)
(* it, only the other solutions count (putBindings of AggregateEvaluator.ts). *)
THEOREM UnboundIsSkipped ==
  ASSUME NEW expr, NEW S, NEW solutions \in Seq(S), NEW variables,
         expr.aggregator \in AggregatorNames, expr.expression.kind # "wildcard",
         expr.distinct \in BOOLEAN,
         NEW i \in DOMAIN solutions, evaluate(expr.expression, solutions[i]) = UnboundVariable
  PROVE  AggregateOver(expr, Without(solutions, i), variables)
           = AggregateOver(expr, solutions, variables)
<1> DEFINE outcomes == OutcomesOf(expr, solutions)
           others == OutcomesOf(expr, Without(solutions, i))
           n == Len(solutions)
<1>1. /\ outcomes \in Seq({outcomes[j] : j \in 1 .. n}) /\ Len(outcomes) = n /\ n \in Nat
      /\ i \in 1 .. n /\ outcomes[i] = UnboundVariable
  BY DEF OutcomesOf
<1>2. /\ DOMAIN others = 1 .. n - 1
      /\ \A j \in 1 .. n - 1 : others[j] = IF j < i THEN outcomes[j] ELSE outcomes[j + 1]
  <2>1. \A j \in 1 .. n - 1 : j \in DOMAIN solutions /\ j + 1 \in DOMAIN solutions
    BY <1>1
  <2> QED  BY <2>1 DEF OutcomesOf, Without
<1>3. others \in Seq({others[j] : j \in 1 .. n - 1}) /\ Len(others) = n - 1
  <2>1. others = [j \in 1 .. n - 1 |-> others[j]] /\ n - 1 \in Nat
    BY <1>1, <1>2 DEF OutcomesOf
  <2> HIDE DEF others, n
  <2> QED  BY <2>1
<1> HIDE DEF outcomes, others, n
<1>4. PICK state : IsRun(expr.aggregator, expr.distinct, outcomes, state)
  BY <1>1, AggregateRuns
<1>5. PICK less : IsRun(expr.aggregator, expr.distinct, others, less)
  BY <1>3, AggregateRuns
<1> DEFINE put(agg, outcome) == putBindings(expr.aggregator, expr.distinct, agg, outcome)
<1>6. /\ state[0] = EmptyAggregate
      /\ \A j \in Nat : j + 1 <= n => state[j + 1] = put(state[j], outcomes[j + 1])
  BY <1>1, <1>4 DEF IsRun
<1>7. /\ less[0] = EmptyAggregate
      /\ \A j \in Nat : j + 1 <= n - 1 => less[j + 1] = put(less[j], others[j + 1])
  BY <1>1, <1>3, <1>5 DEF IsRun
<1>8. \A agg : put(agg, UnboundVariable) = agg
  BY DEF putBindings, UnboundVariable
<1> HIDE DEF put
<1>9. state[i] = state[i - 1]
  <2>1. i - 1 \in Nat /\ (i - 1) + 1 = i /\ i <= n
    BY <1>1
  <2> QED  BY <1>1, <1>6, <1>8, <2>1
<1> DEFINE K == {j \in Nat : j <= n - 1 => less[j] = IF j < i THEN state[j] ELSE state[j + 1]}
<1>10. 0 \in K
  BY <1>1, <1>6, <1>7
<1>11. ASSUME NEW j \in Nat, j \in K PROVE j + 1 \in K
  <2> SUFFICES ASSUME j + 1 <= n - 1
               PROVE  less[j + 1] = IF j + 1 < i THEN state[j + 1] ELSE state[j + 1 + 1]
    OBVIOUS
  <2>1. /\ j <= n - 1 /\ j + 1 <= n /\ j + 1 + 1 <= n /\ j + 1 \in Nat /\ j + 1 \in 1 .. n - 1
    BY <1>1
  <2>2. less[j] = IF j < i THEN state[j] ELSE state[j + 1]
    BY <1>11, <2>1
  <2>3. /\ less[j + 1] = put(less[j], others[j + 1])
        /\ state[j + 1] = put(state[j], outcomes[j + 1])
        /\ state[j + 1 + 1] = put(state[j + 1], outcomes[j + 1 + 1])
        /\ others[j + 1] = IF j + 1 < i THEN outcomes[j + 1] ELSE outcomes[j + 1 + 1]
    BY <1>2, <1>6, <1>7, <2>1
  <2>4. CASE j + 1 < i
    <3>1. j < i
      BY <1>1, <2>4
    <3> QED  BY <2>2, <2>3, <2>4, <3>1
  <2>5. CASE j + 1 = i
    <3>1. j < i /\ i - 1 = j
      BY <1>1, <2>5
    <3>2. state[j + 1] = state[j]
      BY <1>9, <2>5, <3>1
    <3> QED  BY <1>1, <2>2, <2>3, <2>5, <3>1, <3>2
  <2>6. CASE i < j + 1
    <3>1. ~ (j < i) /\ ~ (j + 1 < i)
      BY <1>1, <2>6
    <3> QED  BY <2>2, <2>3, <3>1
  <2> QED  BY <1>1, <2>4, <2>5, <2>6
<1> HIDE DEF K
<1>12. n - 1 \in K
  <2>1. n - 1 \in Nat
    BY <1>1
  <2> QED  BY <1>10, <1>11, <2>1, Induction
<1>13. less[n - 1] = state[n]
  <2>1. less[n - 1] = IF n - 1 < i THEN state[n - 1] ELSE state[n]
    BY <1>1, <1>12 DEF K
  <2>2. n - 1 < i => i = n
    BY <1>1
  <2> QED  BY <1>9, <2>1, <2>2
<1>14. Aggregate(expr.aggregator, expr.distinct, others)
         = Aggregate(expr.aggregator, expr.distinct, outcomes)
  BY <1>1, <1>3, <1>4, <1>5, <1>13 DEF IsRun
<1> QED  BY <1>14, AggregateOverOutcomes DEF outcomes, others

(* What COUNT has counted after the outcomes up to a position: those that are *)
(* terms, with DISTINCT each term once.                                       *)
TermsUpTo(outcomes, j) == {i \in 1 .. j : ~ IsError(outcomes[i])}
Counted(distinct, outcomes, j) ==
    IF distinct THEN {outcomes[i] : i \in TermsUpTo(outcomes, j)} ELSE TermsUpTo(outcomes, j)
CountState(counted) == IF counted = {} THEN NoState ELSE [count |-> Cardinality(counted)]
HasCounted(agg, distinct, outcomes, j) ==
    /\ IsFiniteSet(Counted(distinct, outcomes, j))
    /\ agg.errorOccurred = FALSE
    /\ agg = MadeOf(agg.errorOccurred,
                    IF distinct THEN Counted(distinct, outcomes, j) ELSE {},
                    CountState(Counted(distinct, outcomes, j)))

(* One more counted makes the count one more. *)
LEMMA CountStates ==
  ASSUME NEW counted, IsFiniteSet(counted), NEW x, x \notin counted, NEW term
  PROVE  /\ putTerm("count", CountState(counted), term) = CountState(counted \cup {x})
         /\ ~ IsError(CountState(counted \cup {x}))
<1>1. Cardinality(counted \cup {x}) = Cardinality(counted) + 1 /\ Cardinality(counted) \in Nat
  BY FS_AddElement, FS_CardinalityType
<1>2. counted = {} => Cardinality(counted) = 0
  BY FS_EmptySet
<1>3. \A k : [count |-> k] # NoState /\ ~ IsError([count |-> k]) /\ [count |-> k].count = k
  <2>1. DOMAIN NoState = {"termType"}
    BY DEF NoState
  <2>2. \A k : DOMAIN [count |-> k] = {"count"}
    OBVIOUS
  <2> QED  BY <2>1, <2>2 DEF IsError
<1>4. CountState(counted \cup {x}) = [count |-> Cardinality(counted) + 1]
  BY <1>1 DEF CountState
<1>5. CountAggregator(CountState(counted), term) = [count |-> Cardinality(counted) + 1]
  <2>1. CASE counted = {}
    BY <1>2, <2>1 DEF CountState, CountAggregator
  <2>2. CASE counted # {}
    <3>1. CountState(counted) = [count |-> Cardinality(counted)]
      BY <2>2 DEF CountState
    <3> QED  BY <1>3, <3>1 DEF CountAggregator
  <2> QED  BY <2>1, <2>2
<1>6. putTerm("count", CountState(counted), term) = CountAggregator(CountState(counted), term)
  BY DEF putTerm
<1> QED  BY <1>3, <1>4, <1>5, <1>6

(* Each outcome is counted when it is a term, and new with DISTINCT. *)
LEMMA CountStep ==
  ASSUME NEW distinct \in BOOLEAN, NEW outcomes, NEW j \in Nat, NEW agg,
         HasCounted(agg, distinct, outcomes, j), ~ Fails(outcomes[j + 1])
  PROVE  HasCounted(putBindings("count", distinct, agg, outcomes[j + 1]), distinct, outcomes, j + 1)
<1> DEFINE outcome == outcomes[j + 1]
           counted == Counted(distinct, outcomes, j)
           next == putBindings("count", distinct, agg, outcome)
           skipped == IsError(outcome) \/ (distinct /\ outcome \in counted)
           x == IF distinct THEN outcome ELSE j + 1
<1>1. TermsUpTo(outcomes, j + 1) = IF IsError(outcome) THEN TermsUpTo(outcomes, j)
                                   ELSE TermsUpTo(outcomes, j) \cup {j + 1}
  <2>1. 1 .. j + 1 = (1 .. j) \cup {j + 1}
    OBVIOUS
  <2> QED  BY <2>1 DEF TermsUpTo
<1>2. j + 1 \notin TermsUpTo(outcomes, j)
  BY DEF TermsUpTo
<1>3. IsFiniteSet(counted) /\ IsFiniteSet(counted \cup {x})
  <2>1. IsFiniteSet(counted)
    BY DEF HasCounted
  <2> HIDE DEF counted, x
  <2> QED  BY <2>1, FS_AddElement
<1>4. Counted(distinct, outcomes, j + 1) = IF skipped THEN counted ELSE counted \cup {x}
  <2> DEFINE before == TermsUpTo(outcomes, j)
  <2>0. IsError(outcome) \in BOOLEAN
    BY DEF IsError
  <2>1. CASE ~ distinct
    <3>1. /\ counted = before /\ x = j + 1
          /\ Counted(distinct, outcomes, j + 1) = TermsUpTo(outcomes, j + 1)
      BY <2>1 DEF Counted
    <3> HIDE DEF before, counted, x, outcome
    <3>2. TermsUpTo(outcomes, j + 1) = IF IsError(outcome) THEN before ELSE before \cup {j + 1}
      BY <1>1 DEF before, outcome
    <3> QED  BY <2>0, <2>1, <3>1, <3>2
  <2>2. CASE distinct
    <3>1. {outcomes[i] : i \in before \cup {j + 1}} = {outcomes[i] : i \in before} \cup {outcome}
      OBVIOUS
    <3> HIDE DEF before
    <3>2. counted = {outcomes[i] : i \in before} /\ x = outcome
      BY <2>2 DEF Counted, before
    <3>3. Counted(distinct, outcomes, j + 1)
            = IF IsError(outcome) THEN counted ELSE counted \cup {outcome}
      <4>1. CASE IsError(outcome)
        BY <1>1, <2>2, <3>2, <4>1 DEF Counted, before
      <4>2. CASE ~ IsError(outcome)
        <5>1. TermsUpTo(outcomes, j + 1) = before \cup {j + 1}
          BY <1>1, <4>2 DEF before
        <5> QED  BY <2>2, <3>1, <3>2, <4>2, <5>1 DEF Counted
      <4> QED  BY <4>1, <4>2
    <3> HIDE DEF counted, x, outcome
    <3>4. outcome \in counted => counted \cup {outcome} = counted
      OBVIOUS
    <3> QED  BY <2>0, <2>2, <3>2, <3>3, <3>4
  <2> QED  BY <2>1, <2>2
<1>5. ~ skipped => x \notin counted
  BY <1>2 DEF Counted
<1>6. /\ agg.errorOccurred = FALSE
      /\ agg = MadeOf(agg.errorOccurred, IF distinct THEN counted ELSE {}, CountState(counted))
      /\ ~ IsError(outcome) => outcome # UnboundVariable
      /\ IsError(outcome) => outcome = UnboundVariable
  BY ErrorIsError DEF HasCounted, Fails, UnboundVariable
<1> HIDE DEF counted, x, outcome
<1>7. agg.errorOccurred = FALSE /\ agg.state = CountState(counted)
      /\ agg.variableValues = IF distinct THEN counted ELSE {}
  BY <1>6, AggregateFields
<1>8. CASE skipped
  <2>1. next = agg
    BY <1>6, <1>7, <1>8 DEF putBindings, UnboundVariable
  <2> QED  BY <1>3, <1>4, <1>6, <1>8, <2>1 DEF HasCounted, outcome
<1>9. CASE ~ skipped
  <2> DEFINE put == putTerm("count", agg.state, outcome)
             values == IF distinct THEN agg.variableValues \cup {outcome} ELSE agg.variableValues
  <2>1. put = CountState(counted \cup {x}) /\ ~ IsError(put)
    BY <1>3, <1>5, <1>7, <1>9, CountStates
  <2>2. /\ outcome # UnboundVariable /\ ~ IsError(outcome)
        /\ (distinct /\ outcome \in agg.variableValues) = FALSE
    <3>1. ~ IsError(outcome) /\ ~ (distinct /\ outcome \in counted)
      BY <1>9
    <3> HIDE DEF skipped
    <3>2. distinct => outcome \notin agg.variableValues
      BY <1>7, <3>1
    <3> QED  BY <1>6, <3>1, <3>2
  <2>3. next = AfterPut(agg, put, values)
    <3>1. next = IF IsError(put) THEN Failed(agg) ELSE AfterPut(agg, put, values)
      BY <1>7, <2>2 DEF putBindings, UnboundVariable, Failed, AfterPut
    <3> HIDE DEF next, put, values
    <3> QED  BY <2>1, <3>1
  <2>4. values = IF distinct THEN counted \cup {x} ELSE {}
    BY <1>7 DEF x
  <2> HIDE DEF put, values
  <2>5. AfterPut(agg, put, values) = MadeOf(agg.errorOccurred, values, put)
    BY <1>6, AfterPutFields
  <2>6. MadeOf(agg.errorOccurred, values, put).errorOccurred = agg.errorOccurred
    BY AggregateFields
  <2> QED  BY <1>3, <1>4, <1>6, <1>9, <2>1, <2>3, <2>4, <2>5, <2>6 DEF HasCounted, outcome
<1> QED  BY <1>8, <1>9 DEF outcome

(* COUNT of an expression that fails for no solution is the number of those   *)
(* for which it has a value, and with DISTINCT the number of its values: for  *)
(* any number of solutions, and hence in any order (CountAggregator.ts and    *)
(* AggregateEvaluator.ts).                                                    *)
THEOREM CountIsOfTerms ==
  ASSUME NEW expr, NEW S, NEW solutions \in Seq(S), NEW variables,
         expr.aggregator = "count", expr.expression.kind # "wildcard", expr.distinct \in BOOLEAN,
         \A i \in DOMAIN solutions : ~ Fails(evaluate(expr.expression, solutions[i]))
  PROVE  LET value(i) == evaluate(expr.expression, solutions[i])
             counted == {i \in DOMAIN solutions : ~ IsError(value(i))}
         IN  AggregateOver(expr, solutions, variables)
               = CountLiteral(Cardinality(IF expr.distinct THEN {value(i) : i \in counted}
                                                           ELSE counted))
<1> DEFINE outcomes == OutcomesOf(expr, solutions)
           n == Len(solutions)
           value(i) == evaluate(expr.expression, solutions[i])
           valued == {i \in DOMAIN solutions : ~ IsError(value(i))}
<1>1. outcomes \in Seq({outcomes[j] : j \in 1 .. n}) /\ Len(outcomes) = n /\ n \in Nat
  BY DEF OutcomesOf
<1>2. \A j \in 1 .. n : ~ Fails(outcomes[j])
  BY DEF OutcomesOf
<1>3. Counted(expr.distinct, outcomes, n)
        = IF expr.distinct THEN {value(i) : i \in valued} ELSE valued
  <2>1. DOMAIN solutions = 1 .. n /\ \A i \in DOMAIN solutions : outcomes[i] = value(i)
    BY DEF OutcomesOf
  <2> HIDE DEF outcomes, value, n
  <2>2. TermsUpTo(outcomes, n) = valued
    BY <2>1 DEF TermsUpTo
  <2>3. {outcomes[i] : i \in valued} = {value(i) : i \in valued}
    BY <2>1
  <2> QED  BY <2>2, <2>3 DEF Counted
<1> HIDE DEF outcomes, n, value, valued
<1>4. PICK state : IsRun("count", expr.distinct, outcomes, state)
  BY <1>1, AggregateRuns
<1> DEFINE K == {j \in Nat : j <= n => HasCounted(state[j], expr.distinct, outcomes, j)}
<1>5. 0 \in K
  <2>1. Counted(expr.distinct, outcomes, 0) = {}
    BY DEF Counted, TermsUpTo
  <2>2. HasCounted(EmptyAggregate, expr.distinct, outcomes, 0)
    BY <2>1, FS_EmptySet DEF HasCounted, EmptyAggregate, MadeOf, CountState
  <2> QED  BY <1>4, <2>2 DEF IsRun
<1>6. ASSUME NEW j \in Nat, j \in K PROVE j + 1 \in K
  <2> SUFFICES ASSUME j + 1 <= n PROVE HasCounted(state[j + 1], expr.distinct, outcomes, j + 1)
    OBVIOUS
  <2>1. j \in 0 .. n - 1 /\ j <= n /\ j + 1 \in 1 .. n
    BY <1>1
  <2>2. HasCounted(state[j], expr.distinct, outcomes, j)
    BY <1>6, <2>1
  <2>3. state[j + 1] = putBindings("count", expr.distinct, state[j], outcomes[j + 1])
    BY <1>1, <1>4, <2>1 DEF IsRun
  <2> QED  BY <1>2, <2>1, <2>2, <2>3, CountStep
<1> HIDE DEF K
<1>7. n \in K
  BY <1>1, <1>5, <1>6, Induction
<1> DEFINE counted == Counted(expr.distinct, outcomes, n)
<1>8. state[n].errorOccurred = FALSE /\ state[n].state = CountState(counted)
  BY <1>1, <1>7, AggregateFields DEF K, HasCounted
<1> HIDE DEF counted
<1>9. termResult("count", CountState(counted)) = CountLiteral(Cardinality(counted))
  <2>1. CASE counted = {}
    <3>1. CountState(counted) = NoState /\ Cardinality(counted) = 0
      BY <2>1, FS_EmptySet DEF CountState
    <3> QED  BY <3>1 DEF termResult, emptyValueTerm
  <2>2. CASE counted # {}
    <3>1. CountState(counted) = [count |-> Cardinality(counted)]
      BY <2>2 DEF CountState
    <3>2. [count |-> Cardinality(counted)] # NoState
      <4>1. DOMAIN NoState = {"termType"} /\ DOMAIN [count |-> Cardinality(counted)] = {"count"}
        BY DEF NoState
      <4> QED  BY <4>1
    <3> QED  BY <3>1, <3>2 DEF termResult
  <2> QED  BY <2>1, <2>2
<1>10. Aggregate("count", expr.distinct, outcomes) = CountLiteral(Cardinality(counted))
  BY <1>1, <1>4, <1>8, <1>9 DEF IsRun, result
<1> QED  BY <1>3, <1>10, AggregateOverOutcomes DEF outcomes, counted, value, valued, AggregatorNames
=============================================================================
