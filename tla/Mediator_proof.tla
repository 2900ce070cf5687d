--------------------------- MODULE Mediator_proof ---------------------------
(* For any actors, identifiers, dependencies, costs and weights: what        *)
(* reordering a bus for its dependencies keeps and achieves, that each       *)
(* mediator runs the actors it documents with the side data of their own     *)
(* tests, and that it implements the promise of a mediation.                 *)
EXTENDS Mediator, FiniteSetTheorems, SequenceTheorems, WellFoundedInduction, TLAPS

Link == [after : Actor, before : Seq(Actor)]
Links == Seq(Link)

\* No actor has two entries in the map of dependency links.
OneLinkEach(links) ==
  \A i, j \in DOMAIN links : links[i].after = links[j].after => i = j

Orders == [actors : Seq(Actor), pending : Seq(Actor), thrown : BOOLEAN]
Buses ==
  [list : Seq(Actor), links : Links, index : [Identifier \cup {AnyId} -> Seq(Actor)],
   thrown : BOOLEAN]

BusTypeOK ==
  /\ indexed \in BOOLEAN /\ actors \in Seq(Actor) /\ dependencyLinks \in Links
  /\ actorsIndex \in [Identifier \cup {AnyId} -> Seq(Actor)]
  /\ constructed \subseteq Actor /\ broken \in BOOLEAN /\ operations \in Nat

\* What was broken once stays cyclic.
BusInv == BusTypeOK /\ OneLinkEach(dependencyLinks) /\ (broken => Cyclic(dependencyLinks))

-----------------------------------------------------------------------------
(* Induction over the natural numbers, and what a recursive function is.   *)
LEMMA LeastNat ==
  ASSUME NEW S \in SUBSET Nat, S # {}
  PROVE  \E x \in S : \A y \in S : x <= y
<1>1. PICK x \in S : \A y \in S : ~ (<<y, x>> \in OpToRel(<, Nat))
  BY NatLessThanWellFounded, WFMin
<1>2. ASSUME NEW y \in S PROVE x <= y
  <2>1. ~ (<<y, x>> \in {ss \in Nat \X Nat : ss[1] < ss[2]})
    BY <1>1 DEF OpToRel
  <2> QED  BY <2>1
<1> QED  BY <1>2

LEMMA Induct ==
  ASSUME NEW S, 0 \in S, \A n \in Nat : n \in S => n + 1 \in S
  PROVE  \A n \in Nat : n \in S
<1> SUFFICES ASSUME NEW n \in Nat, n \notin S PROVE FALSE
  OBVIOUS
<1> DEFINE T == Nat \ S
<1>1. PICK x \in T : \A y \in T : x <= y
  <2>1. T \in SUBSET Nat /\ T # {}
    OBVIOUS
  <2> HIDE DEF T
  <2> QED  BY <2>1, LeastNat
<1>2. x - 1 \in Nat /\ x - 1 \notin T
  BY <1>1
<1> QED  BY <1>1, <1>2

\* Steps that stay within a set can be taken one after the other.
Steps(V, N, base, step) == N \in Nat /\ base \in V /\ step \in [1 .. N -> [V -> V]]
Iterated(f, V, N, base, step) ==
  f \in [0 .. N -> V] /\ f[0] = base /\ \A k \in 1 .. N : f[k] = step[k][f[k - 1]]

LEMMA Iterates ==
  ASSUME NEW V, NEW N, NEW base, NEW step, Steps(V, N, base, step)
  PROVE  \E f : Iterated(f, V, N, base, step)
<1>1. N \in Nat /\ base \in V /\ step \in [1 .. N -> [V -> V]]
  BY DEF Steps
<1> DEFINE T == {n \in Nat : n <= N => \E f : Iterated(f, V, n, base, step)}
<1>2. 0 \in T
  <2> DEFINE f == [k \in 0 .. 0 |-> base]
  <2>1. f \in [0 .. 0 -> V] /\ f[0] = base /\ \A k \in 1 .. 0 : f[k] = step[k][f[k - 1]]
    BY <1>1
  <2>2. Iterated(f, V, 0, base, step)
    BY <2>1 DEF Iterated
  <2> QED  BY <2>2
<1>3. ASSUME NEW n \in Nat, n \in T PROVE n + 1 \in T
  <2> SUFFICES ASSUME n + 1 <= N PROVE \E g : Iterated(g, V, n + 1, base, step)
    OBVIOUS
  <2>1. PICK f : Iterated(f, V, n, base, step)
    BY <1>1, <1>3
  <2>2. f \in [0 .. n -> V] /\ f[0] = base /\ \A k \in 1 .. n : f[k] = step[k][f[k - 1]]
    BY <2>1 DEF Iterated
  <2> DEFINE g == [k \in 0 .. n + 1 |-> IF k = n + 1 THEN step[k][f[n]] ELSE f[k]]
  <2>3. /\ \A k \in 0 .. n : g[k] = f[k] /\ k \in 0 .. n + 1
        /\ g[n + 1] = step[n + 1][f[n]] /\ n + 1 \in 1 .. N
        /\ f[n] \in V
    BY <1>1, <2>2
  <2>4. \A k \in 0 .. n + 1 : k \in 0 .. n \/ k = n + 1
    OBVIOUS
  <2>5. g \in [0 .. n + 1 -> V]
    <3>1. \A k \in 0 .. n + 1 : g[k] \in V
      <4> HIDE DEF g
      <4> QED  BY <1>1, <2>2, <2>3, <2>4
    <3> QED  BY <3>1
  <2> HIDE DEF g
  <2>6. ASSUME NEW k \in 1 .. n + 1 PROVE g[k] = step[k][g[k - 1]]
    <3>1. k - 1 \in 0 .. n /\ g[k - 1] = f[k - 1]
      BY <2>3
    <3>2. CASE k = n + 1
      BY <2>3, <3>1, <3>2
    <3>3. CASE k # n + 1
      BY <2>2, <2>3, <3>1, <3>3
    <3> QED  BY <3>2, <3>3
  <2>7. g[0] = base
    BY <2>2, <2>3
  <2>8. Iterated(g, V, n + 1, base, step)
    BY <2>5, <2>6, <2>7 DEF Iterated
  <2> QED  BY <2>8
<1> HIDE DEF T
<1>4. N \in T
  BY <1>1, <1>2, <1>3, Induct
<1> QED  BY <1>1, <1>4 DEF T

LEMMA StaysWithin ==
  ASSUME NEW V, NEW N \in Nat, NEW f, f[0] \in V, \A k \in 1 .. N : f[k - 1] \in V => f[k] \in V
  PROVE  \A k \in 0 .. N : f[k] \in V
<1> DEFINE T == {k \in Nat : k <= N => f[k] \in V}
<1>1. 0 \in T
  OBVIOUS
<1>2. ASSUME NEW k \in Nat, k \in T PROVE k + 1 \in T
  <2> SUFFICES ASSUME k + 1 <= N PROVE f[k + 1] \in V
    OBVIOUS
  <2>1. k + 1 \in 1 .. N /\ (k + 1) - 1 = k /\ f[k] \in V
    BY <1>2
  <2> QED  BY <2>1
<1> HIDE DEF T
<1>3. \A k \in Nat : k \in T
  BY <1>1, <1>2, Induct
<1> QED  BY <1>3 DEF T

-----------------------------------------------------------------------------
(* Sequences of actors.                                                    *)
LEMMA RemoveAtFacts ==
  ASSUME NEW E, NEW s \in Seq(E), NEW i \in 1 .. Len(s)
  PROVE  /\ RemoveAt(s, i) \in Seq(E) /\ Len(RemoveAt(s, i)) = Len(s) - 1
         /\ \A j \in 1 .. Len(s) - 1 : RemoveAt(s, i)[j] = s[IF j < i THEN j ELSE j + 1]
<1> DEFINE front == SubSeq(s, 1, i - 1)
           rest == SubSeq(s, i + 1, Len(s))
<1>1. /\ front \in Seq(E) /\ Len(front) = i - 1
      /\ \A j \in 1 .. i - 1 : front[j] = s[j]
  OBVIOUS
<1>2. /\ rest \in Seq(E) /\ Len(rest) = Len(s) - i
      /\ \A j \in 1 .. Len(s) - i : rest[j] = s[i + j]
  OBVIOUS
<1>3. RemoveAt(s, i) = front \o rest
  BY DEF RemoveAt
<1> HIDE DEF front, rest
<1>4. /\ front \o rest \in Seq(E) /\ Len(front \o rest) = Len(s) - 1
      /\ \A j \in 1 .. Len(s) - 1 :
           (front \o rest)[j] = IF j <= Len(front) THEN front[j] ELSE rest[j - Len(front)]
  <2>1. Len(front) + Len(rest) = Len(s) - 1
    BY <1>1, <1>2
  <2>2. /\ front \o rest \in Seq(E) /\ Len(front \o rest) = Len(front) + Len(rest)
        /\ \A j \in 1 .. Len(front) + Len(rest) :
             (front \o rest)[j] = IF j <= Len(front) THEN front[j] ELSE rest[j - Len(front)]
    BY <1>1, <1>2, ConcatProperties
  <2> QED  BY <2>1, <2>2
<1>5. ASSUME NEW j \in 1 .. Len(s) - 1
      PROVE  RemoveAt(s, i)[j] = s[IF j < i THEN j ELSE j + 1]
  <2>1. CASE j < i
    BY <1>1, <1>3, <1>4, <2>1
  <2>2. CASE ~(j < i)
    <3>1. j - Len(front) \in 1 .. Len(s) - i /\ i + (j - Len(front)) = j + 1
      BY <1>1, <2>2
    <3>2. RemoveAt(s, i)[j] = rest[j - Len(front)]
      BY <1>1, <1>3, <1>4, <2>2
    <3> QED  BY <1>2, <2>2, <3>1, <3>2
  <2> QED  BY <2>1, <2>2
<1> QED  BY <1>3, <1>4, <1>5

At(s, a) == {i \in DOMAIN s : s[i] = a}

LEMMA OccurrencesFacts ==
  ASSUME NEW E, NEW s \in Seq(E), NEW a
  PROVE  /\ IsFiniteSet(At(s, a)) /\ Occurrences(s, a) = Cardinality(At(s, a))
         /\ Occurrences(s, a) \in Nat
         /\ Occurrences(s, a) = 0 <=> ~Contains(s, a)
         /\ Occurrences(s, a) <= 1
              => \A i, j \in DOMAIN s : s[i] = a /\ s[j] = a => i = j
<1>1. DOMAIN s = 1 .. Len(s) /\ Len(s) \in Nat
  OBVIOUS
<1>2. IsFiniteSet(At(s, a))
  <2>1. IsFiniteSet(DOMAIN s) /\ At(s, a) \subseteq DOMAIN s
    BY <1>1, FS_Interval DEF At
  <2> QED  BY <2>1, FS_Subset
<1>3. Occurrences(s, a) = Cardinality(At(s, a))
  BY DEF Occurrences, At
<1>4. Cardinality(At(s, a)) \in Nat
  BY <1>2, FS_CardinalityType
<1>5. Cardinality(At(s, a)) = 0 <=> At(s, a) = {}
  BY <1>2, FS_EmptySet
<1>6. At(s, a) = {} <=> ~Contains(s, a)
  BY <1>1 DEF At, Contains
<1>7. ASSUME Cardinality(At(s, a)) <= 1, NEW i \in At(s, a), NEW j \in At(s, a) PROVE i = j
  <2>1. Cardinality(At(s, a)) = 1
    BY <1>4, <1>5, <1>7
  <2>2. \E x : At(s, a) = {x}
    BY <1>2, <2>1, FS_Singleton
  <2> QED  BY <1>7, <2>2
<1> QED  BY <1>2, <1>3, <1>4, <1>5, <1>6, <1>7 DEF At

LEMMA OccurrencesAppend ==
  ASSUME NEW E, NEW s \in Seq(E), NEW x \in E
  PROVE  /\ Occurrences(Append(s, x), x) = Occurrences(s, x) + 1
         /\ \A a : a # x => Occurrences(Append(s, x), a) = Occurrences(s, a)
<1> DEFINE t == Append(s, x)
<1>1. /\ Len(s) \in Nat /\ DOMAIN s = 1 .. Len(s) /\ Len(s) + 1 \notin DOMAIN s
      /\ DOMAIN t = DOMAIN s \cup {Len(s) + 1} /\ t[Len(s) + 1] = x
      /\ \A i \in DOMAIN s : t[i] = s[i]
  OBVIOUS
<1> HIDE DEF t
<1>2. At(t, x) = At(s, x) \cup {Len(s) + 1} /\ \A a : a # x => At(t, a) = At(s, a)
  BY <1>1 DEF At
<1>3. IsFiniteSet(At(s, x)) /\ Len(s) + 1 \notin At(s, x)
  <2>1. IsFiniteSet(At(s, x))
    BY OccurrencesFacts
  <2>2. Len(s) + 1 \notin At(s, x)
    BY <1>1 DEF At
  <2> QED  BY <2>1, <2>2
<1>4. Cardinality(At(t, x)) = Cardinality(At(s, x)) + 1
  BY <1>2, <1>3, FS_AddElement
<1> QED  BY <1>2, <1>4 DEF Occurrences, At, t

LEMMA OccurrencesRemoveAt ==
  ASSUME NEW E, NEW s \in Seq(E), NEW i \in 1 .. Len(s), NEW a
  PROVE  /\ s[i] = a => Occurrences(RemoveAt(s, i), a) = Occurrences(s, a) - 1
         /\ s[i] # a => Occurrences(RemoveAt(s, i), a) = Occurrences(s, a)
<1> DEFINE r == RemoveAt(s, i)
           from(j) == IF j < i THEN j ELSE j + 1
           B == [j \in At(r, a) |-> from(j)]
<1>1. r \in Seq(E) /\ Len(r) = Len(s) - 1 /\ \A j \in 1 .. Len(s) - 1 : r[j] = s[from(j)]
  BY RemoveAtFacts
<1> HIDE DEF r
<1>2. DOMAIN r = 1 .. Len(s) - 1 /\ DOMAIN s = 1 .. Len(s) /\ Len(s) \in Nat
  BY <1>1
<1>3. \A j \in At(r, a) : from(j) \in At(s, a) \ {i}
  BY <1>1, <1>2 DEF At
<1>4. \A j, k \in At(r, a) : from(j) = from(k) => j = k
  BY <1>2 DEF At
<1>5. \A m \in At(s, a) \ {i} : \E j \in At(r, a) : from(j) = m
  <2> SUFFICES ASSUME NEW m \in At(s, a) \ {i} PROVE \E j \in At(r, a) : from(j) = m
    OBVIOUS
  <2> DEFINE j == IF m < i THEN m ELSE m - 1
  <2>1. j \in 1 .. Len(s) - 1 /\ from(j) = m
    BY <1>2 DEF At
  <2>2. j \in At(r, a)
    BY <1>1, <1>2, <2>1 DEF At
  <2> QED  BY <2>1, <2>2
<1>6. B \in Bijection(At(r, a), At(s, a) \ {i})
  <2>1. B \in [At(r, a) -> At(s, a) \ {i}] /\ \A j \in At(r, a) : B[j] = from(j)
    BY <1>3
  <2> HIDE DEF B, from
  <2>2. \A j, k \in At(r, a) : B[j] = B[k] => j = k
    BY <1>4, <2>1
  <2>3. \A m \in At(s, a) \ {i} : \E j \in At(r, a) : B[j] = m
    BY <1>5, <2>1
  <2> QED  BY <2>1, <2>2, <2>3 DEF Bijection, Injection, Surjection, IsInjective
<1>7. IsFiniteSet(At(r, a)) /\ IsFiniteSet(At(s, a)) /\ Cardinality(At(s, a)) \in Nat
  BY <1>1, OccurrencesFacts, FS_CardinalityType
<1>8. Cardinality(At(s, a) \ {i}) = Cardinality(At(r, a))
  BY <1>6, <1>7, FS_Bijection DEF ExistsBijection
<1>9. i \in At(s, a) <=> s[i] = a
  BY <1>2 DEF At
<1>10. s[i] = a => Cardinality(At(s, a) \ {i}) = Cardinality(At(s, a)) - 1
  BY <1>7, <1>9, FS_RemoveElement
<1>11. s[i] # a => At(s, a) \ {i} = At(s, a)
  BY <1>9
<1> QED  BY <1>8, <1>10, <1>11 DEF Occurrences, At, r

\* The first place where a sequence has what is looked for.
LEMMA RemoveFirstFacts ==
  ASSUME NEW E, NEW s \in Seq(E), NEW x
  PROVE  /\ RemoveFirst(s, x) \in Seq(E)
         /\ Contains(s, x) => Occurrences(RemoveFirst(s, x), x) = Occurrences(s, x) - 1
         /\ ~Contains(s, x) => RemoveFirst(s, x) = s
         /\ \A a : a # x => Occurrences(RemoveFirst(s, x), a) = Occurrences(s, a)
<1>1. CASE ~Contains(s, x)
  <2>1. RemoveFirst(s, x) = s
    BY <1>1 DEF RemoveFirst, Contains
  <2> QED  BY <1>1, <2>1
<1>2. CASE Contains(s, x)
  <2> DEFINE I == {i \in 1 .. Len(s) : s[i] = x}
             first == Min(I)
  <2>1. RemoveFirst(s, x) = RemoveAt(s, first)
    BY <1>2 DEF RemoveFirst, Contains, SelectInSeq
  <2>2. first \in I
    <3>1. I \in SUBSET Nat /\ I # {}
      BY <1>2 DEF Contains
    <3> HIDE DEF I
    <3>2. \E i \in I : \A j \in I : i <= j
      BY <3>1, LeastNat
    <3> QED  BY <3>2 DEF Min
  <2> HIDE DEF first
  <2>3. first \in 1 .. Len(s) /\ s[first] = x
    BY <2>2
  <2> QED  BY <1>2, <2>1, <2>3, RemoveAtFacts, OccurrencesRemoveAt
<1> QED  BY <1>1, <1>2

-----------------------------------------------------------------------------
(* reorderForDependencies                                                  *)

\* The actor of a dependency link is after those it is linked to.
IsAfter(links, a) == \E i \in DOMAIN links : links[i].after = a

LEMMA BeforeOfFacts ==
  ASSUME NEW links \in Links, NEW a
  PROVE  BeforeOf(links, a) \subseteq Actor /\ (~IsAfter(links, a) => BeforeOf(links, a) = {})
<1>1. \A i \in DOMAIN links : links[i].before \in Seq(Actor)
  <2>1. \A i \in DOMAIN links : links[i] \in Link
    BY DEF Links
  <2> QED  BY <2>1 DEF Link
<1>2. \A i \in DOMAIN links : ToSet(links[i].before) \subseteq Actor
  BY <1>1 DEF ToSet
<1>3. BeforeOf(links, a) \subseteq Actor
  BY <1>2 DEF BeforeOf
<1>4. ASSUME ~IsAfter(links, a) PROVE BeforeOf(links, a) = {}
  <2>1. {j \in DOMAIN links : links[j].after = a} = {}
    BY <1>4 DEF IsAfter
  <2> QED  BY <2>1 DEF BeforeOf
<1> QED  BY <1>3, <1>4

\* How often an actor is in the bus or about to be put back.
Total(order, a) == Occurrences(order.actors, a) + Occurrences(order.pending, a)

\* What is taken out is as often there as before, and of the actors that are in
\* the bus once, those that come after others are all taken out.
LEMMA TakenFacts ==
  ASSUME NEW list \in Seq(Actor), NEW links \in Links, OneLinkEach(links)
  PROVE  LET order == Taken(list, links)
         IN /\ order \in Orders /\ ~order.thrown
            /\ \A a \in Actor : Total(order, a) = Occurrences(list, a)
            /\ \A i \in DOMAIN order.pending : IsAfter(links, order.pending[i])
            /\ (\A a \in Actor : Occurrences(list, a) <= 1)
                 => \A i \in DOMAIN order.actors : ~IsAfter(links, order.actors[i])
<1> DEFINE N == Len(links)
           base == [actors |-> list, pending |-> <<>>, thrown |-> FALSE]
           step == [k \in 1 .. N |-> [o \in Orders |-> Take(o, links[k].after)]]
           taken[k \in 0 .. N] == IF k = 0 THEN base ELSE Take(taken[k - 1], links[k].after)
           Once == \A a \in Actor : Occurrences(list, a) <= 1
<1>1. N \in Nat /\ DOMAIN links = 1 .. N /\ \A k \in 1 .. N : links[k].after \in Actor
  <2>1. N \in Nat /\ DOMAIN links = 1 .. N /\ \A k \in 1 .. N : links[k] \in Link
    BY DEF Links
  <2> QED  BY <2>1 DEF Link
<1>2. base \in Orders /\ \A a : Occurrences(<<>>, a) = 0
  <2>1. <<>> \in Seq(Actor)
    OBVIOUS
  <2>2. \A a : ~Contains(<<>>, a)
    BY DEF Contains
  <2> QED  BY <2>1, <2>2, OccurrencesFacts DEF Orders
<1>3. ASSUME NEW o \in Orders, NEW x \in Actor
      PROVE  /\ Take(o, x) \in Orders /\ Take(o, x).thrown = o.thrown
             /\ \A a \in Actor : Total(Take(o, x), a) = Total(o, a)
             /\ \A i \in DOMAIN Take(o, x).pending :
                  Take(o, x).pending[i] = x \/ \E j \in DOMAIN o.pending :
                                                 Take(o, x).pending[i] = o.pending[j]
             /\ \A a \in Actor : /\ Occurrences(Take(o, x).actors, a) <= Occurrences(o.actors, a)
                                 /\ Occurrences(o.actors, x) <= 1
                                      => Occurrences(Take(o, x).actors, x) = 0
  <2>1. CASE ~Contains(o.actors, x)
    <3>1. Take(o, x) = o
      BY <2>1 DEF Take
    <3>2. o.actors \in Seq(Actor)
      BY DEF Orders
    <3>3. \A a : Occurrences(o.actors, a) \in Nat
      BY <3>2, OccurrencesFacts
    <3>4. Occurrences(o.actors, x) = 0
      BY <2>1, <3>2, OccurrencesFacts
    <3> QED  BY <3>1, <3>3, <3>4
  <2>2. CASE Contains(o.actors, x)
    <3> DEFINE as == RemoveFirst(o.actors, x)
               pending == Append(o.pending, x)
    <3>1. o.actors \in Seq(Actor) /\ o.pending \in Seq(Actor) /\ o.thrown \in BOOLEAN
      BY DEF Orders
    <3>2. Take(o, x) = [o EXCEPT !.actors = as, !.pending = pending]
      BY <2>2 DEF Take
    <3>3. /\ as \in Seq(Actor)
          /\ Occurrences(as, x) = Occurrences(o.actors, x) - 1
          /\ \A a : a # x => Occurrences(as, a) = Occurrences(o.actors, a)
      BY <2>2, <3>1, RemoveFirstFacts
    <3>4. /\ pending \in Seq(Actor)
          /\ Occurrences(pending, x) = Occurrences(o.pending, x) + 1
          /\ \A a : a # x => Occurrences(pending, a) = Occurrences(o.pending, a)
          /\ \A i \in DOMAIN pending : pending[i] = x \/ \E j \in DOMAIN o.pending :
                                                          pending[i] = o.pending[j]
      BY <3>1, OccurrencesAppend
    <3>5. /\ Occurrences(o.actors, x) \in Nat /\ Occurrences(o.pending, x) \in Nat
          /\ Occurrences(as, x) \in Nat
      BY <3>1, <3>3, OccurrencesFacts
    <3> HIDE DEF as, pending
    <3>7. /\ Take(o, x) \in Orders /\ Take(o, x).thrown = o.thrown
          /\ Take(o, x).actors = as /\ Take(o, x).pending = pending
      BY <3>2, <3>3, <3>4 DEF Orders
    <3>8. \A a : Total(Take(o, x), a) = Total(o, a)
      <4> SUFFICES ASSUME NEW a PROVE Total(Take(o, x), a) = Total(o, a)
        OBVIOUS
      <4>1. CASE a = x
        BY <3>3, <3>4, <3>5, <3>7, <4>1 DEF Total
      <4>2. CASE a # x
        BY <3>3, <3>4, <3>7, <4>2 DEF Total
      <4> QED  BY <4>1, <4>2
    <3>9. Occurrences(o.actors, x) <= 1 => Occurrences(as, x) = 0
      BY <3>3, <3>5
    <3>10. \A a : Occurrences(as, a) <= Occurrences(o.actors, a)
      <4> SUFFICES ASSUME NEW a PROVE Occurrences(as, a) <= Occurrences(o.actors, a)
        OBVIOUS
      <4>1. CASE a = x
        BY <3>3, <3>5, <4>1
      <4>2. CASE a # x
        <5>1. Occurrences(o.actors, a) \in Nat
          BY <3>1, OccurrencesFacts
        <5>2. Occurrences(as, a) = Occurrences(o.actors, a)
          BY <3>3, <4>2
        <5> QED  BY <5>1, <5>2
      <4> QED  BY <4>1, <4>2
    <3> QED  BY <3>4, <3>7, <3>8, <3>9, <3>10
  <2> QED  BY <2>1, <2>2
<1>4. taken = [k \in 0 .. N |-> IF k = 0 THEN base ELSE Take(taken[k - 1], links[k].after)]
  <2> HIDE DEF N, base, taken
  <2>1. Steps(Orders, N, base, step)
    BY <1>1, <1>2, <1>3 DEF Steps
  <2>2. PICK f : Iterated(f, Orders, N, base, step)
    BY <2>1, Iterates
  <2>3. /\ f \in [0 .. N -> Orders] /\ f[0] = base
        /\ \A k \in 1 .. N : f[k - 1] \in Orders /\ f[k] = step[k][f[k - 1]]
    BY <1>1, <2>2 DEF Iterated
  <2>4. \A k \in 1 .. N : f[k] = Take(f[k - 1], links[k].after)
    BY <2>3
  <2>5. f = [k \in 0 .. N |-> IF k = 0 THEN base ELSE Take(f[k - 1], links[k].after)]
    BY <1>1, <2>3, <2>4
  <2> QED  BY <2>5 DEF taken
<1>5. Taken(list, links) = taken[N]
  BY DEF Taken
<1> HIDE DEF taken, N
<1>6. taken[0] = base /\ \A k \in 1 .. N : taken[k] = Take(taken[k - 1], links[k].after)
  <2> HIDE DEF base
  <2> QED  BY <1>1, <1>4
<1> HIDE DEF step
<1> DEFINE Good(k) ==
             /\ taken[k] \in Orders /\ ~taken[k].thrown
             /\ \A a \in Actor : Total(taken[k], a) = Occurrences(list, a)
             /\ \A i \in DOMAIN taken[k].pending : IsAfter(links, taken[k].pending[i])
             /\ Once => /\ \A a \in Actor : Occurrences(taken[k].actors, a) <= 1
                        /\ \A j \in 1 .. k : Occurrences(taken[k].actors, links[j].after) = 0
           T == {k \in Nat : k <= N => Good(k)}
<1>7. 0 \in T
  <2>1. /\ taken[0].actors = list /\ taken[0].pending = <<>> /\ taken[0].thrown = FALSE
        /\ taken[0] \in Orders
    BY <1>2, <1>6
  <2>2. \A a : Occurrences(list, a) \in Nat
    BY OccurrencesFacts
  <2>3. \A a \in Actor : Total(taken[0], a) = Occurrences(list, a)
    BY <1>2, <2>1, <2>2 DEF Total
  <2> QED  BY <2>1, <2>3
<1>8. ASSUME NEW k \in Nat, k \in T PROVE k + 1 \in T
  <2> SUFFICES ASSUME k + 1 <= N PROVE Good(k + 1)
    OBVIOUS
  <2> DEFINE o == taken[k]
             p == taken[k + 1]
             x == links[k + 1].after
  <2>1. /\ o \in Orders /\ ~o.thrown
        /\ \A a \in Actor : Total(o, a) = Occurrences(list, a)
        /\ \A i \in DOMAIN o.pending : IsAfter(links, o.pending[i])
        /\ Once => /\ \A a \in Actor : Occurrences(o.actors, a) <= 1
                   /\ \A j \in 1 .. k : Occurrences(o.actors, links[j].after) = 0
    BY <1>1, <1>8
  <2>2. p = Take(o, x) /\ x \in Actor /\ IsAfter(links, x)
    BY <1>1, <1>6 DEF IsAfter
  <2>x. x = links[k + 1].after
    OBVIOUS
  <2> HIDE DEF o, p, x
  <2>3. /\ p \in Orders /\ p.thrown = o.thrown
        /\ \A a \in Actor : Total(p, a) = Total(o, a)
        /\ \A i \in DOMAIN p.pending : p.pending[i] = x \/ \E j \in DOMAIN o.pending :
                                                             p.pending[i] = o.pending[j]
        /\ \A a \in Actor : Occurrences(p.actors, a) <= Occurrences(o.actors, a)
        /\ Occurrences(o.actors, x) <= 1 => Occurrences(p.actors, x) = 0
    BY <1>3, <2>1, <2>2
  <2>4. ASSUME Once
        PROVE  /\ \A a \in Actor : Occurrences(p.actors, a) <= 1
               /\ \A j \in 1 .. k + 1 : Occurrences(p.actors, links[j].after) = 0
    <3>1. /\ \A a \in Actor : Occurrences(o.actors, a) \in Nat
          /\ \A a \in Actor : Occurrences(p.actors, a) \in Nat
      BY <2>1, <2>3, OccurrencesFacts DEF Orders
    <3>2. \A a \in Actor : Occurrences(p.actors, a) <= 1
      BY <2>1, <2>3, <2>4, <3>1
    <3>3. ASSUME NEW j \in 1 .. k + 1 PROVE Occurrences(p.actors, links[j].after) = 0
      <4>1. CASE j = k + 1
        BY <2>1, <2>2, <2>x, <2>3, <2>4, <4>1
      <4>2. CASE j # k + 1
        <5>1. j \in 1 .. k /\ links[j].after \in Actor
          BY <1>1, <4>2
        <5> QED  BY <2>1, <2>3, <2>4, <3>1, <5>1
      <4> QED  BY <4>1, <4>2
    <3> QED  BY <3>2, <3>3
  <2>5. \A a \in Actor : Total(p, a) = Occurrences(list, a)
    BY <2>1, <2>3
  <2>6. \A i \in DOMAIN p.pending : IsAfter(links, p.pending[i])
    BY <2>1, <2>2, <2>3
  <2> QED  BY <2>1, <2>3, <2>4, <2>5, <2>6 DEF p
<1>9. Good(N)
  <2>1. N \in T
    <3> HIDE DEF T
    <3> QED  BY <1>1, <1>7, <1>8, Induct
  <2> QED  BY <1>1, <2>1
<1>10. ASSUME Once, NEW i \in DOMAIN taken[N].actors, IsAfter(links, taken[N].actors[i])
       PROVE  FALSE
  <2>1. taken[N].actors \in Seq(Actor)
    BY <1>9 DEF Orders
  <2>2. Occurrences(taken[N].actors, taken[N].actors[i]) = 0
    BY <1>1, <1>9, <1>10 DEF IsAfter
  <2>3. Contains(taken[N].actors, taken[N].actors[i])
    BY <1>10, <2>1 DEF Contains
  <2> QED  BY <2>1, <2>2, <2>3, OccurrencesFacts
<1> QED  BY <1>5, <1>9, <1>10

Stuck(order, links) ==
  order.pending # <<>> /\ \A i \in DOMAIN order.pending : ~MayFollow(order, links, order.pending[i])

InOrderOf(list, links) ==
  \A i, j \in DOMAIN list : list[i] \in BeforeOf(links, list[j]) => i < j

\* Those put back already are in order, and none waits for a pending one.
Sound(order, links) ==
  /\ InOrderOf(order.actors, links)
  /\ \A j \in DOMAIN order.actors :
       \A d \in BeforeOf(links, order.actors[j]) : ~Contains(order.pending, d)

LEMMA AppendNextFacts ==
  ASSUME NEW o \in Orders, NEW links
  PROVE  LET n == AppendNext(o, links)
         IN /\ n \in Orders
            /\ \/ /\ \A i \in DOMAIN o.pending : ~MayFollow(o, links, o.pending[i])
                  /\ n.actors = o.actors /\ n.pending = o.pending /\ n.thrown
               \/ \E i \in 1 .. Len(o.pending) :
                    /\ MayFollow(o, links, o.pending[i])
                    /\ n.actors = Append(o.actors, o.pending[i])
                    /\ n.pending = RemoveAt(o.pending, i) /\ n.thrown = o.thrown
<1> DEFINE I == {i \in 1 .. Len(o.pending) : MayFollow(o, links, o.pending[i])}
           n == AppendNext(o, links)
<1>1. o.actors \in Seq(Actor) /\ o.pending \in Seq(Actor) /\ o.thrown \in BOOLEAN
  BY DEF Orders
<1>2. CASE I = {}
  <2>1. n = [o EXCEPT !.thrown = TRUE]
    BY <1>2 DEF AppendNext, SelectInSeq
  <2>2. /\ n \in Orders /\ n.actors = o.actors /\ n.pending = o.pending /\ n.thrown
    BY <2>1 DEF Orders
  <2>3. \A i \in DOMAIN o.pending : ~MayFollow(o, links, o.pending[i])
    BY <1>1, <1>2
  <2> QED  BY <2>2, <2>3
<1>3. CASE I # {}
  <2> DEFINE i == Min(I)
             next == Append(o.actors, o.pending[i])
             left == RemoveAt(o.pending, i)
  <2>1. i \in I
    <3>1. I \in SUBSET Nat
      OBVIOUS
    <3> HIDE DEF I
    <3>2. \E x \in I : \A y \in I : x <= y
      BY <1>3, <3>1, LeastNat
    <3> QED  BY <3>2 DEF Min
  <2>2. i # 0
    BY <2>1
  <2>3. n = [o EXCEPT !.actors = next, !.pending = left]
    BY <1>3, <2>2 DEF AppendNext, SelectInSeq
  <2> HIDE DEF i
  <2>4. next \in Seq(Actor) /\ left \in Seq(Actor) /\ i \in 1 .. Len(o.pending)
        /\ MayFollow(o, links, o.pending[i])
    BY <1>1, <2>1, RemoveAtFacts
  <2> HIDE DEF next, left
  <2>5. n \in Orders /\ n.actors = next /\ n.pending = left /\ n.thrown = o.thrown
    BY <2>3, <2>4 DEF Orders
  <2> QED  BY <2>4, <2>5 DEF next, left
<1> QED  BY <1>2, <1>3

\* A step of putting back loses and doubles nobody, and keeps the order.
LEMMA AppendedInOrder ==
  ASSUME NEW o \in Orders, NEW n \in Orders, NEW links \in Links, NEW i \in 1 .. Len(o.pending),
         MayFollow(o, links, o.pending[i]), n.actors = Append(o.actors, o.pending[i]),
         n.pending = RemoveAt(o.pending, i)
  PROVE  /\ \A a \in Actor : Total(n, a) = Total(o, a)
         /\ Len(n.pending) = Len(o.pending) - 1
         /\ (\A a \in Actor : Total(o, a) <= 1) /\ Sound(o, links) => Sound(n, links)
<1> DEFINE p == o.pending[i]
           as == o.actors
           L == Len(as)
<1>1. as \in Seq(Actor) /\ o.pending \in Seq(Actor) /\ p \in Actor
  BY DEF Orders
<1>2. /\ n.pending \in Seq(Actor) /\ Len(n.pending) = Len(o.pending) - 1
      /\ \A j \in 1 .. Len(o.pending) - 1 : n.pending[j] = o.pending[IF j < i THEN j ELSE j + 1]
  BY <1>1, RemoveAtFacts
<1>3. /\ n.actors \in Seq(Actor) /\ L \in Nat /\ DOMAIN as = 1 .. L
      /\ DOMAIN n.actors = 1 .. L + 1 /\ n.actors[L + 1] = p
      /\ \A j \in 1 .. L : n.actors[j] = as[j]
  BY <1>1
<1>4. ASSUME NEW a \in Actor PROVE Total(n, a) = Total(o, a)
  <2>1. /\ Occurrences(as, a) \in Nat /\ Occurrences(o.pending, a) \in Nat
    BY <1>1, OccurrencesFacts
  <2>2. CASE a = p
    <3>1. Occurrences(n.actors, a) = Occurrences(as, a) + 1
      BY <1>1, <2>2, OccurrencesAppend
    <3>2. Occurrences(n.pending, a) = Occurrences(o.pending, a) - 1
      BY <1>1, <2>2, OccurrencesRemoveAt
    <3> QED  BY <2>1, <3>1, <3>2 DEF Total
  <2>3. CASE a # p
    <3>1. Occurrences(n.actors, a) = Occurrences(as, a)
      BY <1>1, <2>3, OccurrencesAppend
    <3>2. Occurrences(n.pending, a) = Occurrences(o.pending, a)
      BY <1>1, <2>3, OccurrencesRemoveAt
    <3> QED  BY <3>1, <3>2 DEF Total
  <2> QED  BY <2>2, <2>3
<1>5. \A d : Contains(n.pending, d) => Contains(o.pending, d)
  <2> SUFFICES ASSUME NEW d, NEW j \in 1 .. Len(n.pending), n.pending[j] = d
               PROVE  Contains(o.pending, d)
    BY DEF Contains
  <2>1. (IF j < i THEN j ELSE j + 1) \in 1 .. Len(o.pending)
    BY <1>1, <1>2
  <2> QED  BY <1>2, <2>1 DEF Contains
<1>6. Contains(o.pending, p)
  BY DEF Contains
<1>7. ASSUME \A a \in Actor : Total(o, a) <= 1, Sound(o, links)
      PROVE  Sound(n, links)
  <2>1. ASSUME NEW a \in Actor, Contains(o.pending, a) PROVE ~Contains(as, a)
    <3>1. /\ Occurrences(as, a) \in Nat /\ Occurrences(o.pending, a) \in Nat
          /\ Occurrences(o.pending, a) # 0
          /\ Occurrences(as, a) = 0 => ~Contains(as, a)
      BY <1>1, <2>1, OccurrencesFacts
    <3>2. Occurrences(as, a) + Occurrences(o.pending, a) <= 1
      BY <1>7 DEF Total
    <3> QED  BY <3>1, <3>2
  <2>2. ASSUME NEW d \in BeforeOf(links, p) PROVE ~Contains(n.pending, d) /\ d # p
    <3>1. d \in Actor
      BY BeforeOfFacts
    <3>2. Contains(as, d) \/ ~Contains(o.pending, d)
      BY DEF MayFollow
    <3> QED  BY <1>5, <1>6, <2>1, <3>1, <3>2
  <2>3. \A j \in DOMAIN n.actors :
          \A d \in BeforeOf(links, n.actors[j]) : ~Contains(n.pending, d)
    <3> SUFFICES ASSUME NEW j \in 1 .. L + 1, NEW d \in BeforeOf(links, n.actors[j])
                 PROVE  ~Contains(n.pending, d)
      BY <1>3
    <3>1. CASE j = L + 1
      BY <1>3, <2>2, <3>1
    <3>2. CASE j # L + 1
      <4>1. j \in 1 .. L /\ n.actors[j] = as[j]
        BY <1>3, <3>2
      <4> QED  BY <1>3, <1>5, <1>7, <4>1 DEF Sound
    <3> QED  BY <3>1, <3>2
  <2>4. ASSUME NEW j \in DOMAIN n.actors, NEW k \in DOMAIN n.actors,
               n.actors[j] \in BeforeOf(links, n.actors[k])
        PROVE  j < k
    <3>1. CASE j # L + 1 /\ k # L + 1
      <4>1. j \in 1 .. L /\ k \in 1 .. L /\ n.actors[j] = as[j] /\ n.actors[k] = as[k]
        BY <1>3, <3>1
      <4> QED  BY <1>3, <1>7, <2>4, <4>1 DEF Sound, InOrderOf
    <3>2. CASE j # L + 1 /\ k = L + 1
      BY <1>3, <3>2
    <3>3. CASE j = L + 1 /\ k # L + 1
      <4>1. k \in 1 .. L /\ n.actors[j] = p /\ n.actors[k] = as[k]
        BY <1>3, <3>3
      <4>2. ~Contains(o.pending, p)
        BY <1>3, <1>7, <2>4, <4>1 DEF Sound
      <4> QED  BY <1>6, <4>2
    <3>4. CASE j = L + 1 /\ k = L + 1
      BY <1>3, <2>2, <2>4, <3>4
    <3> QED  BY <3>1, <3>2, <3>3, <3>4
  <2> QED  BY <2>3, <2>4 DEF Sound, InOrderOf
<1> QED  BY <1>2, <1>4, <1>7

\* Everybody is put back, in order; or those who are left wait for each other.
LEMMA PutBackFacts ==
  ASSUME NEW o \in Orders, ~o.thrown, NEW links \in Links
  PROVE  LET n == PutBack(o, links)
         IN /\ n \in Orders
            /\ n.thrown => Cyclic(links)
            /\ ~n.thrown => \A a \in Actor : Occurrences(n.actors, a) = Total(o, a)
            /\ ~n.thrown /\ (\A a \in Actor : Total(o, a) <= 1) /\ Sound(o, links)
                 => InOrderOf(n.actors, links)
<1> DEFINE N == Len(o.pending)
           step == [k \in 1 .. N |-> [p \in Orders |-> AppendNext(p, links)]]
           ordered[k \in 0 .. N] == IF k = 0 THEN o ELSE AppendNext(ordered[k - 1], links)
           Once == \A a \in Actor : Total(o, a) <= 1
<1>1. N \in Nat
  BY DEF Orders
<1>2. \A p \in Orders : AppendNext(p, links) \in Orders
  BY AppendNextFacts
<1>3. ordered = [k \in 0 .. N |-> IF k = 0 THEN o ELSE AppendNext(ordered[k - 1], links)]
  <2> HIDE DEF N, ordered
  <2>1. Steps(Orders, N, o, step)
    BY <1>1, <1>2 DEF Steps
  <2>2. PICK f : Iterated(f, Orders, N, o, step)
    BY <2>1, Iterates
  <2>3. /\ f \in [0 .. N -> Orders] /\ f[0] = o
        /\ \A k \in 1 .. N : f[k - 1] \in Orders /\ f[k] = step[k][f[k - 1]]
    BY <1>1, <2>2 DEF Iterated
  <2>4. \A k \in 1 .. N : f[k] = AppendNext(f[k - 1], links)
    BY <2>3
  <2>5. f = [k \in 0 .. N |-> IF k = 0 THEN o ELSE AppendNext(f[k - 1], links)]
    BY <1>1, <2>3, <2>4
  <2> QED  BY <2>5 DEF ordered
<1>4. PutBack(o, links) = ordered[N]
  BY DEF PutBack
<1> HIDE DEF ordered
<1>5. ordered[0] = o /\ \A k \in 1 .. N : ordered[k] = AppendNext(ordered[k - 1], links)
  <2> HIDE DEF N
  <2> QED  BY <1>1, <1>3
<1> HIDE DEF step
<1> DEFINE Good(p, k) ==
             /\ p \in Orders
             /\ p.thrown => Stuck(p, links)
             /\ ~p.thrown => Len(p.pending) = N - k
             /\ \A a \in Actor : Total(p, a) = Total(o, a)
             /\ Once /\ Sound(o, links) => Sound(p, links)
           T == {k \in Nat : k <= N => Good(ordered[k], k)}
<1>6. 0 \in T
  BY <1>1, <1>5
<1>7. ASSUME NEW k \in Nat, k \in T PROVE k + 1 \in T
  <2> SUFFICES ASSUME k + 1 <= N PROVE Good(ordered[k + 1], k + 1)
    OBVIOUS
  <2>1. PICK p : p = ordered[k]
    OBVIOUS
  <2>2. PICK n : n = ordered[k + 1]
    OBVIOUS
  <2>3. Good(p, k)
    BY <1>1, <1>7, <2>1
  <2>4. n = AppendNext(p, links)
    BY <1>1, <1>5, <2>1, <2>2
  <2>5. p.pending # <<>> /\ Len(p.pending) \in Nat /\ p.pending \in Seq(Actor)
    <3>1. p.pending \in Seq(Actor)
      BY <2>3 DEF Orders
    <3> QED  BY <1>1, <2>3, <3>1 DEF Stuck
  <2>6. n \in Orders
    BY <2>3, <2>4, AppendNextFacts
  <2>7. CASE /\ \A i \in DOMAIN p.pending : ~MayFollow(p, links, p.pending[i])
             /\ n.actors = p.actors /\ n.pending = p.pending /\ n.thrown
    <3>1. Stuck(n, links)
      BY <2>5, <2>7 DEF Stuck, MayFollow
    <3>2. /\ \A a \in Actor : Total(n, a) = Total(p, a)
          /\ Sound(p, links) => Sound(n, links)
      BY <2>7 DEF Total, Sound
    <3> QED  BY <2>2, <2>3, <2>6, <2>7, <3>1, <3>2
  <2>8. CASE \E i \in 1 .. Len(p.pending) :
               /\ MayFollow(p, links, p.pending[i])
               /\ n.actors = Append(p.actors, p.pending[i])
               /\ n.pending = RemoveAt(p.pending, i) /\ n.thrown = p.thrown
    <3>1. PICK i \in 1 .. Len(p.pending) :
            /\ MayFollow(p, links, p.pending[i])
            /\ n.actors = Append(p.actors, p.pending[i])
            /\ n.pending = RemoveAt(p.pending, i) /\ n.thrown = p.thrown
      BY <2>8
    <3>2. ~p.thrown
      BY <2>3, <2>5, <3>1 DEF Stuck
    <3>3. /\ \A a \in Actor : Total(n, a) = Total(p, a)
          /\ Len(n.pending) = Len(p.pending) - 1
          /\ (\A a \in Actor : Total(p, a) <= 1) /\ Sound(p, links) => Sound(n, links)
      BY <2>3, <2>6, <3>1, AppendedInOrder
    <3>4. Len(n.pending) = N - (k + 1)
      BY <1>1, <2>3, <3>2, <3>3
    <3>5. Once /\ Sound(o, links) => Sound(n, links)
      BY <2>3, <3>3
    <3> QED  BY <2>2, <2>3, <2>6, <3>1, <3>2, <3>3, <3>4, <3>5
  <2> QED  BY <2>3, <2>4, <2>7, <2>8, AppendNextFacts
<1>8. PICK n : n = ordered[N]
  OBVIOUS
<1>9. Good(n, N)
  <2>1. N \in T
    <3> HIDE DEF T
    <3> QED  BY <1>1, <1>6, <1>7, Induct
  <2> QED  BY <1>1, <1>8, <2>1
<1>10. ASSUME n.thrown PROVE Cyclic(links)
  <2> DEFINE cycle == ToSet(n.pending)
  <2>1. Stuck(n, links) /\ n.pending \in Seq(Actor)
    BY <1>9, <1>10 DEF Orders
  <2>2. cycle \in (SUBSET Actor) \ {{}}
    <3>1. Len(n.pending) \in Nat /\ Len(n.pending) # 0 /\ 1 \in DOMAIN n.pending
      BY <2>1 DEF Stuck
    <3>2. n.pending[1] \in cycle /\ cycle \subseteq Actor
      BY <2>1, <3>1 DEF ToSet
    <3> QED  BY <3>2
  <2>3. ASSUME NEW a \in cycle PROVE BeforeOf(links, a) \cap cycle # {}
    <3>1. ~MayFollow(n, links, a)
      BY <2>1 DEF Stuck, ToSet
    <3>2. PICK d \in BeforeOf(links, a) : Contains(n.pending, d)
      BY <3>1 DEF MayFollow
    <3>3. d \in cycle
      BY <2>1, <3>2 DEF Contains, ToSet
    <3> QED  BY <3>3
  <2> QED  BY <2>2, <2>3 DEF Cyclic
<1>11. ASSUME ~n.thrown, NEW a \in Actor PROVE Occurrences(n.actors, a) = Total(o, a)
  <2>1. n.pending \in Seq(Actor) /\ n.actors \in Seq(Actor) /\ Len(n.pending) = 0
    BY <1>1, <1>9, <1>11 DEF Orders
  <2>2. ~Contains(n.pending, a)
    BY <2>1 DEF Contains
  <2>3. Occurrences(n.pending, a) = 0 /\ Occurrences(n.actors, a) \in Nat
    BY <2>1, <2>2, OccurrencesFacts
  <2>4. Total(n, a) = Total(o, a)
    BY <1>9
  <2> QED  BY <2>3, <2>4 DEF Total
<1>12. Once /\ Sound(o, links) => InOrderOf(n.actors, links)
  BY <1>9 DEF Sound
<1> QED  BY <1>4, <1>8, <1>9, <1>10, <1>11, <1>12

-----------------------------------------------------------------------------
(* The operations on the bus.                                              *)

\* In order, as far as the actors are in the bus once.
OrderedBus(bus) ==
  (\A a \in Actor : Occurrences(bus.list, a) <= 1) => InOrderOf(bus.list, bus.links)

LEMMA ReorderedFacts ==
  ASSUME NEW bus \in Buses, OneLinkEach(bus.links)
  PROVE  LET b == Reordered(bus)
         IN /\ b \in Buses /\ b.links = bus.links
            /\ b.thrown => Cyclic(b.links)
            /\ ~b.thrown => /\ OrderedBus(b)
                            /\ \A a \in Actor : Occurrences(b.list, a) = Occurrences(bus.list, a)
<1> DEFINE list == bus.list
           links == bus.links
           o == Taken(list, links)
           n == PutBack(o, links)
           b == Reordered(bus)
           Once == \A a \in Actor : Occurrences(list, a) <= 1
<1>1. /\ list \in Seq(Actor) /\ links \in Links /\ bus.thrown \in BOOLEAN
      /\ bus.index \in [Identifier \cup {AnyId} -> Seq(Actor)]
  BY DEF Buses
<1>2. b = [bus EXCEPT !.list = n.actors, !.thrown = n.thrown]
  BY DEF Reordered, reorderForDependencies
<1> HIDE DEF list, links, o
<1>3. /\ o \in Orders /\ ~o.thrown
      /\ \A a \in Actor : Total(o, a) = Occurrences(list, a)
      /\ Once => \A i \in DOMAIN o.actors : ~IsAfter(links, o.actors[i])
  BY <1>1, TakenFacts DEF o, links
<1>4. /\ n \in Orders
      /\ n.thrown => Cyclic(links)
      /\ ~n.thrown => \A a \in Actor : Occurrences(n.actors, a) = Total(o, a)
      /\ ~n.thrown /\ (\A a \in Actor : Total(o, a) <= 1) /\ Sound(o, links)
           => InOrderOf(n.actors, links)
  BY <1>1, <1>3, PutBackFacts
<1> HIDE DEF n
<1>5. n.actors \in Seq(Actor) /\ n.thrown \in BOOLEAN
  BY <1>4 DEF Orders
<1>6. /\ b \in Buses /\ b.links = links /\ b.list = n.actors /\ b.thrown = n.thrown
  BY <1>2, <1>5 DEF Buses, links
<1> HIDE DEF b
<1>7. ASSUME Once PROVE Sound(o, links)
  <2>1. \A i \in DOMAIN o.actors : BeforeOf(links, o.actors[i]) = {}
    BY <1>1, <1>3, <1>7, BeforeOfFacts
  <2> QED  BY <2>1 DEF Sound, InOrderOf
<1>8. ~n.thrown => \A a \in Actor : Occurrences(n.actors, a) = Occurrences(list, a)
  BY <1>3, <1>4
<1>9. ASSUME ~n.thrown, \A a \in Actor : Occurrences(n.actors, a) <= 1
      PROVE  InOrderOf(n.actors, links)
  <2>1. Once /\ \A a \in Actor : Total(o, a) <= 1
    BY <1>3, <1>8, <1>9
  <2> QED  BY <1>4, <1>7, <1>9, <2>1
<1> QED  BY <1>4, <1>6, <1>8, <1>9 DEF OrderedBus, links, list, b

LEMMA SubscribedFacts ==
  ASSUME NEW bus \in Buses, OneLinkEach(bus.links), NEW a \in Actor
  PROVE  LET b == Subscribed(bus, a)
         IN /\ b \in Buses /\ b.links = bus.links
            /\ b.thrown => Cyclic(b.links)
            /\ ~b.thrown => /\ OrderedBus(b)
                            /\ \A x \in Actor : Occurrences(b.list, x) >= Occurrences(bus.list, x)
<1> DEFINE list == Append(bus.list, a)
           longer == [bus EXCEPT !.list = list]
           b == Reordered(longer)
<1>1. bus.list \in Seq(Actor)
  BY DEF Buses
<1>2. list \in Seq(Actor)
  BY <1>1
<1>3. \A x \in Actor : Occurrences(list, x) >= Occurrences(bus.list, x)
  <2> SUFFICES ASSUME NEW x \in Actor PROVE Occurrences(list, x) >= Occurrences(bus.list, x)
    OBVIOUS
  <2>1. Occurrences(bus.list, x) \in Nat
    BY <1>1, OccurrencesFacts
  <2>2. Occurrences(list, x) = Occurrences(bus.list, x) + 1
        \/ Occurrences(list, x) = Occurrences(bus.list, x)
    BY <1>1, OccurrencesAppend
  <2> QED  BY <2>1, <2>2
<1> HIDE DEF list
<1>4. longer \in Buses /\ longer.links = bus.links /\ longer.list = list
  BY <1>2 DEF Buses
<1> HIDE DEF longer
<1>5. Subscribed(bus, a) = b
  BY DEF Subscribed, longer, list
<1>6. /\ b \in Buses /\ b.links = longer.links
      /\ b.thrown => Cyclic(b.links)
      /\ ~b.thrown => /\ OrderedBus(b)
                      /\ \A x \in Actor : Occurrences(b.list, x) = Occurrences(longer.list, x)
  BY <1>4, ReorderedFacts
<1> QED  BY <1>3, <1>4, <1>5, <1>6

LEMMA IdsFacts ==
  ASSUME NEW a \in Actor
  PROVE  /\ IdsOf(a) \in Seq(Identifier \cup {AnyId}) /\ Len(IdsOf(a)) \in Nat \ {0}
         /\ \A k \in 1 .. Len(IdsOf(a)) : IdsOf(a)[k] \in Identifier \cup {AnyId}
<1>1. ActorIds[a] \in Seq(Identifier)
  BY BusAssumption
<1>2. IdsOf(a) \in Seq(Identifier \cup {AnyId}) /\ Len(IdsOf(a)) # 0
  <2>1. CASE ActorIds[a] = <<>>
    <3>1. IdsOf(a) = <<AnyId>>
      BY <2>1 DEF IdsOf
    <3> QED  BY <3>1
  <2>2. CASE ActorIds[a] # <<>>
    <3>1. IdsOf(a) = ActorIds[a]
      BY <2>2 DEF IdsOf
    <3> QED  BY <1>1, <2>2, <3>1
  <2> QED  BY <2>1, <2>2
<1> HIDE DEF IdsOf
<1> QED  BY <1>2

LEMMA SubscribedIndexedFacts ==
  ASSUME NEW bus \in Buses, OneLinkEach(bus.links), ~bus.thrown, NEW a \in Actor
  PROVE  LET b == SubscribedIndexed(bus, a)
         IN /\ b \in Buses /\ b.links = bus.links
            /\ b.thrown => Cyclic(b.links)
            /\ ~b.thrown => /\ OrderedBus(b)
                            /\ \A x \in Actor : Occurrences(b.list, x) >= Occurrences(bus.list, x)
<1> DEFINE ids == IdsOf(a)
           N == Len(ids)
           V == {b \in Buses :
                   /\ b.links = bus.links
                   /\ b.thrown => Cyclic(b.links)
                   /\ ~b.thrown => \A x \in Actor :
                                     Occurrences(b.list, x) >= Occurrences(bus.list, x)}
           step == [k \in 1 .. N |-> [b \in V |-> SubscribedUnder(b, a, ids[k])]]
           after[k \in 0 .. N] == IF k = 0 THEN bus ELSE SubscribedUnder(after[k - 1], a, ids[k])
<1>1. /\ ids \in Seq(Identifier \cup {AnyId}) /\ N \in Nat /\ N # 0
      /\ \A k \in 1 .. N : ids[k] \in Identifier \cup {AnyId}
  BY IdsFacts
<1> HIDE DEF ids, N
<1>2. bus \in V
  <2>1. bus.list \in Seq(Actor)
    BY DEF Buses
  <2>2. ASSUME NEW x \in Actor PROVE Occurrences(bus.list, x) >= Occurrences(bus.list, x)
    <3>1. Occurrences(bus.list, x) \in Nat
      BY <2>1, OccurrencesFacts
    <3> QED  BY <3>1
  <2> QED  BY <2>2
<1>3. ASSUME NEW b \in V, NEW id \in Identifier \cup {AnyId}
      PROVE  /\ SubscribedUnder(b, a, id) \in V
             /\ ~SubscribedUnder(b, a, id).thrown => OrderedBus(SubscribedUnder(b, a, id))
  <2>1. CASE b.thrown
    <3>1. SubscribedUnder(b, a, id) = b
      BY <2>1 DEF SubscribedUnder
    <3> QED  BY <2>1, <3>1
  <2>2. CASE ~b.thrown
    <3> DEFINE more == Append(b.index[id], a)
               index == [b.index EXCEPT ![id] = more]
               b1 == [b EXCEPT !.index = index]
               b2 == Subscribed(b1, a)
    <3>1. b \in Buses /\ b.index \in [Identifier \cup {AnyId} -> Seq(Actor)]
      BY DEF Buses
    <3>2. index \in [Identifier \cup {AnyId} -> Seq(Actor)]
      <4>1. more \in Seq(Actor)
        BY <3>1
      <4> HIDE DEF more
      <4> QED  BY <3>1, <4>1
    <3>3. b1 = [b EXCEPT !.index[id] = Append(@, a)]
      OBVIOUS
    <3> HIDE DEF index
    <3>4. b1 \in Buses /\ b1.links = bus.links /\ b1.list = b.list
      BY <3>1, <3>2 DEF Buses
    <3>5. SubscribedUnder(b, a, id) = b2
      BY <2>2, <3>3 DEF SubscribedUnder
    <3> HIDE DEF b1
    <3>6. /\ b2 \in Buses /\ b2.links = b1.links
          /\ b2.thrown => Cyclic(b2.links)
          /\ ~b2.thrown => /\ OrderedBus(b2)
                           /\ \A x \in Actor : Occurrences(b2.list, x) >= Occurrences(b1.list, x)
      BY <3>4, SubscribedFacts
    <3> HIDE DEF b2
    <3>7. ASSUME ~b2.thrown, NEW x \in Actor
          PROVE  Occurrences(b2.list, x) >= Occurrences(bus.list, x)
      <4>1. Occurrences(b2.list, x) >= Occurrences(b.list, x)
        BY <3>4, <3>6, <3>7
      <4>2. Occurrences(b.list, x) >= Occurrences(bus.list, x)
        BY <2>2
      <4>3. /\ Occurrences(b2.list, x) \in Nat /\ Occurrences(b.list, x) \in Nat
            /\ Occurrences(bus.list, x) \in Nat
        BY <3>1, <3>6, OccurrencesFacts DEF Buses
      <4> QED  BY <4>1, <4>2, <4>3
    <3> QED  BY <3>4, <3>5, <3>6, <3>7
  <2> QED  BY <2>1, <2>2
<1> HIDE DEF V
<1>4. after = [k \in 0 .. N |-> IF k = 0 THEN bus ELSE SubscribedUnder(after[k - 1], a, ids[k])]
  <2> HIDE DEF after
  <2>1. Steps(V, N, bus, step)
    BY <1>1, <1>2, <1>3 DEF Steps
  <2>2. PICK f : Iterated(f, V, N, bus, step)
    BY <2>1, Iterates
  <2>3. /\ f \in [0 .. N -> V] /\ f[0] = bus
        /\ \A k \in 1 .. N : f[k - 1] \in V /\ f[k] = step[k][f[k - 1]]
    BY <1>1, <2>2 DEF Iterated
  <2>4. \A k \in 1 .. N : f[k] = SubscribedUnder(f[k - 1], a, ids[k])
    BY <2>3
  <2>5. f = [k \in 0 .. N |-> IF k = 0 THEN bus ELSE SubscribedUnder(f[k - 1], a, ids[k])]
    BY <1>1, <2>3, <2>4
  <2> QED  BY <2>5 DEF after
<1>5. SubscribedIndexed(bus, a) = after[N]
  BY DEF SubscribedIndexed, N, ids
<1> HIDE DEF after, step
<1>6. after[0] = bus /\ \A k \in 1 .. N : after[k] = SubscribedUnder(after[k - 1], a, ids[k])
  BY <1>1, <1>4
<1>7. \A k \in 0 .. N : after[k] \in V
  <2>1. \A k \in 1 .. N : after[k - 1] \in V => after[k] \in V
    BY <1>1, <1>3, <1>6
  <2> QED  BY <1>1, <1>2, <1>6, <2>1, StaysWithin
<1>8. after[N] \in V /\ (~after[N].thrown => OrderedBus(after[N]))
  <2>1. N \in 1 .. N /\ N - 1 \in 0 .. N /\ N \in 0 .. N
    BY <1>1
  <2>2. after[N] = SubscribedUnder(after[N - 1], a, ids[N]) /\ after[N - 1] \in V
    BY <1>6, <1>7, <2>1
  <2> QED  BY <1>1, <1>3, <1>7, <2>1, <2>2
<1> QED  BY <1>5, <1>8 DEF V

LEMMA subscribeFacts ==
  ASSUME indexed \in BOOLEAN, NEW bus \in Buses, OneLinkEach(bus.links), ~bus.thrown, NEW a \in Actor
  PROVE  LET b == subscribe(bus, a)
         IN /\ b \in Buses /\ b.links = bus.links
            /\ b.thrown => Cyclic(b.links)
            /\ ~b.thrown => /\ OrderedBus(b)
                            /\ \A x \in Actor : Occurrences(b.list, x) >= Occurrences(bus.list, x)
<1>1. CASE indexed
  <2>1. subscribe(bus, a) = SubscribedIndexed(bus, a)
    BY <1>1 DEF subscribe
  <2> QED  BY <2>1, SubscribedIndexedFacts
<1>2. CASE ~indexed
  <2>1. subscribe(bus, a) = Subscribed(bus, a)
    BY <1>2 DEF subscribe
  <2> QED  BY <2>1, SubscribedFacts
<1> QED  BY <1>1, <1>2

\* Links are only added, at most one entry for each actor.
Grown(links, more) == \A x \in Actor : BeforeOf(links, x) \subseteq BeforeOf(more, x)

LEMMA GrownIf ==
  ASSUME NEW links \in Links, NEW more \in Links,
         \A j \in DOMAIN links : /\ j \in DOMAIN more /\ more[j].after = links[j].after
                                 /\ ToSet(links[j].before) \subseteq ToSet(more[j].before)
  PROVE  Grown(links, more)
<1> SUFFICES ASSUME NEW x \in Actor, NEW d \in BeforeOf(links, x) PROVE d \in BeforeOf(more, x)
  BY DEF Grown
<1>1. PICK j \in DOMAIN links : links[j].after = x /\ d \in ToSet(links[j].before)
  BY DEF BeforeOf
<1>2. j \in DOMAIN more /\ more[j].after = x /\ d \in ToSet(more[j].before)
  BY <1>1
<1> QED  BY <1>2 DEF BeforeOf

LEMMA LinkedFacts ==
  ASSUME NEW links \in Links, OneLinkEach(links), NEW a \in Actor, NEW d \in Actor
  PROVE  LET more == Linked(links, a, d)
         IN more \in Links /\ OneLinkEach(more) /\ Grown(links, more)
<1> DEFINE I == {j \in 1 .. Len(links) : links[j].after = d}
           more == Linked(links, a, d)
<1>1. /\ Len(links) \in Nat /\ DOMAIN links = 1 .. Len(links) /\ links \in Seq(Link)
      /\ \A j \in DOMAIN links : /\ links[j] \in Link /\ links[j].after \in Actor
                                 /\ links[j].before \in Seq(Actor)
  <2>1. /\ Len(links) \in Nat /\ DOMAIN links = 1 .. Len(links) /\ links \in Seq(Link)
        /\ \A j \in DOMAIN links : links[j] \in Link
    BY DEF Links
  <2> QED  BY <2>1 DEF Link
<1>2. CASE I = {}
  <2> DEFINE new == [after |-> d, before |-> <<a>>]
             L == Len(links) + 1
  <2>1. more = Append(links, new)
    BY <1>2 DEF Linked, SelectInSeq
  <2>2. new \in Link /\ new.after = d
    <3>1. <<a>> \in Seq(Actor)
      OBVIOUS
    <3> QED  BY <3>1 DEF Link
  <2> HIDE DEF new, more
  <2>3. /\ more \in Seq(Link) /\ DOMAIN more = DOMAIN links \cup {L} /\ more[L] = new
        /\ \A j \in DOMAIN links : more[j] = links[j] /\ j \in 1 .. Len(links)
    BY <1>1, <2>1, <2>2
  <2>4. \A j \in DOMAIN links : links[j].after # d
    BY <1>1, <1>2
  <2>5. OneLinkEach(more)
    BY <2>2, <2>3, <2>4 DEF OneLinkEach
  <2>6. Grown(links, more)
    BY <2>3, GrownIf DEF Links
  <2> QED  BY <2>3, <2>5, <2>6 DEF Links, more
<1>3. CASE I # {}
  <2> DEFINE i == Min(I)
             before == Append(links[i].before, a)
             new == [links[i] EXCEPT !.before = before]
  <2>1. i \in I
    <3>1. I \in SUBSET Nat
      OBVIOUS
    <3> HIDE DEF I
    <3>2. \E x \in I : \A y \in I : x <= y
      BY <1>3, <3>1, LeastNat
    <3> QED  BY <3>2 DEF Min
  <2>2. i # 0
    BY <2>1
  <2>3. more = [links EXCEPT ![i].before = before]
    BY <1>3, <2>2 DEF Linked, SelectInSeq
  <2>4. more = [links EXCEPT ![i] = new]
    BY <2>3
  <2> HIDE DEF i
  <2>5. i \in DOMAIN links /\ links[i] \in Link /\ links[i].before \in Seq(Actor)
    BY <1>1, <2>1
  <2>6. before \in Seq(Actor) /\ ToSet(links[i].before) \subseteq ToSet(before)
    <3>1. /\ before \in Seq(Actor) /\ DOMAIN links[i].before \subseteq DOMAIN before
          /\ \A j \in DOMAIN links[i].before : before[j] = links[i].before[j]
      BY <2>5
    <3> HIDE DEF before
    <3> QED  BY <3>1 DEF ToSet
  <2> HIDE DEF before
  <2>7. new \in Link /\ new.after = links[i].after /\ new.before = before
    BY <2>5, <2>6 DEF Link
  <2> HIDE DEF new, more
  <2>8. /\ more \in Seq(Link) /\ DOMAIN more = DOMAIN links /\ more[i] = new
        /\ \A j \in DOMAIN links : j # i => more[j] = links[j]
    BY <1>1, <2>4, <2>5, <2>7
  <2>9. \A j \in DOMAIN links : /\ more[j].after = links[j].after
                                /\ ToSet(links[j].before) \subseteq ToSet(more[j].before)
    BY <2>6, <2>7, <2>8
  <2>10. OneLinkEach(more)
    BY <2>8, <2>9 DEF OneLinkEach
  <2>11. Grown(links, more)
    BY <2>8, <2>9, GrownIf DEF Links
  <2> QED  BY <2>8, <2>10, <2>11 DEF Links, more
<1> QED  BY <1>2, <1>3

LEMMA LinkedAllFacts ==
  ASSUME NEW links \in Links, OneLinkEach(links), NEW a \in Actor, NEW ds \in Seq(Actor)
  PROVE  LET more == LinkedAll(links, a, ds)
         IN more \in Links /\ OneLinkEach(more) /\ Grown(links, more)
<1> DEFINE N == Len(ds)
           V == {l \in Links : OneLinkEach(l) /\ Grown(links, l)}
           step == [k \in 1 .. N |-> [l \in V |-> Linked(l, a, ds[k])]]
           linked[k \in 0 .. N] == IF k = 0 THEN links ELSE Linked(linked[k - 1], a, ds[k])
<1>1. N \in Nat /\ \A k \in 1 .. N : ds[k] \in Actor
  OBVIOUS
<1>2. links \in V
  BY DEF Grown
<1>3. ASSUME NEW l \in V, NEW d \in Actor PROVE Linked(l, a, d) \in V
  <2>1. Linked(l, a, d) \in Links /\ OneLinkEach(Linked(l, a, d)) /\ Grown(l, Linked(l, a, d))
    BY LinkedFacts
  <2> QED  BY <2>1 DEF Grown
<1> HIDE DEF V, N
<1>4. linked = [k \in 0 .. N |-> IF k = 0 THEN links ELSE Linked(linked[k - 1], a, ds[k])]
  <2> HIDE DEF linked
  <2>1. Steps(V, N, links, step)
    BY <1>1, <1>2, <1>3 DEF Steps
  <2>2. PICK f : Iterated(f, V, N, links, step)
    BY <2>1, Iterates
  <2>3. /\ f \in [0 .. N -> V] /\ f[0] = links
        /\ \A k \in 1 .. N : f[k - 1] \in V /\ f[k] = step[k][f[k - 1]]
    BY <1>1, <2>2 DEF Iterated
  <2>4. \A k \in 1 .. N : f[k] = Linked(f[k - 1], a, ds[k])
    BY <2>3
  <2>5. f = [k \in 0 .. N |-> IF k = 0 THEN links ELSE Linked(f[k - 1], a, ds[k])]
    BY <1>1, <2>3, <2>4
  <2> QED  BY <2>5 DEF linked
<1>5. LinkedAll(links, a, ds) = linked[N]
  BY DEF LinkedAll, N
<1> HIDE DEF linked, step
<1>6. linked[0] = links /\ \A k \in 1 .. N : linked[k] = Linked(linked[k - 1], a, ds[k])
  BY <1>1, <1>4
<1>7. \A k \in 1 .. N : linked[k - 1] \in V => linked[k] \in V
  BY <1>1, <1>3, <1>6
<1>8. linked[N] \in V
  <2>1. linked[0] \in V
    BY <1>2, <1>6
  <2>2. \A k \in 0 .. N : linked[k] \in V
    BY <1>1, <1>7, <2>1, StaysWithin
  <2> QED  BY <1>1, <2>2
<1> QED  BY <1>5, <1>8 DEF V

LEMMA addDependenciesFacts ==
  ASSUME NEW bus \in Buses, OneLinkEach(bus.links), NEW a \in Actor, NEW ds \in Seq(Actor)
  PROVE  LET b == addDependencies(bus, a, ds)
         IN /\ b \in Buses /\ OneLinkEach(b.links) /\ Grown(bus.links, b.links)
            /\ b.thrown => Cyclic(b.links)
            /\ ~b.thrown => /\ OrderedBus(b)
                            /\ \A x \in Actor : Occurrences(b.list, x) = Occurrences(bus.list, x)
<1> DEFINE links == LinkedAll(bus.links, a, ds)
           more == [bus EXCEPT !.links = links]
           b == Reordered(more)
<1>1. bus.links \in Links
  BY DEF Buses
<1>2. links \in Links /\ OneLinkEach(links) /\ Grown(bus.links, links)
  BY <1>1, LinkedAllFacts
<1> HIDE DEF links
<1>3. more \in Buses /\ more.links = links /\ more.list = bus.list
  BY <1>2 DEF Buses
<1> HIDE DEF more
<1>4. addDependencies(bus, a, ds) = b
  BY DEF addDependencies, more, links
<1>5. /\ b \in Buses /\ b.links = more.links
      /\ b.thrown => Cyclic(b.links)
      /\ ~b.thrown => /\ OrderedBus(b)
                      /\ \A x \in Actor : Occurrences(b.list, x) = Occurrences(more.list, x)
  BY <1>2, <1>3, ReorderedFacts
<1> QED  BY <1>2, <1>3, <1>4, <1>5

LEMMA UnindexedFacts ==
  ASSUME NEW index \in [Identifier \cup {AnyId} -> Seq(Actor)], NEW a \in Actor
  PROVE  Unindexed(index, a) \in [Identifier \cup {AnyId} -> Seq(Actor)]
<1> DEFINE ids == IdsOf(a)
           N == Len(ids)
           V == [Identifier \cup {AnyId} -> Seq(Actor)]
           Less(x, k) == [x EXCEPT ![ids[k]] = RemoveFirst(@, a)]
           step == [k \in 1 .. N |-> [x \in V |-> Less(x, k)]]
           left[k \in 0 .. N] == IF k = 0 THEN index ELSE Less(left[k - 1], k)
<1>1. N \in Nat /\ \A k \in 1 .. N : ids[k] \in Identifier \cup {AnyId}
  BY IdsFacts
<1> HIDE DEF ids, N
<1>2. ASSUME NEW x \in V, NEW k \in 1 .. N PROVE Less(x, k) \in V
  <2> DEFINE removed == RemoveFirst(x[ids[k]], a)
  <2>1. removed \in Seq(Actor)
    BY <1>1, RemoveFirstFacts
  <2>2. Less(x, k) = [x EXCEPT ![ids[k]] = removed]
    OBVIOUS
  <2> HIDE DEF removed, Less
  <2> QED  BY <2>1, <2>2
<1>3. left = [k \in 0 .. N |-> IF k = 0 THEN index ELSE Less(left[k - 1], k)]
  <2> HIDE DEF left, V, Less
  <2>0. index \in V
    BY DEF V
  <2>1. Steps(V, N, index, step)
    BY <1>1, <1>2, <2>0 DEF Steps
  <2>2. PICK f : Iterated(f, V, N, index, step)
    BY <2>1, Iterates
  <2>3. /\ f \in [0 .. N -> V] /\ f[0] = index
        /\ \A k \in 1 .. N : f[k - 1] \in V /\ f[k] = step[k][f[k - 1]]
    BY <1>1, <2>2 DEF Iterated
  <2>4. \A k \in 1 .. N : f[k] = Less(f[k - 1], k)
    BY <2>3
  <2>5. f = [k \in 0 .. N |-> IF k = 0 THEN index ELSE Less(f[k - 1], k)]
    BY <1>1, <2>3, <2>4
  <2> QED  BY <2>5 DEF left, Less
<1>4. Unindexed(index, a) = left[N]
  BY DEF Unindexed, N, ids
<1> HIDE DEF left, step, V, Less
<1>5. left[0] = index /\ \A k \in 1 .. N : left[k] = Less(left[k - 1], k)
  BY <1>1, <1>3
<1>6. \A k \in 1 .. N : left[k - 1] \in V => left[k] \in V
  BY <1>1, <1>2, <1>5
<1>7. left[N] \in V
  <2>1. left[0] \in V
    BY <1>5 DEF V
  <2>2. \A k \in 0 .. N : left[k] \in V
    BY <1>1, <1>6, <2>1, StaysWithin
  <2> QED  BY <1>1, <2>2
<1> QED  BY <1>4, <1>7 DEF V

LEMMA unsubscribeFacts ==
  ASSUME indexed \in BOOLEAN, NEW bus \in Buses, NEW a \in Actor
  PROVE  LET b == unsubscribe(bus, a)
         IN /\ b \in Buses /\ b.links = bus.links /\ b.thrown = bus.thrown
            /\ \A x \in Actor : x # a => Occurrences(b.list, x) = Occurrences(bus.list, x)
<1> DEFINE list == RemoveFirst(bus.list, a)
           index == IF indexed THEN Unindexed(bus.index, a) ELSE bus.index
           b == unsubscribe(bus, a)
<1>1. bus.list \in Seq(Actor) /\ bus.index \in [Identifier \cup {AnyId} -> Seq(Actor)]
  BY DEF Buses
<1>2. /\ list \in Seq(Actor)
      /\ \A x \in Actor : x # a => Occurrences(list, x) = Occurrences(bus.list, x)
  BY <1>1, RemoveFirstFacts
<1>3. index \in [Identifier \cup {AnyId} -> Seq(Actor)]
  BY <1>1, UnindexedFacts
<1>4. b = [bus EXCEPT !.list = list, !.index = index]
  BY DEF unsubscribe
<1> HIDE DEF list, index, b
<1>5. b \in Buses /\ b.links = bus.links /\ b.thrown = bus.thrown /\ b.list = list
  BY <1>2, <1>3, <1>4 DEF Buses
<1> QED  BY <1>2, <1>5 DEF b

\* What an operation that reorders the bus makes of it.
Reorders(bus, b) ==
  /\ b \in Buses /\ OneLinkEach(b.links) /\ Grown(bus.links, b.links)
  /\ b.thrown => Cyclic(b.links)
  /\ ~b.thrown => /\ OrderedBus(b)
                  /\ \A x \in Actor : Occurrences(b.list, x) >= Occurrences(bus.list, x)

LEMMA OperationsReorder ==
  ASSUME indexed \in BOOLEAN, NEW bus \in Buses, OneLinkEach(bus.links), ~bus.thrown,
         NEW a \in Actor
  PROVE  /\ Reorders(bus, subscribe(bus, a)) /\ Reorders(bus, constructor(bus, a))
         /\ \A ds \in Seq(Actor) : Reorders(bus, addDependencies(bus, a, ds))
<1> DEFINE s == subscribe(bus, a)
<1>1. Reorders(bus, s)
  <2>1. /\ s \in Buses /\ s.links = bus.links
        /\ s.thrown => Cyclic(s.links)
        /\ ~s.thrown => /\ OrderedBus(s)
                        /\ \A x \in Actor : Occurrences(s.list, x) >= Occurrences(bus.list, x)
    BY subscribeFacts
  <2> HIDE DEF s
  <2> QED  BY <2>1 DEF Reorders, Grown
<1>2. ASSUME NEW c \in Buses, OneLinkEach(c.links), NEW ds \in Seq(Actor)
      PROVE  Reorders(c, addDependencies(c, a, ds))
  <2> DEFINE b == addDependencies(c, a, ds)
  <2>1. /\ b \in Buses /\ OneLinkEach(b.links) /\ Grown(c.links, b.links)
        /\ b.thrown => Cyclic(b.links)
        /\ ~b.thrown => /\ OrderedBus(b)
                        /\ \A x \in Actor : Occurrences(b.list, x) = Occurrences(c.list, x)
    BY <1>2, addDependenciesFacts
  <2> HIDE DEF b
  <2>2. ASSUME ~b.thrown, NEW x \in Actor PROVE Occurrences(b.list, x) >= Occurrences(c.list, x)
    <3>1. c.list \in Seq(Actor)
      BY <1>2 DEF Buses
    <3>2. Occurrences(c.list, x) \in Nat
      BY <3>1, OccurrencesFacts
    <3> QED  BY <2>1, <2>2, <3>2
  <2>3. Reorders(c, b)
    BY <2>1, <2>2 DEF Reorders
  <2> QED  BY <2>3 DEF b
<1>3. Reorders(bus, constructor(bus, a))
  <2> DEFINE ds == BeforeActors[a]
  <2>1. ds \in Seq(Actor)
    BY BusAssumption
  <2> HIDE DEF s
  <2>2. CASE s.thrown \/ ds = <<>>
    <3>1. constructor(bus, a) = s
      BY <2>2 DEF constructor, s
    <3> QED  BY <1>1, <3>1
  <2>3. CASE ~s.thrown /\ ds # <<>>
    <3> DEFINE b == addDependencies(s, a, ds)
    <3>1. constructor(bus, a) = b
      BY <2>3 DEF constructor, s
    <3>2. s \in Buses /\ OneLinkEach(s.links) /\ Grown(bus.links, s.links)
      BY <1>1 DEF Reorders
    <3>3. Reorders(s, b)
      BY <1>2, <2>1, <3>2
    <3> HIDE DEF b
    <3>4. ASSUME ~b.thrown, NEW x \in Actor
          PROVE  Occurrences(b.list, x) >= Occurrences(bus.list, x)
      <4>1. Occurrences(b.list, x) >= Occurrences(s.list, x)
        BY <3>3, <3>4 DEF Reorders
      <4>2. Occurrences(s.list, x) >= Occurrences(bus.list, x)
        BY <1>1, <2>3 DEF Reorders
      <4>3. b.list \in Seq(Actor) /\ s.list \in Seq(Actor) /\ bus.list \in Seq(Actor)
        BY <3>2, <3>3 DEF Reorders, Buses
      <4>4. /\ Occurrences(b.list, x) \in Nat /\ Occurrences(s.list, x) \in Nat
            /\ Occurrences(bus.list, x) \in Nat
        BY <4>3, OccurrencesFacts
      <4> QED  BY <4>1, <4>2, <4>4
    <3>5. Grown(bus.links, b.links)
      BY <3>2, <3>3 DEF Reorders, Grown
    <3> QED  BY <3>1, <3>3, <3>4, <3>5 DEF Reorders
  <2> QED  BY <2>2, <2>3
<1> QED  BY <1>1, <1>2, <1>3

-----------------------------------------------------------------------------
LEMMA UnchangedFacts ==
  ASSUME BusInv
  PROVE  /\ Unchanged \in Buses /\ Unchanged.links = dependencyLinks /\ Unchanged.list = actors
         /\ ~Unchanged.thrown /\ OneLinkEach(Unchanged.links)
BY DEF BusInv, BusTypeOK, Unchanged, Buses

LEMMA CyclicGrows ==
  ASSUME NEW links, NEW more, Grown(links, more), Cyclic(links)
  PROVE  Cyclic(more)
<1>1. PICK cycle \in (SUBSET Actor) \ {{}} :
        \A a \in cycle : BeforeOf(links, a) \cap cycle # {}
  BY DEF Cyclic
<1>2. \A a \in cycle : BeforeOf(more, a) \cap cycle # {}
  BY <1>1 DEF Grown
<1> QED  BY <1>2 DEF Cyclic

LEMMA BusInitInv == BusInit => BusInv
<1> SUFFICES ASSUME BusInit PROVE BusInv
  OBVIOUS
<1>1. indexed \in BOOLEAN /\ broken \in BOOLEAN /\ ~broken
  BY Zenon DEF BusInit
<1>2. /\ actors \in Seq(Actor) /\ dependencyLinks \in Links
      /\ actorsIndex \in [Identifier \cup {AnyId} -> Seq(Actor)]
      /\ constructed \subseteq Actor /\ operations \in Nat
  BY DEF BusInit, Links
<1>3. OneLinkEach(dependencyLinks)
  BY DEF BusInit, OneLinkEach
<1> QED  BY <1>1, <1>2, <1>3 DEF BusInv, BusTypeOK

LEMMA BecomesFacts ==
  ASSUME BusInv, NEW b \in Buses, Becomes(b), OneLinkEach(b.links),
         Grown(dependencyLinks, b.links), b.thrown => Cyclic(b.links), constructed' \subseteq Actor
  PROVE  /\ BusInv' /\ actors' = b.list /\ dependencyLinks' = b.links
         /\ broken' => Cyclic(dependencyLinks')
         /\ ~broken' => ~b.thrown
<1>1. /\ b.list \in Seq(Actor) /\ b.links \in Links /\ b.thrown \in BOOLEAN
      /\ b.index \in [Identifier \cup {AnyId} -> Seq(Actor)]
  BY DEF Buses
<1>2. /\ indexed' = indexed /\ actors' = b.list /\ dependencyLinks' = b.links
      /\ actorsIndex' = b.index /\ operations' = operations + 1
  BY DEF Becomes
<1>3. broken' = (broken \/ b.thrown)
  BY DEF Becomes
<1>4. BusTypeOK'
  <2>1. broken' \in BOOLEAN /\ operations' \in Nat /\ indexed' \in BOOLEAN
    BY <1>2, <1>3 DEF BusInv, BusTypeOK
  <2> QED  BY <1>1, <1>2, <2>1 DEF BusTypeOK
<1>5. broken' => Cyclic(dependencyLinks')
  BY <1>2, <1>3, CyclicGrows DEF BusInv
<1>6. OneLinkEach(dependencyLinks')
  BY <1>2
<1> QED  BY <1>2, <1>3, <1>4, <1>5, <1>6 DEF BusInv

\* Any operation but unsubscribe orders the bus and loses nobody, or the
\* dependencies are cyclic.
LEMMA ReorderStep ==
  ASSUME BusInv, NEW b, Reorders(Unchanged, b), Becomes(b), constructed' \subseteq Actor
  PROVE  /\ BusInv'
         /\ broken' => Cyclic(dependencyLinks')
         /\ ~broken' => \A a \in Actor : Occurrences(actors', a) >= Occurrences(actors, a)
         /\ \/ Cyclic(dependencyLinks')
            \/ (\A a \in Actor : Occurrences(actors', a) <= 1) => InOrder'
<1>1. /\ b \in Buses /\ OneLinkEach(b.links) /\ Grown(dependencyLinks, b.links)
      /\ b.thrown => Cyclic(b.links)
      /\ ~b.thrown => /\ OrderedBus(b)
                      /\ \A a \in Actor : Occurrences(b.list, a) >= Occurrences(actors, a)
  BY UnchangedFacts DEF Reorders
<1>2. /\ BusInv' /\ actors' = b.list /\ dependencyLinks' = b.links
      /\ broken' => Cyclic(dependencyLinks')
      /\ ~broken' => ~b.thrown
  BY <1>1, BecomesFacts
<1>3. OrderedBus(b) => ((\A a \in Actor : Occurrences(actors', a) <= 1) => InOrder')
  BY <1>2 DEF OrderedBus, InOrderOf, InOrder
<1> QED  BY <1>1, <1>2, <1>3

LEMMA BusStep ==
  ASSUME BusInv, BusNext
  PROVE  /\ BusInv'
         /\ broken' => Cyclic(dependencyLinks')
         /\ ~broken' => \A a \in Actor :
              Occurrences(actors', a) >= Occurrences(actors, a) \/ Unsubscribe(a)
         /\ \/ \E a \in Actor : Unsubscribe(a)
            \/ Cyclic(dependencyLinks')
            \/ (\A a \in Actor : Occurrences(actors', a) <= 1) => InOrder'
<1>1. /\ Unchanged \in Buses /\ Unchanged.links = dependencyLinks /\ Unchanged.list = actors
      /\ ~Unchanged.thrown /\ OneLinkEach(Unchanged.links)
      /\ indexed \in BOOLEAN /\ constructed \subseteq Actor
  BY UnchangedFacts DEF BusInv, BusTypeOK
<1>2. ASSUME NEW a \in Actor, Construct(a)
      PROVE  Reorders(Unchanged, constructor(Unchanged, a)) /\ constructed' \subseteq Actor
             /\ Becomes(constructor(Unchanged, a))
  BY <1>1, <1>2, OperationsReorder DEF Construct
<1>3. ASSUME NEW a \in Actor, Subscribe(a)
      PROVE  Reorders(Unchanged, subscribe(Unchanged, a)) /\ constructed' \subseteq Actor
             /\ Becomes(subscribe(Unchanged, a))
  BY <1>1, <1>3, OperationsReorder DEF Subscribe
<1>4. ASSUME NEW a \in Actor, NEW d \in Actor, AddDependency(a, d)
      PROVE  /\ Reorders(Unchanged, addDependencies(Unchanged, a, <<d>>))
             /\ constructed' \subseteq Actor /\ Becomes(addDependencies(Unchanged, a, <<d>>))
  <2>1. <<d>> \in Seq(Actor)
    OBVIOUS
  <2> QED  BY <1>1, <1>4, <2>1, OperationsReorder DEF AddDependency
<1>5. ASSUME NEW a \in Actor, Unsubscribe(a)
      PROVE  /\ BusInv'
             /\ broken' => Cyclic(dependencyLinks')
             /\ \A x \in Actor : x # a => Occurrences(actors', x) = Occurrences(actors, x)
  <2> DEFINE b == unsubscribe(Unchanged, a)
  <2>1. /\ b \in Buses /\ b.links = dependencyLinks /\ ~b.thrown
        /\ \A x \in Actor : x # a => Occurrences(b.list, x) = Occurrences(actors, x)
    BY <1>1, unsubscribeFacts
  <2>2. Becomes(b) /\ constructed' \subseteq Actor
    BY <1>1, <1>5 DEF Unsubscribe
  <2> HIDE DEF b
  <2>3. OneLinkEach(b.links) /\ Grown(dependencyLinks, b.links)
    BY <1>1, <2>1 DEF Grown
  <2> QED  BY <2>1, <2>2, <2>3, BecomesFacts
<1>6. CASE \E a \in Actor : Unsubscribe(a)
  <2>1. PICK a \in Actor : Unsubscribe(a)
    BY <1>6
  <2>2. \A x \in Actor : Occurrences(actors, x) \in Nat
    BY <1>1, OccurrencesFacts DEF BusInv, BusTypeOK
  <2>3. ASSUME NEW x \in Actor
        PROVE  Occurrences(actors', x) >= Occurrences(actors, x) \/ Unsubscribe(x)
    <3>1. CASE x = a
      BY <2>1, <3>1
    <3>2. CASE x # a
      <4>1. Occurrences(actors', x) = Occurrences(actors, x)
        BY <1>5, <2>1, <3>2
      <4> QED  BY <2>2, <4>1
    <3> QED  BY <3>1, <3>2
  <2> QED  BY <1>5, <2>1, <2>3
<1>7. CASE \E b : Reorders(Unchanged, b) /\ Becomes(b) /\ constructed' \subseteq Actor
  BY <1>7, ReorderStep
<1> QED  BY <1>2, <1>3, <1>4, <1>6, <1>7 DEF BusNext

LEMMA BusStutter == ASSUME BusInv, UNCHANGED busVars PROVE BusInv'
BY DEF BusInv, BusTypeOK, busVars

LEMMA BusInvariance == BusInit /\ [][BusNext]_busVars => []BusInv
<1>1. BusInv /\ [BusNext]_busVars => BusInv'
  BY BusStep, BusStutter
<1> QED  BY <1>1, BusInitInv, PTL

\* The actors, the links between them and the index are what the code declares.
THEOREM BusTypeCorrect == BusInit /\ [][BusNext]_busVars => []BusTypeOK
<1>1. BusInv => BusTypeOK
  BY DEF BusInv
<1> QED  BY <1>1, BusInvariance, PTL

\* Whatever is subscribed, unsubscribed and linked: after each operation that
\* reorders, actors that are in the bus once are in the order of their
\* dependencies, unless these are cyclic (Bus.reorderForDependencies).
THEOREM DependentsFirstCorrect == BusInit /\ [][BusNext]_busVars => DependentsFirst
<1> DEFINE Step == \/ \E a \in Actor : Unsubscribe(a) \/ Occurrences(actors', a) > 1
                   \/ Cyclic(dependencyLinks')
                   \/ InOrder'
<1>1. BusInv /\ [BusNext]_busVars => [Step]_busVars
  <2> SUFFICES ASSUME BusInv, BusNext PROVE Step
    OBVIOUS
  <2>1. /\ BusInv'
        /\ \/ \E a \in Actor : Unsubscribe(a)
           \/ Cyclic(dependencyLinks')
           \/ (\A a \in Actor : Occurrences(actors', a) <= 1) => InOrder'
    BY BusStep
  <2>2. \A a \in Actor : Occurrences(actors', a) \in Nat
    <3>1. actors' \in Seq(Actor)
      BY <2>1 DEF BusInv, BusTypeOK
    <3> QED  BY <3>1, OccurrencesFacts
  <2>3. (\A a \in Actor : Occurrences(actors', a) <= 1)
          \/ \E a \in Actor : Occurrences(actors', a) > 1
    BY <2>2
  <2> QED  BY <2>1, <2>3
<1> QED  BY <1>1, BusInvariance, PTL DEF DependentsFirst

\* Reordering loses an actor only by throwing, and throws only when the
\* dependencies are cyclic (Bus.reorderForDependencies).
THEOREM ActorsStayUnlessCyclicCorrect ==
  BusInit /\ [][BusNext]_busVars => ActorsStayUnlessCyclic
<1> DEFINE Step == IF broken'
                   THEN Cyclic(dependencyLinks')
                   ELSE \A a \in Actor :
                          Occurrences(actors', a) >= Occurrences(actors, a) \/ Unsubscribe(a)
<1>1. BusInv /\ [BusNext]_busVars => [Step]_busVars
  BY BusStep
<1> QED  BY <1>1, BusInvariance, PTL DEF ActorsStayUnlessCyclic

-----------------------------------------------------------------------------
(* The mediator                                                            *)

Reply ==
  [status : {"pending", "passed", "failed", "rejected"},
   value : Values \cup {Undefined} \cup Coefficients]
Test == [actor : Actor, reply : Reply]
Item == [position : Positions, sideData : Positions]

MediatorTypeOK ==
  /\ strategy \in Strategies \cup {NoStrategy}
  /\ phase \in {"idle", "choosing", "filtering", "delegating", "running", "answered", "refused"}
  /\ tests \in Seq(Test)
  /\ settled \in Seq(Positions) /\ selected \in Seq(Positions) /\ cursor \in Nat
  /\ plan \in Seq(Item) /\ ran \in Seq(Item)
  /\ outputs \in Seq({"pending", "output", "error"})

\* Nothing is there before somebody asks, and nothing is planned before all
\* that has to be known is known.
PhaseInv ==
  /\ phase = "idle" => tests = <<>> /\ settled = <<>> /\ selected = <<>> /\ ran = <<>>
                         /\ outputs = <<>>
  /\ phase # "idle" => strategy \in Strategies
  /\ phase = "choosing" => strategy.type \in {"race", "number", "coefficients"}
  /\ phase = "filtering" => strategy.type \in {"all", "pipeline", "union"}
  /\ phase = "delegating" => strategy.type \in {"pipeline", "union"}
  /\ phase \in {"idle", "choosing", "filtering", "delegating"} => plan = <<>> /\ ran = <<>>

\* What a test gives is what its mediator asks for.
Answers ==
  IF strategy.type = "coefficients" THEN Coefficients ELSE Values \cup {Undefined}
RepliesInv ==
  /\ \A i \in With("passed") : tests[i].reply.value \in Answers
  /\ \A k \in DOMAIN settled : settled[k] \notin With("pending")

Increasing(s) == \A j, k \in DOMAIN s : j < k => s[j] < s[k]

\* The positions selected so far are in order, and those passed over failed.
SelectedInv ==
  /\ phase = "filtering" =>
       /\ cursor \in 1 .. Len(tests) + 1 /\ Increasing(selected)
       /\ \A k \in DOMAIN selected : selected[k] < cursor /\ selected[k] \in With("passed")
       /\ \A i \in Positions : i < cursor => i \in With("failed") \/ i \in ToSet(selected)
  /\ phase = "delegating" =>
       /\ Increasing(selected)
       /\ \A i \in Positions : i \in With("failed") \/ i \in ToSet(selected)

\* The race is won by a test that only failed ones settled before.
RaceWon(p) ==
  \E k \in DOMAIN settled :
    settled[k] = p /\ \A j \in DOMAIN settled : j < k => settled[j] \in With("failed")

BestNumber(p) ==
  \A i \in With("passed") \ {p} : Better(p, i) \/ (NumberOf(p) = NumberOf(i) /\ p < i)

BestCoefficients(p) ==
  \A i \in With("passed") \ {p} :
    IF Penalised(p) = Penalised(i)
    THEN BaseCost(p) < BaseCost(i) \/ (BaseCost(p) = BaseCost(i) /\ p < i)
    ELSE Penalised(i)

\* Every join that takes iterations, or blocks, costs something.
CostsCount == Weights.cpu > 0 \/ Weights.time > 0

FollowedBy(i, j) ==
  \/ /\ strategy.type = "pipeline" /\ strategy.order # "none" /\ ahead(i, j)
     /\ {tests[i].reply.value, tests[j].reply.value} \subseteq Values
  \/ /\ \/ strategy.type # "pipeline" \/ strategy.order = "none"
        \/ tests[i].reply.value = tests[j].reply.value
     /\ i < j

WholeInOrder(p) ==
  /\ \A i \in With("passed") : \E k \in DOMAIN p : p[k].position = i
  /\ \A k \in 1 .. Len(p) - 1 : FollowedBy(p[k].position, p[k + 1].position)

\* A plan that fits what the tests gave: every actor in it passed its test and
\* is in it once, and is the one, or are those, the mediator is to choose.
Fit(p) ==
  /\ \A j, k \in DOMAIN p : p[j].position = p[k].position => j = k
  /\ \A k \in DOMAIN p : p[k].position \in With("passed")
  /\ (strategy.type = "pipeline" => strategy.order = "none")
       => \A k \in DOMAIN p : p[k].sideData = p[k].position
  /\ p # <<>> =>
       /\ strategy.type # "race" => AllSettled(Positions)
       /\ strategy.type = "race" => RaceWon(p[1].position)
       /\ strategy.type = "number" => BestNumber(p[1].position)
       /\ strategy.type = "coefficients" /\ CostsCount => BestCoefficients(p[1].position)
       /\ strategy.type \in {"all", "pipeline", "union"} => WholeInOrder(p)

\* What is run is what comes next in the plan.
RanInv ==
  /\ DOMAIN ran \subseteq DOMAIN plan /\ \A k \in DOMAIN ran : ran[k] = plan[k]
  /\ DOMAIN outputs = DOMAIN ran

MediationInv ==
  MediatorTypeOK /\ PhaseInv /\ RepliesInv /\ SelectedInv /\ Fit(plan) /\ RanInv
Inv == BusInv /\ MediationInv

-----------------------------------------------------------------------------
(* The first of the least                                                  *)
LEMMA LeastPicked ==
  ASSUME NEW N \in Nat, NEW P \in SUBSET (1 .. N), NEW v \in [P -> Int], NEW pick,
         pick[0] = 0,
         \A k \in 1 .. N :
           pick[k] = IF k \in P /\ (pick[k - 1] = 0 \/ v[k] < v[pick[k - 1]])
                     THEN k ELSE pick[k - 1]
  PROVE  /\ pick[N] = 0 => P = {}
         /\ pick[N] # 0 => /\ pick[N] \in P
                           /\ \A i \in P \ {pick[N]} :
                                v[pick[N]] < v[i] \/ (v[pick[N]] = v[i] /\ pick[N] < i)
<1> DEFINE Good(k) ==
             /\ pick[k] = 0 => P \cap (1 .. k) = {}
             /\ pick[k] # 0 =>
                  /\ pick[k] \in P /\ pick[k] <= k
                  /\ \A i \in (P \cap (1 .. k)) \ {pick[k]} :
                       v[pick[k]] < v[i] \/ (v[pick[k]] = v[i] /\ pick[k] < i)
           S == {k \in Nat : k <= N => Good(k)}
<1>1. 0 \in S
  <2>1. P \cap (1 .. 0) = {}
    OBVIOUS
  <2> QED  BY <2>1
<1>2. ASSUME NEW k \in Nat, k \in S PROVE k + 1 \in S
  <2> SUFFICES ASSUME k + 1 <= N PROVE Good(k + 1)
    OBVIOUS
  <2>1. Good(k) /\ k + 1 \in 1 .. N /\ (k + 1) - 1 = k
    BY <1>2
  <2> DEFINE q == pick[k]
  <2>2. pick[k + 1] = IF k + 1 \in P /\ (q = 0 \/ v[k + 1] < v[q]) THEN k + 1 ELSE q
    BY <2>1
  <2>3. \A i \in P \cap (1 .. k + 1) : i \in P \cap (1 .. k) \/ i = k + 1
    OBVIOUS
  <2>4. \A i \in P : v[i] \in Int /\ i \in Nat
    OBVIOUS
  <2>5. /\ q = 0 => P \cap (1 .. k) = {}
        /\ q # 0 => /\ q \in P /\ q <= k
                    /\ \A i \in (P \cap (1 .. k)) \ {q} :
                         v[q] < v[i] \/ (v[q] = v[i] /\ q < i)
    BY <2>1
  <2> HIDE DEF q, Good
  <2>6. CASE k + 1 \in P /\ q = 0
    <3>1. pick[k + 1] = k + 1 /\ P \cap (1 .. k) = {}
      BY <2>2, <2>5, <2>6
    <3> QED  BY <2>3, <2>6, <3>1 DEF Good
  <2>7. CASE k + 1 \in P /\ q # 0 /\ v[k + 1] < v[q]
    <3>1. pick[k + 1] = k + 1
      BY <2>2, <2>7
    <3>2. v[k + 1] \in Int /\ v[q] \in Int
      BY <2>4, <2>5, <2>7
    <3>3. ASSUME NEW i \in P \cap (1 .. k) PROVE v[k + 1] < v[i]
      <4>1. CASE i = q
        BY <2>7, <4>1
      <4>2. CASE i # q
        <5>1. v[i] \in Int /\ (v[q] < v[i] \/ v[q] = v[i])
          BY <2>4, <2>5, <2>7, <4>2
        <5> QED  BY <2>7, <3>2, <5>1
      <4> QED  BY <4>1, <4>2
    <3>4. \A i \in (P \cap (1 .. k + 1)) \ {k + 1} : v[k + 1] < v[i]
      BY <2>3, <3>3
    <3> QED  BY <2>1, <2>7, <3>1, <3>4 DEF Good
  <2>8. CASE k + 1 \in P /\ q # 0 /\ ~(v[k + 1] < v[q])
    <3>1. pick[k + 1] = q
      BY <2>2, <2>8
    <3>2. q \in P /\ q <= k /\ q \in Nat /\ v[q] \in Int /\ v[k + 1] \in Int
      BY <2>4, <2>5, <2>8
    <3>3. v[q] < v[k + 1] \/ (v[q] = v[k + 1] /\ q < k + 1)
      BY <2>8, <3>2
    <3>4. \A i \in (P \cap (1 .. k + 1)) \ {q} : v[q] < v[i] \/ (v[q] = v[i] /\ q < i)
      BY <2>3, <2>5, <2>8, <3>3
    <3> QED  BY <2>8, <3>1, <3>2, <3>4 DEF Good
  <2>9. CASE k + 1 \notin P
    <3>1. pick[k + 1] = q
      BY <2>2, <2>9
    <3>2. P \cap (1 .. k + 1) = P \cap (1 .. k)
      BY <2>3, <2>9
    <3>3. q # 0 => q <= k + 1
      <4>1. \A i \in P : i \in Nat
        BY <2>4
      <4>2. q # 0 => q \in P /\ q <= k
        BY <2>5
      <4>3. q # 0 => q \in Nat
        BY <4>1, <4>2
      <4> QED  BY <4>2, <4>3
    <3> QED  BY <2>5, <3>1, <3>2, <3>3 DEF Good
  <2> QED  BY <2>6, <2>7, <2>8, <2>9
<1> HIDE DEF S
<1>3. N \in S
  BY <1>1, <1>2, Induct
<1>4. P \cap (1 .. N) = P
  OBVIOUS
<1> QED  BY <1>3, <1>4 DEF S


\* What the tests of a mediation and their positions are.
LEMMA TestFacts ==
  ASSUME MediatorTypeOK
  PROVE  /\ Len(tests) \in Nat /\ Positions = 1 .. Len(tests)
         /\ \A i \in Positions :
              tests[i].reply.status \in {"pending", "passed", "failed", "rejected"}
         /\ \A status : With(status) \subseteq Positions
         /\ strategy \in Strategies => IsStrategy(strategy)
<1>1. tests \in Seq(Test)
  BY DEF MediatorTypeOK
<1>2. Len(tests) \in Nat /\ Positions = 1 .. Len(tests) /\ \A i \in Positions : tests[i] \in Test
  BY <1>1 DEF Positions
<1>3. \A i \in Positions : tests[i].reply \in Reply
  BY <1>2 DEF Test
<1>4. \A i \in Positions : tests[i].reply.status \in {"pending", "passed", "failed", "rejected"}
  BY <1>3 DEF Reply
<1>5. \A status : With(status) \subseteq Positions
  BY DEF With
<1>6. strategy \in Strategies => IsStrategy(strategy)
  BY MediatorAssumption
<1> QED  BY <1>2, <1>4, <1>5, <1>6

LEMMA NumbersAreNumbers ==
  ASSUME RepliesInv, strategy.type = "number"
  PROVE  \A i \in With("passed") : NumberOf(i) \in Int
<1>1. \A i \in With("passed") : tests[i].reply.value \in Values \cup {Undefined}
  BY DEF RepliesInv, Answers
<1>2. \A x \in Values : x \in Int
  BY MediatorAssumption DEF Infinity
<1> QED  BY <1>1, <1>2 DEF NumberOf, Infinity

\* MediatorNumber picks the first of the replies with the best number.
LEMMA indexPickerFacts ==
  ASSUME MediatorTypeOK, PhaseInv, RepliesInv, phase # "idle", strategy.type = "number"
  PROVE  /\ indexPicker = 0 => With("passed") = {}
         /\ indexPicker # 0 => indexPicker \in With("passed") /\ BestNumber(indexPicker)
<1> DEFINE N == Len(tests)
           P == With("passed")
           V == 0 .. N
           step == [k \in 1 .. N |-> [j \in V |-> IF k \in P /\ (j = 0 \/ Better(k, j)) THEN k ELSE j]]
           best[k \in 0 .. N] ==
             IF k = 0 THEN 0
             ELSE IF k \in P /\ (best[k - 1] = 0 \/ Better(k, best[k - 1])) THEN k
             ELSE best[k - 1]
           v == [i \in P |-> IF strategy.order = "min" THEN NumberOf(i) ELSE -NumberOf(i)]
<1>1. N \in Nat /\ Positions = 1 .. N /\ P \in SUBSET (1 .. N) /\ IsStrategy(strategy)
  BY TestFacts DEF PhaseInv
<1>2. strategy.order \in {"min", "max"}
  BY <1>1 DEF IsStrategy
<1>3. \A i \in P : NumberOf(i) \in Int
  BY NumbersAreNumbers
<1>4. indexPicker = best[N]
  BY DEF indexPicker
<1> HIDE DEF N, P
<1>5. best = [k \in 0 .. N |-> IF k = 0 THEN 0
                               ELSE IF k \in P /\ (best[k - 1] = 0 \/ Better(k, best[k - 1])) THEN k
                               ELSE best[k - 1]]
  <2> HIDE DEF best
  <2>1. Steps(V, N, 0, step)
    BY <1>1 DEF Steps
  <2>2. PICK f : Iterated(f, V, N, 0, step)
    BY <2>1, Iterates
  <2>3. /\ f \in [0 .. N -> V] /\ f[0] = 0
        /\ \A k \in 1 .. N : f[k - 1] \in V /\ f[k] = step[k][f[k - 1]]
    BY <1>1, <2>2 DEF Iterated
  <2>4. \A k \in 1 .. N : f[k] = IF k \in P /\ (f[k - 1] = 0 \/ Better(k, f[k - 1])) THEN k
                                 ELSE f[k - 1]
    BY <2>3
  <2>5. f = [k \in 0 .. N |-> IF k = 0 THEN 0
                              ELSE IF k \in P /\ (f[k - 1] = 0 \/ Better(k, f[k - 1])) THEN k
                              ELSE f[k - 1]]
    BY <1>1, <2>3, <2>4
  <2> QED  BY <2>5 DEF best
<1> HIDE DEF best, step
<1>6. /\ best[0] = 0
      /\ \A k \in 1 .. N : best[k] = IF k \in P /\ (best[k - 1] = 0 \/ Better(k, best[k - 1])) THEN k
                                     ELSE best[k - 1]
  BY <1>1, <1>5
<1>7. \A k \in 0 .. N : best[k] \in P \cup {0}
  <2>1. \A k \in 1 .. N : best[k - 1] \in P \cup {0} => best[k] \in P \cup {0}
    BY <1>6
  <2> QED  BY <1>1, <1>6, <2>1, StaysWithin
<1>8. v \in [P -> Int] /\ \A i, j \in P : (Better(i, j) <=> v[i] < v[j])
                                        /\ (NumberOf(i) = NumberOf(j) <=> v[i] = v[j])
  <2>1. v \in [P -> Int]
    BY <1>3
  <2>2. ASSUME NEW i \in P, NEW j \in P
        PROVE  (Better(i, j) <=> v[i] < v[j]) /\ (NumberOf(i) = NumberOf(j) <=> v[i] = v[j])
    <3>1. NumberOf(i) \in Int /\ NumberOf(j) \in Int
      BY <1>3
    <3> HIDE DEF NumberOf
    <3>2. CASE strategy.order = "min"
      <4>1. v[i] = NumberOf(i) /\ v[j] = NumberOf(j)
        BY <3>2
      <4>2. Better(i, j) <=> NumberOf(i) < NumberOf(j)
        BY <3>2 DEF Better
      <4> QED  BY <4>1, <4>2
    <3>3. CASE strategy.order # "min"
      <4>1. v[i] = -NumberOf(i) /\ v[j] = -NumberOf(j)
        BY <3>3
      <4>2. Better(i, j) <=> NumberOf(i) > NumberOf(j)
        BY <3>3 DEF Better
      <4> QED  BY <3>1, <4>1, <4>2
    <3> QED  BY <3>2, <3>3
  <2> QED  BY <2>1, <2>2
<1> HIDE DEF v
<1>9. \A k \in 1 .. N : best[k] = IF k \in P /\ (best[k - 1] = 0 \/ v[k] < v[best[k - 1]])
                                  THEN k ELSE best[k - 1]
  <2> SUFFICES ASSUME NEW k \in 1 .. N
               PROVE  best[k] = IF k \in P /\ (best[k - 1] = 0 \/ v[k] < v[best[k - 1]])
                                THEN k ELSE best[k - 1]
    OBVIOUS
  <2>1. best[k - 1] \in P \cup {0}
    BY <1>1, <1>7
  <2>2. k \in P /\ best[k - 1] # 0 => (Better(k, best[k - 1]) <=> v[k] < v[best[k - 1]])
    BY <1>8, <2>1
  <2> QED  BY <1>6, <2>2
<1>10. /\ best[N] = 0 => P = {}
       /\ best[N] # 0 => /\ best[N] \in P
                         /\ \A i \in P \ {best[N]} :
                              v[best[N]] < v[i] \/ (v[best[N]] = v[i] /\ best[N] < i)
  BY <1>1, <1>6, <1>8, <1>9, LeastPicked
<1>11. ASSUME best[N] # 0, NEW i \in P \ {best[N]}
       PROVE  Better(best[N], i) \/ (NumberOf(best[N]) = NumberOf(i) /\ best[N] < i)
  BY <1>8, <1>10, <1>11
<1> QED  BY <1>4, <1>10, <1>11 DEF P, BestNumber


LEMMA UpperBound ==
  ASSUME NEW N \in Nat, NEW g \in [1 .. N -> Nat]
  PROVE  \E b \in Nat : \A k \in 1 .. N : g[k] <= b
<1> DEFINE S == {n \in Nat : n <= N => \E b \in Nat : \A k \in 1 .. n : g[k] <= b}
<1>1. 0 \in S
  <2>1. \A k \in 1 .. 0 : g[k] <= 0
    OBVIOUS
  <2> QED  BY <2>1
<1>2. ASSUME NEW n \in Nat, n \in S PROVE n + 1 \in S
  <2> SUFFICES ASSUME n + 1 <= N PROVE \E b \in Nat : \A k \in 1 .. n + 1 : g[k] <= b
    OBVIOUS
  <2>1. PICK b \in Nat : \A k \in 1 .. n : g[k] <= b
    BY <1>2
  <2>2. PICK c \in Nat : c >= b /\ c >= g[n + 1]
    <3>1. g[n + 1] \in Nat
      OBVIOUS
    <3>2. CASE b >= g[n + 1]
      BY <3>1, <3>2
    <3>3. CASE b < g[n + 1]
      BY <3>1, <3>3
    <3> QED  BY <3>1, <3>2, <3>3
  <2>3. ASSUME NEW k \in 1 .. n + 1 PROVE g[k] <= c
    <3>1. g[k] \in Nat
      OBVIOUS
    <3>2. CASE k = n + 1
      BY <2>2, <3>2
    <3>3. CASE k # n + 1
      <4>1. g[k] <= b
        BY <2>1, <3>3
      <4> QED  BY <2>2, <3>1, <4>1
    <3> QED  BY <3>2, <3>3
  <2> QED  BY <2>3
<1> HIDE DEF S
<1>3. N \in S
  BY <1>1, <1>2, Induct
<1> QED  BY <1>3 DEF S

LEMMA MaxFacts ==
  ASSUME NEW S \in SUBSET Nat, S # {}, NEW b \in Nat, \A x \in S : x <= b
  PROVE  Max(S) \in S /\ \A x \in S : x <= Max(S)
<1> DEFINE T == {n \in Nat : \A x \in S : x <= n}
<1>1. PICK m \in T : \A n \in T : m <= n
  <2>1. T \in SUBSET Nat /\ T # {}
    OBVIOUS
  <2> HIDE DEF T
  <2> QED  BY <2>1, LeastNat
<1>2. m \in S
  <2> SUFFICES ASSUME m \notin S PROVE FALSE
    OBVIOUS
  <2>1. \A x \in S : x \in Nat /\ x < m
    BY <1>1
  <2>2. m \in Nat /\ m # 0
    <3>1. PICK x \in S : x \in Nat /\ x < m
      BY <2>1
    <3> QED  BY <1>1, <3>1
  <2>3. m - 1 \in Nat /\ \A x \in S : x <= m - 1
    BY <2>1, <2>2
  <2> QED  BY <1>1, <2>2, <2>3
<1>3. \E x \in S : \A y \in S : x >= y
  BY <1>1, <1>2
<1>4. Max(S) \in S /\ \A y \in S : Max(S) >= y
  BY <1>3 DEF Max
<1> QED  BY <1>4

LEMMA ProductFacts ==
  ASSUME NEW x \in Nat, NEW y \in Nat
  PROVE  x * y \in Nat /\ (x > 0 /\ y > 0 => x * y > 0)
OBVIOUS

\* The cost of a join is a number, and some if it takes iterations and blocks.
LEMMA BaseCostFacts ==
  ASSUME MediatorTypeOK, RepliesInv, strategy.type = "coefficients", NEW i \in With("passed")
  PROVE  /\ BaseCost(i) \in Nat
         /\ Penalised(i) /\ strategy.limit \in Nat /\ CostsCount
              => BaseCost(i) > 0
<1> DEFINE c == tests[i].reply.value
<1>1. c \in [iterations : Nat, persistedItems : Nat, blockingItems : Nat, requestTime : Nat]
  <2>1. c \in Coefficients
    BY DEF RepliesInv, Answers
  <2> QED  BY <2>1, MediatorAssumption
<1>2. Weights \in [cpu : Nat, memory : Nat, time : Nat, io : Nat]
  BY MediatorAssumption
<1>3. /\ c.iterations \in Nat /\ c.persistedItems \in Nat /\ c.blockingItems \in Nat
      /\ c.requestTime \in Nat
  BY <1>1
<1>4. Weights.cpu \in Nat /\ Weights.memory \in Nat /\ Weights.time \in Nat /\ Weights.io \in Nat
  BY <1>2
<1>5. BaseCost(i) = c.iterations * Weights.cpu + c.persistedItems * Weights.memory
                    + c.blockingItems * Weights.time + c.requestTime * Weights.io
  BY DEF BaseCost
<1>6. Penalised(i) /\ strategy.limit \in Nat => c.iterations > 0 /\ c.blockingItems > 0
  BY <1>3 DEF Penalised
<1> DEFINE p == c.iterations * Weights.cpu
           q == c.persistedItems * Weights.memory
           r == c.blockingItems * Weights.time
           s == c.requestTime * Weights.io
<1> HIDE DEF c
<1>7. /\ p \in Nat /\ q \in Nat /\ r \in Nat /\ s \in Nat
      /\ (c.iterations > 0 /\ Weights.cpu > 0 => p > 0)
      /\ (c.blockingItems > 0 /\ Weights.time > 0 => r > 0)
  BY <1>3, <1>4, ProductFacts
<1>8. BaseCost(i) = p + q + r + s
  BY <1>5
<1> HIDE DEF p, q, r, s
<1>9. BaseCost(i) \in Nat /\ (p > 0 \/ r > 0 => BaseCost(i) > 0)
  BY <1>7, <1>8
<1> QED  BY <1>6, <1>7, <1>9 DEF CostsCount

\* MediatorJoinCoefficientsFixed picks the first of the replies with the least
\* cost, and, if joins cost something, one that blocks beyond the limit only if
\* all that passed do.
LEMMA minIndexFacts ==
  ASSUME MediatorTypeOK, PhaseInv, RepliesInv, phase # "idle", strategy.type = "coefficients"
  PROVE  /\ minIndex = 0 => With("passed") = {}
         /\ minIndex # 0 => minIndex \in With("passed")
         /\ minIndex # 0 /\ CostsCount => BestCoefficients(minIndex)
<1> DEFINE N == Len(tests)
           P == With("passed")
           V == 0 .. N
           step == [k \in 1 .. N |-> [j \in V |-> IF k \in P /\ (j = 0 \/ Cost(k) < Cost(j)) THEN k ELSE j]]
           min[k \in 0 .. N] ==
             IF k = 0 THEN 0
             ELSE IF k \in P /\ (min[k - 1] = 0 \/ Cost(k) < Cost(min[k - 1])) THEN k
             ELSE min[k - 1]
           v == [i \in P |-> Cost(i)]
<1>1. N \in Nat /\ Positions = 1 .. N /\ P \in SUBSET (1 .. N) /\ strategy.limit \in Nat
  <2>1. IsStrategy(strategy)
    BY TestFacts DEF PhaseInv
  <2>2. strategy.limit \in Nat
    BY <2>1 DEF IsStrategy
  <2> QED  BY TestFacts, <2>2
<1>2. minIndex = min[N]
  BY DEF minIndex
<1>3. \A i \in P : BaseCost(i) \in Nat /\ (CostsCount /\ Penalised(i) => BaseCost(i) > 0)
  BY <1>1, BaseCostFacts
<1>4. P # {} => maxCost \in Nat /\ \A i \in P : BaseCost(i) <= maxCost
  <2> SUFFICES ASSUME P # {} PROVE maxCost \in Nat /\ \A i \in P : BaseCost(i) <= maxCost
    OBVIOUS
  <2> DEFINE g == [k \in 1 .. N |-> IF k \in P THEN BaseCost(k) ELSE 0]
             S == {BaseCost(i) : i \in P}
  <2>1. maxCost = Max(S)
    BY DEF maxCost
  <2> HIDE DEF N, P
  <2>2. g \in [1 .. N -> Nat]
    BY <1>3
  <2>3. PICK b \in Nat : \A k \in 1 .. N : g[k] <= b
    <3> HIDE DEF g
    <3> QED  BY <1>1, <2>2, UpperBound
  <2>4. S \in SUBSET Nat /\ S # {} /\ \A x \in S : x <= b
    <3>1. \A i \in P : g[i] = BaseCost(i) /\ i \in 1 .. N
      BY <1>1
    <3> HIDE DEF g
    <3> QED  BY <1>3, <2>3, <3>1
  <2> HIDE DEF S
  <2>5. Max(S) \in S /\ \A x \in S : x <= Max(S)
    BY <2>4, MaxFacts
  <2> QED  BY <2>1, <2>4, <2>5 DEF S
<1>5. \A i \in P : Cost(i) = IF Penalised(i) THEN BaseCost(i) + maxCost ELSE BaseCost(i)
  BY DEF Cost, Penalised
<1> HIDE DEF N, P
<1>6. min = [k \in 0 .. N |-> IF k = 0 THEN 0
                              ELSE IF k \in P /\ (min[k - 1] = 0 \/ Cost(k) < Cost(min[k - 1])) THEN k
                              ELSE min[k - 1]]
  <2> HIDE DEF min
  <2>1. Steps(V, N, 0, step)
    BY <1>1 DEF Steps
  <2>2. PICK f : Iterated(f, V, N, 0, step)
    BY <2>1, Iterates
  <2> HIDE DEF V, step
  <2>3. /\ f \in [0 .. N -> V] /\ f[0] = 0
        /\ \A k \in 1 .. N : f[k - 1] \in V /\ f[k] = step[k][f[k - 1]]
    BY <1>1, <2>2 DEF Iterated
  <2>4. \A k \in 1 .. N : f[k] = IF k \in P /\ (f[k - 1] = 0 \/ Cost(k) < Cost(f[k - 1])) THEN k
                                 ELSE f[k - 1]
    BY <2>3 DEF V, step
  <2>5. f = [k \in 0 .. N |-> IF k = 0 THEN 0
                              ELSE IF k \in P /\ (f[k - 1] = 0 \/ Cost(k) < Cost(f[k - 1])) THEN k
                              ELSE f[k - 1]]
    BY <1>1, <2>3, <2>4
  <2> QED  BY <2>5 DEF min
<1> HIDE DEF min, step
<1>7. /\ min[0] = 0
      /\ \A k \in 1 .. N : min[k] = IF k \in P /\ (min[k - 1] = 0 \/ Cost(k) < Cost(min[k - 1])) THEN k
                                    ELSE min[k - 1]
  BY <1>1, <1>6
<1>8. \A k \in 0 .. N : min[k] \in P \cup {0}
  <2>1. \A k \in 1 .. N : min[k - 1] \in P \cup {0} => min[k] \in P \cup {0}
    BY <1>7
  <2> QED  BY <1>1, <1>7, <2>1, StaysWithin
<1>9. v \in [P -> Int] /\ \A i \in P : v[i] = Cost(i)
  <2>1. \A i \in P : Cost(i) \in Int
    <3> SUFFICES ASSUME NEW i \in P PROVE Cost(i) \in Int
      OBVIOUS
    <3>1. BaseCost(i) \in Nat /\ maxCost \in Nat
      BY <1>3, <1>4
    <3> QED  BY <1>5, <3>1
  <2> QED  BY <2>1
<1> HIDE DEF v
<1>10. \A k \in 1 .. N : min[k] = IF k \in P /\ (min[k - 1] = 0 \/ v[k] < v[min[k - 1]])
                                  THEN k ELSE min[k - 1]
  <2> SUFFICES ASSUME NEW k \in 1 .. N
               PROVE  min[k] = IF k \in P /\ (min[k - 1] = 0 \/ v[k] < v[min[k - 1]])
                               THEN k ELSE min[k - 1]
    OBVIOUS
  <2>1. min[k - 1] \in P \cup {0}
    BY <1>1, <1>8
  <2>2. k \in P /\ min[k - 1] # 0 => v[k] = Cost(k) /\ v[min[k - 1]] = Cost(min[k - 1])
    BY <1>9, <2>1
  <2> QED  BY <1>7, <2>2
<1>11. /\ min[N] = 0 => P = {}
       /\ min[N] # 0 => /\ min[N] \in P
                        /\ \A i \in P \ {min[N]} :
                             v[min[N]] < v[i] \/ (v[min[N]] = v[i] /\ min[N] < i)
  BY <1>1, <1>7, <1>9, <1>10, LeastPicked
<1>12. ASSUME min[N] # 0, CostsCount, NEW i \in P \ {min[N]}
       PROVE  IF Penalised(min[N]) = Penalised(i)
              THEN BaseCost(min[N]) < BaseCost(i) \/ (BaseCost(min[N]) = BaseCost(i) /\ min[N] < i)
              ELSE Penalised(i)
  <2> DEFINE p == min[N]
  <2>1. p \in P /\ (Cost(p) < Cost(i) \/ (Cost(p) = Cost(i) /\ p < i))
    BY <1>9, <1>11, <1>12
  <2> HIDE DEF p
  <2>2. /\ BaseCost(p) \in Nat /\ BaseCost(i) \in Nat /\ maxCost \in Nat
        /\ (Penalised(p) => BaseCost(p) > 0) /\ BaseCost(i) <= maxCost
    BY <1>3, <1>4, <1>12, <2>1
  <2>3. /\ Cost(p) = IF Penalised(p) THEN BaseCost(p) + maxCost ELSE BaseCost(p)
        /\ Cost(i) = IF Penalised(i) THEN BaseCost(i) + maxCost ELSE BaseCost(i)
    BY <1>5, <2>1
  <2>4. Penalised(p) \in BOOLEAN /\ Penalised(i) \in BOOLEAN
    BY DEF Penalised
  <2>5. IF Penalised(p) = Penalised(i)
        THEN BaseCost(p) < BaseCost(i) \/ (BaseCost(p) = BaseCost(i) /\ p < i)
        ELSE Penalised(i)
    <3>1. CASE Penalised(p) /\ Penalised(i)
      <4>1. BaseCost(p) < BaseCost(i) \/ (BaseCost(p) = BaseCost(i) /\ p < i)
        BY <2>1, <2>2, <2>3, <3>1
      <4>2. Penalised(p) = Penalised(i)
        BY <2>4, <3>1
      <4> QED  BY <4>1, <4>2
    <3>2. CASE ~Penalised(p) /\ ~Penalised(i)
      <4>1. BaseCost(p) < BaseCost(i) \/ (BaseCost(p) = BaseCost(i) /\ p < i)
        BY <2>1, <2>2, <2>3, <3>2
      <4>2. Penalised(p) = Penalised(i)
        BY <2>4, <3>2
      <4> QED  BY <4>1, <4>2
    <3>3. CASE ~Penalised(p) /\ Penalised(i)
      <4>1. Penalised(p) # Penalised(i)
        BY <3>3
      <4> QED  BY <3>3, <4>1
    <3>4. ~(Penalised(p) /\ ~Penalised(i))
      <4> SUFFICES ASSUME Penalised(p), ~Penalised(i) PROVE FALSE
        OBVIOUS
      <4> QED  BY <2>1, <2>2, <2>3
    <3> QED  BY <3>1, <3>2, <3>3, <3>4
  <2> QED  BY <2>5 DEF p
<1> QED  BY <1>2, <1>11, <1>12 DEF P, BestCoefficients


-----------------------------------------------------------------------------
(* The sort of a pipeline                                                  *)

Key(i) ==
  IF strategy.order = "increasing" THEN tests[i].reply.value ELSE -tests[i].reply.value
Precedes(i, j) == Key(i) < Key(j) \/ (Key(i) = Key(j) /\ i < j)
InKeyOrder(s) == \A j, k \in DOMAIN s : j < k => Precedes(s[j], s[k])
Numeric(P) == P \subseteq Nat /\ \A i \in P : tests[i].reply.value \in Int

LEMMA KeyFacts ==
  ASSUME NEW P, Numeric(P)
  PROVE  /\ \A i \in P : i \in Nat /\ Key(i) \in Int
         /\ \A i, j \in P : ahead(i, j) <=> Key(i) < Key(j)
         /\ \A i, j, k \in P : Precedes(i, j) /\ Precedes(j, k) => Precedes(i, k)
<1>1. \A i \in P : i \in Nat /\ Key(i) \in Int
  BY DEF Numeric, Key
<1>2. \A i, j \in P : ahead(i, j) <=> Key(i) < Key(j)
  <2> SUFFICES ASSUME NEW i \in P, NEW j \in P PROVE ahead(i, j) <=> Key(i) < Key(j)
    OBVIOUS
  <2>1. tests[i].reply.value \in Int /\ tests[j].reply.value \in Int
    BY DEF Numeric
  <2>2. CASE strategy.order = "increasing"
    BY <2>1, <2>2 DEF ahead, Key
  <2>3. CASE strategy.order # "increasing"
    BY <2>1, <2>3 DEF ahead, Key
  <2> QED  BY <2>2, <2>3
<1>3. \A i, j, k \in P : Precedes(i, j) /\ Precedes(j, k) => Precedes(i, k)
  <2> SUFFICES ASSUME NEW i \in P, NEW j \in P, NEW k \in P, Precedes(i, j), Precedes(j, k)
               PROVE  Precedes(i, k)
    OBVIOUS
  <2>1. Key(i) \in Int /\ Key(j) \in Int /\ Key(k) \in Int /\ i \in Nat /\ j \in Nat /\ k \in Nat
    BY <1>1
  <2> QED  BY <2>1 DEF Precedes
<1> QED  BY <1>1, <1>2, <1>3

LEMMA InsertAtFacts ==
  ASSUME NEW E, NEW s \in Seq(E), NEW i \in 1 .. Len(s), NEW e \in E
  PROVE  /\ InsertAt(s, i, e) \in Seq(E) /\ Len(InsertAt(s, i, e)) = Len(s) + 1
         /\ \A j \in 1 .. i - 1 : InsertAt(s, i, e)[j] = s[j]
         /\ InsertAt(s, i, e)[i] = e
         /\ \A j \in i + 1 .. Len(s) + 1 : InsertAt(s, i, e)[j] = s[j - 1]
<1> DEFINE front == SubSeq(s, 1, i - 1)
           rest == SubSeq(s, i, Len(s))
           mid == front \o <<e>>
<1>1. /\ front \in Seq(E) /\ Len(front) = i - 1
      /\ \A j \in 1 .. i - 1 : front[j] = s[j]
  OBVIOUS
<1>2. /\ rest \in Seq(E) /\ Len(rest) = Len(s) - i + 1
      /\ \A j \in 1 .. Len(s) - i + 1 : rest[j] = s[(i + j) - 1]
  OBVIOUS
<1>3. InsertAt(s, i, e) = mid \o rest
  BY DEF InsertAt
<1> HIDE DEF front, rest
<1>4. mid \in Seq(E) /\ Len(mid) = i /\ mid[i] = e /\ \A j \in 1 .. i - 1 : mid[j] = s[j]
  <2>1. <<e>> \in Seq(E) /\ Len(<<e>>) = 1 /\ <<e>>[1] = e
    OBVIOUS
  <2>2. /\ mid \in Seq(E) /\ Len(mid) = Len(front) + 1
        /\ \A j \in 1 .. Len(front) + 1 :
             mid[j] = IF j <= Len(front) THEN front[j] ELSE <<e>>[j - Len(front)]
    BY <1>1, <2>1, ConcatProperties
  <2> HIDE DEF mid
  <2>3. Len(mid) = i /\ mid[i] = e
    BY <1>1, <2>1, <2>2
  <2>4. \A j \in 1 .. i - 1 : mid[j] = s[j]
    BY <1>1, <2>2
  <2> QED  BY <2>2, <2>3, <2>4
<1> HIDE DEF mid
<1>5. /\ mid \o rest \in Seq(E) /\ Len(mid \o rest) = Len(s) + 1
      /\ \A j \in 1 .. Len(s) + 1 :
           (mid \o rest)[j] = IF j <= i THEN mid[j] ELSE rest[j - i]
  <2>1. Len(mid) + Len(rest) = Len(s) + 1
    BY <1>2, <1>4
  <2>2. /\ mid \o rest \in Seq(E) /\ Len(mid \o rest) = Len(mid) + Len(rest)
        /\ \A j \in 1 .. Len(mid) + Len(rest) :
             (mid \o rest)[j] = IF j <= Len(mid) THEN mid[j] ELSE rest[j - Len(mid)]
    BY <1>2, <1>4, ConcatProperties
  <2> QED  BY <1>4, <2>1, <2>2
<1>6. \A j \in 1 .. i : j \in 1 .. Len(s) + 1 /\ j <= i
  OBVIOUS
<1>7. (mid \o rest)[i] = e /\ \A j \in 1 .. i - 1 : (mid \o rest)[j] = s[j]
  BY <1>4, <1>5, <1>6
<1>8. ASSUME NEW j \in i + 1 .. Len(s) + 1 PROVE (mid \o rest)[j] = s[j - 1]
  <2>1. /\ j \in 1 .. Len(s) + 1 /\ ~(j <= i)
        /\ j - i \in 1 .. Len(s) - i + 1 /\ (i + (j - i)) - 1 = j - 1
    OBVIOUS
  <2>2. (mid \o rest)[j] = rest[j - i]
    BY <1>5, <2>1
  <2>3. rest[j - i] = s[(i + (j - i)) - 1]
    BY <1>2, <2>1
  <2> QED  BY <2>1, <2>2, <2>3
<1> QED  BY <1>3, <1>5, <1>7, <1>8

LEMMA InsertedFacts ==
  ASSUME NEW P, Numeric(P), NEW t \in Seq(P), InKeyOrder(t), NEW i \in P,
         \A j \in DOMAIN t : t[j] < i
  PROVE  LET u == Inserted(t, i)
         IN u \in Seq(P) /\ Len(u) = Len(t) + 1 /\ InKeyOrder(u) /\ ToSet(u) = ToSet(t) \cup {i}
<1> DEFINE I == {k \in 1 .. Len(t) : ahead(i, t[k])}
           u == Inserted(t, i)
           N == Len(t)
           Place(m) == /\ \A j \in 1 .. m - 1 : u[j] = t[j] /\ ~ahead(i, t[j])
                       /\ u[m] = i
                       /\ \A j \in m + 1 .. N + 1 : u[j] = t[j - 1]
                       /\ m <= N => ahead(i, t[m])
<1>1. N \in Nat /\ DOMAIN t = 1 .. N /\ \A j \in 1 .. N : t[j] \in P
  OBVIOUS
<1>2. u \in Seq(P) /\ Len(u) = N + 1 /\ \E m \in 1 .. N + 1 : Place(m)
  <2>1. CASE I = {}
    <3>1. u = Append(t, i)
      BY <2>1 DEF Inserted, SelectInSeq
    <3>2. \A j \in 1 .. N : ~ahead(i, t[j])
      BY <2>1
    <3>3. u \in Seq(P) /\ Len(u) = N + 1 /\ u[N + 1] = i /\ \A j \in 1 .. N : u[j] = t[j]
      BY <3>1
    <3> HIDE DEF u
    <3>4. Place(N + 1) /\ N + 1 \in 1 .. N + 1
      BY <1>1, <3>2, <3>3
    <3> QED  BY <3>3, <3>4
  <2>2. CASE I # {}
    <3> DEFINE m == Min(I)
    <3>1. m \in I /\ \A k \in I : m <= k
      <4>1. I \in SUBSET Nat
        OBVIOUS
      <4> HIDE DEF I
      <4>2. \E x \in I : \A y \in I : x <= y
        BY <2>2, <4>1, LeastNat
      <4> QED  BY <4>2 DEF Min
    <3>2. m # 0
      BY <3>1
    <3>3. u = InsertAt(t, m, i)
      BY <2>2, <3>2 DEF Inserted, SelectInSeq
    <3> HIDE DEF m, u
    <3>4. m \in 1 .. N /\ ahead(i, t[m]) /\ \A j \in 1 .. N : ahead(i, t[j]) => m <= j
      BY <3>1
    <3>5. /\ u \in Seq(P) /\ Len(u) = N + 1
          /\ \A j \in 1 .. m - 1 : u[j] = t[j]
          /\ u[m] = i
          /\ \A j \in m + 1 .. N + 1 : u[j] = t[j - 1]
      BY <3>3, <3>4, InsertAtFacts
    <3>6. \A j \in 1 .. m - 1 : ~ahead(i, t[j])
      <4> SUFFICES ASSUME NEW j \in 1 .. m - 1, ahead(i, t[j]) PROVE FALSE
        OBVIOUS
      <4>1. j \in 1 .. N /\ j < m
        BY <1>1, <3>4
      <4>2. m <= j
        BY <3>4, <4>1
      <4> QED  BY <3>4, <4>1, <4>2
    <3>7. Place(m)
      BY <3>4, <3>5, <3>6
    <3> QED  BY <3>4, <3>5, <3>7
  <2> QED  BY <2>1, <2>2
<1> HIDE DEF u
<1>3. PICK m \in 1 .. N + 1 : Place(m)
  BY <1>2
<1>4. DOMAIN u = 1 .. N + 1
  BY <1>2
<1> HIDE DEF N
<1>5. /\ \A j \in P : j \in Nat /\ Key(j) \in Int
      /\ \A j, k \in P : ahead(j, k) <=> Key(j) < Key(k)
      /\ \A j, k, l \in P : Precedes(j, k) /\ Precedes(k, l) => Precedes(j, l)
  BY KeyFacts
<1>6. \A j, k \in 1 .. N : j < k => Precedes(t[j], t[k])
  BY <1>1 DEF InKeyOrder
<1>7. ASSUME NEW j \in 1 .. m - 1 PROVE Precedes(t[j], i)
  <2>1. t[j] \in P /\ t[j] < i /\ ~ahead(i, t[j])
    BY <1>1, <1>3
  <2>2. Key(t[j]) \in Int /\ Key(i) \in Int /\ ~(Key(i) < Key(t[j]))
    BY <1>5, <2>1
  <2> QED  BY <2>1, <2>2 DEF Precedes
<1>8. ASSUME NEW j \in m .. N PROVE Precedes(i, t[j])
  <2>1. m \in 1 .. N /\ ahead(i, t[m]) /\ j \in 1 .. N
    BY <1>1, <1>3
  <2>2. Precedes(i, t[m])
    BY <1>1, <1>5, <2>1 DEF Precedes
  <2>3. j # m => Precedes(t[m], t[j])
    BY <1>1, <1>6, <2>1
  <2> QED  BY <1>1, <1>5, <2>1, <2>2, <2>3
<1>9. InKeyOrder(u)
  <2> SUFFICES ASSUME NEW j \in 1 .. N + 1, NEW k \in 1 .. N + 1, j < k
               PROVE  Precedes(u[j], u[k])
    BY <1>4 DEF InKeyOrder
  <2>1. CASE k < m
    <3>1. u[j] = t[j] /\ u[k] = t[k] /\ j \in 1 .. N /\ k \in 1 .. N
      BY <1>1, <1>3, <2>1
    <3> QED  BY <1>6, <3>1
  <2>2. CASE k = m
    <3>1. u[j] = t[j] /\ u[k] = i /\ j \in 1 .. m - 1
      BY <1>1, <1>3, <2>2
    <3> QED  BY <1>7, <3>1
  <2>3. CASE k > m /\ j < m
    <3>1. u[j] = t[j] /\ u[k] = t[k - 1] /\ j \in 1 .. m - 1 /\ k - 1 \in m .. N
      BY <1>1, <1>3, <2>3
    <3>2. Precedes(t[j], i) /\ Precedes(i, t[k - 1])
      BY <1>7, <1>8, <3>1
    <3>3. t[j] \in P /\ t[k - 1] \in P
      BY <1>1, <2>3, <3>1
    <3> QED  BY <1>5, <3>1, <3>2, <3>3
  <2>4. CASE j = m
    <3>1. u[j] = i /\ u[k] = t[k - 1] /\ k - 1 \in m .. N
      BY <1>1, <1>3, <2>4
    <3> QED  BY <1>8, <3>1
  <2>5. CASE j > m
    <3>1. u[j] = t[j - 1] /\ u[k] = t[k - 1] /\ j - 1 \in 1 .. N /\ k - 1 \in 1 .. N
      BY <1>1, <1>3, <2>5
    <3> QED  BY <1>6, <2>5, <3>1
  <2> QED  BY <1>1, <2>1, <2>2, <2>3, <2>4, <2>5
<1>10. ToSet(u) = ToSet(t) \cup {i}
  <2>1. ASSUME NEW j \in 1 .. N + 1 PROVE u[j] \in ToSet(t) \cup {i}
    <3>1. CASE j < m
      <4>1. u[j] = t[j] /\ j \in DOMAIN t
        BY <1>1, <1>3, <3>1
      <4> QED  BY <4>1 DEF ToSet
    <3>2. CASE j = m
      BY <1>3, <3>2
    <3>3. CASE j > m
      <4>1. u[j] = t[j - 1] /\ j - 1 \in DOMAIN t
        BY <1>1, <1>3, <3>3
      <4> QED  BY <4>1 DEF ToSet
    <3> QED  BY <1>1, <3>1, <3>2, <3>3
  <2>2. ASSUME NEW j \in 1 .. N PROVE t[j] \in ToSet(u)
    <3>1. CASE j < m
      <4>1. u[j] = t[j] /\ j \in DOMAIN u
        BY <1>1, <1>3, <1>4, <3>1
      <4> QED  BY <4>1 DEF ToSet
    <3>2. CASE j >= m
      <4>1. j + 1 \in m + 1 .. N + 1 /\ (j + 1) - 1 = j /\ j + 1 \in DOMAIN u
        BY <1>1, <1>4, <3>2
      <4>2. u[j + 1] = t[j]
        BY <1>3, <4>1
      <4> QED  BY <4>1, <4>2 DEF ToSet
    <3> QED  BY <1>1, <3>1, <3>2
  <2>3. i \in ToSet(u)
    BY <1>3, <1>4 DEF ToSet
  <2>4. ToSet(u) \subseteq ToSet(t) \cup {i}
    BY <1>4, <2>1 DEF ToSet
  <2>5. ToSet(t) \subseteq ToSet(u)
    BY <1>1, <2>2 DEF ToSet
  <2> QED  BY <2>3, <2>4, <2>5
<1> QED  BY <1>2, <1>9, <1>10 DEF u, N

\* Sorting keeps the positions, in the order of their values and, where these
\* are equal, in the order they had.
LEMMA SortedFacts ==
  ASSUME NEW P, Numeric(P), NEW s \in Seq(P), Increasing(s)
  PROVE  /\ Sorted(s) \in Seq(P) /\ Len(Sorted(s)) = Len(s)
         /\ InKeyOrder(Sorted(s)) /\ ToSet(Sorted(s)) = ToSet(s)
<1> DEFINE N == Len(s)
           V == Seq(P)
           Some(k) == {s[j] : j \in 1 .. k}
           step == [k \in 1 .. N |-> [t \in V |-> IF Inserted(t, s[k]) \in V THEN Inserted(t, s[k]) ELSE t]]
           sorted[k \in 0 .. N] == IF k = 0 THEN <<>> ELSE Inserted(sorted[k - 1], s[k])
           Good(t, k) == t \in V /\ Len(t) = k /\ InKeyOrder(t) /\ ToSet(t) = Some(k)
<1>1. N \in Nat /\ DOMAIN s = 1 .. N /\ <<>> \in V /\ \A k \in 1 .. N : s[k] \in P
  OBVIOUS
<1>2. ASSUME NEW k \in 1 .. N, NEW t, Good(t, k - 1) PROVE Good(Inserted(t, s[k]), k)
  <2>1. \A j \in DOMAIN t : t[j] < s[k]
    <3> SUFFICES ASSUME NEW j \in DOMAIN t PROVE t[j] < s[k]
      OBVIOUS
    <3>1. t[j] \in Some(k - 1)
      BY <1>2 DEF ToSet
    <3>2. PICK l \in 1 .. k - 1 : t[j] = s[l]
      BY <3>1
    <3>3. l \in DOMAIN s /\ k \in DOMAIN s /\ l < k
      BY <1>1
    <3> QED  BY <3>2, <3>3 DEF Increasing
  <2>2. Some(k) = Some(k - 1) \cup {s[k]}
    <3>1. \A j \in 1 .. k : j \in 1 .. k - 1 \/ j = k
      BY <1>1
    <3>2. \A j \in 1 .. k - 1 : j \in 1 .. k
      BY <1>1
    <3>3. k \in 1 .. k
      BY <1>1
    <3> QED  BY <3>1, <3>2, <3>3
  <2>3. /\ Inserted(t, s[k]) \in Seq(P) /\ Len(Inserted(t, s[k])) = Len(t) + 1
        /\ InKeyOrder(Inserted(t, s[k])) /\ ToSet(Inserted(t, s[k])) = ToSet(t) \cup {s[k]}
    BY <1>1, <1>2, <2>1, InsertedFacts
  <2>4. Len(Inserted(t, s[k])) = k
    BY <1>1, <1>2, <2>3
  <2> QED  BY <1>2, <2>2, <2>3, <2>4
<1>3. Good(<<>>, 0)
  <2>1. Some(0) = {} /\ ToSet(<<>>) = {}
    BY DEF ToSet
  <2> QED  BY <1>1, <2>1 DEF InKeyOrder
<1> HIDE DEF N, V, Good
<1>4. sorted = [k \in 0 .. N |-> IF k = 0 THEN <<>> ELSE Inserted(sorted[k - 1], s[k])]
  <2> HIDE DEF sorted
  <2>1. Steps(V, N, <<>>, step)
    BY <1>1 DEF Steps
  <2>2. PICK f : Iterated(f, V, N, <<>>, step)
    BY <2>1, Iterates
  <2>3. /\ f \in [0 .. N -> V] /\ f[0] = <<>>
        /\ \A k \in 1 .. N : f[k - 1] \in V /\ f[k] = step[k][f[k - 1]]
    BY <1>1, <2>2 DEF Iterated
  <2>4. \A k \in 1 .. N : f[k] = IF Inserted(f[k - 1], s[k]) \in V
                                 THEN Inserted(f[k - 1], s[k]) ELSE f[k - 1]
    BY <2>3
  <2> HIDE DEF step
  <2> DEFINE T == {k \in Nat : k <= N => Good(f[k], k)}
  <2>5. 0 \in T
    BY <1>3, <2>3
  <2>6. ASSUME NEW k \in Nat, k \in T PROVE k + 1 \in T
    <3> SUFFICES ASSUME k + 1 <= N PROVE Good(f[k + 1], k + 1)
      OBVIOUS
    <3>1. k + 1 \in 1 .. N /\ (k + 1) - 1 = k /\ Good(f[k], k)
      BY <1>1, <2>6
    <3>2. Good(Inserted(f[k], s[k + 1]), k + 1)
      BY <1>2, <3>1
    <3>3. Inserted(f[k], s[k + 1]) \in V
      BY <3>2 DEF Good
    <3>4. f[k + 1] = Inserted(f[k], s[k + 1])
      BY <2>4, <3>1, <3>3
    <3> QED  BY <3>2, <3>4
  <2> HIDE DEF T
  <2>7. \A k \in Nat : k \in T
    BY <2>5, <2>6, Induct
  <2>8. \A k \in 1 .. N : f[k] = Inserted(f[k - 1], s[k])
    <3> SUFFICES ASSUME NEW k \in 1 .. N PROVE f[k] = Inserted(f[k - 1], s[k])
      OBVIOUS
    <3>1. k - 1 \in T /\ k - 1 <= N
      BY <1>1, <2>7
    <3>2. Good(Inserted(f[k - 1], s[k]), k)
      BY <1>2, <3>1 DEF T
    <3> QED  BY <2>4, <3>2 DEF Good
  <2>9. f = [k \in 0 .. N |-> IF k = 0 THEN <<>> ELSE Inserted(f[k - 1], s[k])]
    BY <1>1, <2>3, <2>8
  <2> QED  BY <2>9 DEF sorted
<1>5. Sorted(s) = sorted[N]
  BY DEF Sorted, N
<1> HIDE DEF sorted, step
<1>6. sorted[0] = <<>> /\ \A k \in 1 .. N : sorted[k] = Inserted(sorted[k - 1], s[k])
  BY <1>1, <1>4
<1>7. Good(sorted[N], N)
  <2> DEFINE T == {k \in Nat : k <= N => Good(sorted[k], k)}
  <2>1. 0 \in T
    BY <1>3, <1>6
  <2>2. ASSUME NEW k \in Nat, k \in T PROVE k + 1 \in T
    <3> SUFFICES ASSUME k + 1 <= N PROVE Good(sorted[k + 1], k + 1)
      OBVIOUS
    <3>1. k + 1 \in 1 .. N /\ (k + 1) - 1 = k /\ Good(sorted[k], k)
      BY <1>1, <2>2
    <3>2. Good(Inserted(sorted[k], s[k + 1]), k + 1)
      BY <1>2, <3>1
    <3> QED  BY <1>6, <3>1, <3>2
  <2> HIDE DEF T
  <2>3. \A k \in Nat : k \in T
    BY <2>1, <2>2, Induct
  <2> QED  BY <1>1, <2>3 DEF T
<1>8. Some(N) = ToSet(s)
  BY <1>1 DEF ToSet
<1> QED  BY <1>5, <1>7, <1>8 DEF Good, V, N


-----------------------------------------------------------------------------
(* What the invariant says of the choice                                   *)
LEMMA InjectiveCount ==
  ASSUME NEW N \in Nat, NEW S, NEW f \in [1 .. N -> S],
         \A j, k \in 1 .. N : f[j] = f[k] => j = k, \A x \in S : \E k \in 1 .. N : f[k] = x
  PROVE  Cardinality(S) = N
<1>1. f \in Bijection(1 .. N, S)
  BY DEF Bijection, Injection, Surjection, IsInjective
<1>2. IsFiniteSet(1 .. N) /\ Cardinality(1 .. N) = N
  BY FS_Interval
<1>3. Cardinality(1 .. N) = Cardinality(S)
  BY <1>1, <1>2, FS_Bijection DEF ExistsBijection
<1> QED  BY <1>2, <1>3

\* Nothing that settled before the first occurrence of the winner passed.
FirstPlaces(p) == {k \in 1 .. Len(settled) : settled[k] = p}
LEMMA RaceIsWon ==
  ASSUME settled \in Seq(Positions), NEW p, RaceWon(p)
  PROVE  /\ FirstPlaces(p) # {}
         /\ \A k \in 1 .. Min(FirstPlaces(p)) - 1 : settled[k] \in With("failed")
<1> DEFINE I == FirstPlaces(p)
           m == Min(I)
<1>1. PICK k \in DOMAIN settled :
        settled[k] = p /\ \A j \in DOMAIN settled : j < k => settled[j] \in With("failed")
  BY DEF RaceWon
<1>2. Len(settled) \in Nat /\ DOMAIN settled = 1 .. Len(settled) /\ k \in I
  BY <1>1 DEF FirstPlaces
<1>3. m \in I /\ \A j \in I : m <= j
  <2>1. I \in SUBSET Nat
    BY <1>2 DEF FirstPlaces
  <2> HIDE DEF I
  <2>2. \E x \in I : \A y \in I : x <= y
    BY <1>2, <2>1, LeastNat
  <2> QED  BY <2>2 DEF Min
<1>4. m \in 1 .. Len(settled) /\ m <= k
  <2>1. m \in 1 .. Len(settled)
    BY <1>3 DEF FirstPlaces
  <2> QED  BY <1>2, <1>3, <2>1
<1> HIDE DEF m
<1>5. \A j \in 1 .. m - 1 : settled[j] \in With("failed")
  BY <1>1, <1>2, <1>4
<1> QED  BY <1>2, <1>5 DEF m

LEMMA FitIsOwn == Fit(plan) => OwnSideData
BY DEF Fit, OwnSideData

LEMMA FitIsBest == ASSUME MediationInv, CostsCount PROVE ChoiceIsBest
<1> SUFFICES ASSUME plan # <<>> PROVE ChoiceIsBest
  BY DEF ChoiceIsBest
<1> DEFINE p == plan[1].position
           all == {plan[k].position : k \in DOMAIN plan}
           x(k) == tests[plan[k].position].reply.value
<1>1. /\ MediatorTypeOK /\ PhaseInv /\ RepliesInv /\ Fit(plan) /\ phase # "idle"
      /\ strategy \in Strategies
  BY DEF MediationInv, PhaseInv
<1>2. IsStrategy(strategy) /\ Len(tests) \in Nat /\ Positions = 1 .. Len(tests)
  BY <1>1, TestFacts
<1>3. /\ strategy.type \in {"race", "number", "coefficients", "all", "pipeline", "union"}
      /\ strategy.type = "number" => strategy.order \in {"min", "max"}
      /\ strategy.type = "pipeline" => strategy.order \in {"none", "increasing", "decreasing"}
  BY <1>2 DEF IsStrategy
<1>4. plan \in Seq(Item) /\ Len(plan) \in Nat /\ DOMAIN plan = 1 .. Len(plan) /\ 1 \in DOMAIN plan
  BY <1>1 DEF MediatorTypeOK
<1>5. p \in With("passed") /\ With("passed") \subseteq Positions
  BY <1>1, <1>4, TestFacts DEF Fit
<1>6. CASE strategy.type = "race"
  <2>1. RaceWon(p) /\ settled \in Seq(Positions)
    BY <1>1, <1>6 DEF Fit, MediatorTypeOK
  <2>2. /\ FirstPlaces(p) # {}
        /\ \A k \in 1 .. Min(FirstPlaces(p)) - 1 : settled[k] \in With("failed")
    BY <2>1, RaceIsWon
  <2> QED  BY <1>6, <2>2 DEF ChoiceIsBest, SelectInSeq, FirstPlaces
<1>7. CASE strategy.type = "number"
  <2>1. BestNumber(p)
    BY <1>1, <1>7 DEF Fit
  <2>2. \A i \in With("passed") : NumberOf(i) \in Int
    BY <1>1, <1>7, NumbersAreNumbers
  <2>3. ASSUME NEW i \in With("passed") \ {p}
        PROVE  IF strategy.order = "min"
               THEN NumberOf(p) < NumberOf(i) \/ (NumberOf(p) = NumberOf(i) /\ p < i)
               ELSE -NumberOf(p) < -NumberOf(i) \/ (-NumberOf(p) = -NumberOf(i) /\ p < i)
    <3>1. NumberOf(p) \in Int /\ NumberOf(i) \in Int
      BY <1>5, <2>2
    <3>2. Better(p, i) \/ (NumberOf(p) = NumberOf(i) /\ p < i)
      BY <2>1 DEF BestNumber
    <3>3. CASE strategy.order = "min"
      BY <3>2, <3>3 DEF Better
    <3>4. CASE strategy.order # "min"
      <4>1. NumberOf(p) > NumberOf(i) \/ (NumberOf(p) = NumberOf(i) /\ p < i)
        BY <3>2, <3>4 DEF Better
      <4> QED  BY <3>1, <3>4, <4>1
    <3> QED  BY <3>3, <3>4
  <2> QED  BY <1>7, <2>3 DEF ChoiceIsBest
<1>8. CASE strategy.type = "coefficients"
  <2>1. BestCoefficients(p)
    BY <1>1, <1>8 DEF Fit
  <2> QED  BY <1>8, <2>1 DEF ChoiceIsBest, BestCoefficients
<1>9. CASE strategy.type \in {"all", "pipeline", "union"}
  <2>1. WholeInOrder(plan)
    BY <1>1, <1>9 DEF Fit
  <2>2. all = With("passed")
    BY <1>1, <2>1 DEF Fit, WholeInOrder
  <2>3. Cardinality(all) = Len(plan)
    <3> DEFINE f == [k \in 1 .. Len(plan) |-> plan[k].position]
    <3>1. \A j, k \in 1 .. Len(plan) : f[j] = f[k] => j = k
      BY <1>1, <1>4 DEF Fit
    <3>2. f \in [1 .. Len(plan) -> all] /\ \A y \in all : \E k \in 1 .. Len(plan) : f[k] = y
      BY <1>4
    <3> HIDE DEF f, all
    <3> QED  BY <1>4, <3>1, <3>2, InjectiveCount
  <2>4. ASSUME NEW k \in 1 .. Len(plan) - 1
        PROVE  \/ strategy.type = "pipeline" /\ strategy.order = "increasing" /\ x(k) < x(k + 1)
               \/ strategy.type = "pipeline" /\ strategy.order = "decreasing" /\ x(k) > x(k + 1)
               \/ /\ strategy.type # "pipeline" \/ strategy.order = "none" \/ x(k) = x(k + 1)
                  /\ plan[k].position < plan[k + 1].position
    <3>1. FollowedBy(plan[k].position, plan[k + 1].position)
      BY <2>1 DEF WholeInOrder
    <3>2. CASE /\ strategy.type = "pipeline" /\ strategy.order # "none"
               /\ ahead(plan[k].position, plan[k + 1].position)
               /\ {x(k), x(k + 1)} \subseteq Values
      <4>1. x(k) \in Int /\ x(k + 1) \in Int
        <5>1. \A n \in Values : n \in Int
          BY MediatorAssumption DEF Infinity
        <5> QED  BY <3>2, <5>1
      <4> HIDE DEF x
      <4>2. IF strategy.order = "increasing" THEN x(k) - x(k + 1) < 0 ELSE x(k) - x(k + 1) > 0
        BY <3>2 DEF ahead, x
      <4> QED  BY <1>3, <3>2, <4>1, <4>2
    <3> QED  BY <3>1, <3>2 DEF FollowedBy
  <2> QED  BY <1>9, <2>2, <2>3, <2>4 DEF ChoiceIsBest
<1> QED  BY <1>3, <1>6, <1>7, <1>8, <1>9


-----------------------------------------------------------------------------
(* The invariant                                                           *)
LEMMA MediationInit ==
  ASSUME Init
  PROVE  MediationInv
<1>1. /\ strategy = NoStrategy /\ phase = "idle" /\ tests = <<>> /\ settled = <<>>
      /\ selected = <<>> /\ cursor = 0 /\ plan = <<>> /\ ran = <<>> /\ outputs = <<>>
  BY DEF Init, MediatorInit
<1>2. Positions = {} /\ \A status : With(status) = {}
  BY <1>1 DEF Positions, With
<1>3. MediatorTypeOK
  BY <1>1 DEF MediatorTypeOK
<1>4. PhaseInv /\ RepliesInv /\ SelectedInv /\ RanInv
  BY <1>1, <1>2 DEF PhaseInv, RepliesInv, SelectedInv, RanInv
<1>5. Fit(plan)
  BY <1>1 DEF Fit
<1> QED  BY <1>3, <1>4, <1>5 DEF MediationInv

LEMMA TestsKept ==
  ASSUME tests' = tests
  PROVE  Positions' = Positions /\ Item' = Item /\ \A status : With(status)' = With(status)
BY DEF Positions, With, Item

\* A plan that fits does so as long as nothing new is known.
LEMMA FitKept ==
  ASSUME NEW p, Fit(p), tests' = tests, strategy' = strategy, settled' = settled, plan' = p
  PROVE  Fit(plan)'
<1>1. Positions' = Positions /\ \A status : With(status)' = With(status)
  BY TestsKept
<1>2. /\ \A i, j : Better(i, j)' = Better(i, j) /\ (NumberOf(i) = NumberOf(j))' = (NumberOf(i) = NumberOf(j))
      /\ \A i, j : FollowedBy(i, j)' = FollowedBy(i, j)
      /\ \A i : Penalised(i)' = Penalised(i) /\ BaseCost(i)' = BaseCost(i)
      /\ \A is : AllSettled(is)' = AllSettled(is)
  BY DEF Better, NumberOf, FollowedBy, ahead, Penalised, BaseCost, AllSettled
<1>3. /\ RaceWon(p[1].position) => RaceWon(plan[1].position)'
      /\ BestNumber(p[1].position) => BestNumber(plan[1].position)'
      /\ BestCoefficients(p[1].position) => BestCoefficients(plan[1].position)'
      /\ WholeInOrder(p) => WholeInOrder(plan)'
      /\ AllSettled(Positions) => AllSettled(Positions)'
  BY <1>1, <1>2 DEF RaceWon, BestNumber, BestCoefficients, WholeInOrder
<1> QED  BY <1>1, <1>3 DEF Fit, CostsCount


LEMMA FunctionIsSeq ==
  ASSUME NEW n \in Nat, NEW S, NEW f \in [1 .. n -> S]
  PROVE  f \in Seq(S) /\ Len(f) = n /\ DOMAIN f = 1 .. n
OBVIOUS

LEMMA publishFacts ==
  ASSUME BusTypeOK, NEW id \in Identifier \cup {AnyId}
  PROVE  publish(id) \in Seq(Actor)
<1>1. actors \in Seq(Actor) /\ actorsIndex[id] \in Seq(Actor) /\ actorsIndex[AnyId] \in Seq(Actor)
  BY DEF BusTypeOK
<1>2. actorsIndex[id] \o actorsIndex[AnyId] \in Seq(Actor)
  BY <1>1, ConcatProperties
<1> QED  BY <1>1, <1>2 DEF publish

\* No test has settled when the actors have just been asked.
LEMMA MediateStep ==
  ASSUME BusTypeOK, MediationInv, NEW s \in Strategies, NEW id \in Identifier \cup {AnyId},
         Mediate(s, id)
  PROVE  /\ MediationInv' /\ With("passed")' = {} /\ With("passed") = {}
         /\ phase = "idle" /\ phase' # "idle" /\ ran' = ran
<1> DEFINE as == publish(id)
<1>1. /\ phase = "idle" /\ tests = <<>> /\ settled = <<>> /\ plan = <<>> /\ ran = <<>>
      /\ outputs = <<>>
  BY DEF MediationInv, PhaseInv, Mediate
<1>2. as \in Seq(Actor) /\ Len(as) \in Nat /\ DOMAIN as = 1 .. Len(as)
      /\ \A i \in DOMAIN as : as[i] \in Actor
  BY publishFacts
<1>3. s.type \in {"race", "number", "coefficients", "all", "pipeline", "union"}
      /\ s.filter \in BOOLEAN
  BY MediatorAssumption DEF IsStrategy
<1> DEFINE awaitsInTurn == s.type = "all" \/ (s.type \in {"pipeline", "union"} /\ s.filter)
<1>4. /\ strategy' = s
      /\ tests' = [i \in DOMAIN as |-> [actor |-> as[i], reply |-> NoReply]]
      /\ phase' = IF as = <<>>
                  THEN CASE s.type \in {"race", "number", "coefficients"} -> "refused"
                         [] s.type = "pipeline" -> "answered"
                         [] OTHER -> "running"
                  ELSE IF awaitsInTurn THEN "filtering"
                  ELSE IF s.type \in {"pipeline", "union"} THEN "delegating"
                  ELSE "choosing"
      /\ selected' = IF awaitsInTurn THEN <<>> ELSE [i \in DOMAIN as |-> i]
      /\ cursor' = 1
      /\ settled' = settled /\ plan' = plan /\ ran' = ran /\ outputs' = outputs
  BY DEF Mediate
<1> HIDE DEF as, awaitsInTurn
<1>5. NoReply \in Reply /\ NoReply.status = "pending"
  BY DEF NoReply, Reply
<1> DEFINE t == [i \in DOMAIN as |-> [actor |-> as[i], reply |-> NoReply]]
<1>6. /\ t \in Seq(Test) /\ Len(t) = Len(as) /\ DOMAIN t = DOMAIN as
      /\ \A i \in DOMAIN as : t[i].reply.status = "pending"
  <2>1. \A i \in DOMAIN as : [actor |-> as[i], reply |-> NoReply] \in Test
    BY <1>2, <1>5 DEF Test
  <2>2. t \in [1 .. Len(as) -> Test]
    BY <1>2, <2>1
  <2>5. \A i \in DOMAIN as : t[i].reply.status = "pending"
    BY <1>5
  <2> HIDE DEF t
  <2>4. t \in Seq(Test) /\ Len(t) = Len(as) /\ DOMAIN t = 1 .. Len(as)
    BY <1>2, <2>2, FunctionIsSeq
  <2> QED  BY <1>2, <2>4, <2>5
<1> HIDE DEF t
<1>7. tests' = t /\ Positions' = DOMAIN as /\ With("passed")' = {}
  BY <1>4, <1>6 DEF t, Positions, With
<1>8. /\ awaitsInTurn => selected' = <<>>
      /\ ~awaitsInTurn => selected' = [i \in DOMAIN as |-> i]
  BY <1>4
<1>9. /\ phase' \in {"choosing", "filtering", "delegating", "running", "answered", "refused"}
      /\ phase' = "choosing" => s.type \in {"race", "number", "coefficients"}
      /\ phase' = "filtering" => s.type \in {"all", "pipeline", "union"} /\ awaitsInTurn
      /\ phase' = "delegating" => s.type \in {"pipeline", "union"} /\ ~awaitsInTurn
  BY <1>3, <1>4 DEF awaitsInTurn
<1>10. selected' \in Seq(Positions')
  <2>1. CASE awaitsInTurn
    BY <1>8, <2>1
  <2>2. CASE ~awaitsInTurn
    <3>0. [i \in 1 .. Len(as) |-> i] \in [1 .. Len(as) -> 1 .. Len(as)]
      OBVIOUS
    <3>1. [i \in 1 .. Len(as) |-> i] \in Seq(1 .. Len(as))
      BY <1>2, <3>0, FunctionIsSeq
    <3>2. selected' = [i \in 1 .. Len(as) |-> i] /\ Positions' = 1 .. Len(as)
      BY <1>2, <1>7, <1>8, <2>2
    <3> QED  BY <3>1, <3>2
  <2> QED  BY <2>1, <2>2
<1>11. MediatorTypeOK'
  <2>1. tests' \in Seq(Test)
    BY <1>6, <1>7
  <2>2. settled' \in Seq(Positions)' /\ plan' \in Seq(Item)' /\ ran' \in Seq(Item)'
        /\ outputs' \in Seq({"pending", "output", "error"})
    BY <1>1, <1>4
  <2>3. strategy' \in Strategies /\ cursor' \in Nat
    BY <1>4
  <2> QED  BY <1>9, <1>10, <2>1, <2>2, <2>3 DEF MediatorTypeOK, Test, Reply
<1>12. PhaseInv'
  <2>1. strategy' = s /\ plan' = <<>> /\ ran' = <<>>
    BY <1>1, <1>4
  <2>2. phase' # "idle" /\ strategy' \in Strategies
    BY <1>9, <2>1
  <2> QED  BY <1>9, <2>1, <2>2 DEF PhaseInv, Fit
<1>13. RepliesInv'
  <2>1. settled' = <<>> /\ DOMAIN settled' = {}
    BY <1>1, <1>4
  <2> QED  BY <1>7, <2>1 DEF RepliesInv
<1>14. SelectedInv'
  <2>1. CASE awaitsInTurn
    <3>1. phase' # "delegating" /\ selected' = <<>> /\ cursor' = 1
      BY <1>4, <1>8, <1>9, <2>1
    <3>2. 1 \in 1 .. Len(tests)' + 1
      BY <1>2, <1>6, <1>7
    <3>3. \A i \in Positions' : ~(i < 1)
      BY <1>2, <1>7
    <3> QED  BY <3>1, <3>2, <3>3 DEF SelectedInv, Increasing
  <2>2. CASE ~awaitsInTurn
    <3>1. phase' # "filtering" /\ selected' = [i \in DOMAIN as |-> i]
      BY <1>4, <1>8, <1>9, <2>2
    <3>2. Increasing(selected)'
      BY <3>1 DEF Increasing
    <3>3. \A i \in Positions' : i \in ToSet(selected)'
      BY <1>7, <3>1 DEF ToSet
    <3> QED  BY <3>1, <3>2, <3>3 DEF SelectedInv
  <2> QED  BY <2>1, <2>2
<1>15. Fit(plan)' /\ RanInv'
  BY <1>1, <1>4 DEF Fit, RanInv
<1>16. With("passed") = {}
  BY <1>1 DEF With, Positions
<1> QED  BY <1>1, <1>4, <1>7, <1>9, <1>11, <1>12, <1>13, <1>14, <1>15, <1>16 DEF MediationInv

\* A test that settles leaves the others as they are.
LEMMA SettleFacts ==
  ASSUME MediationInv, NEW i \in Positions, Settle(i)
  PROVE  /\ tests' \in Seq(Test) /\ Len(tests') = Len(tests) /\ Positions' = Positions
         /\ i \in With("pending") /\ phase # "idle"
         /\ tests'[i].reply.value \in Answers \/ tests'[i].reply.status # "passed"
         /\ tests'[i].reply.status # "pending"
         /\ \A j \in Positions : j # i => tests'[j] = tests[j]
         /\ \A status : With(status) \subseteq With(status)' \cup {i}
                        /\ With(status)' \subseteq With(status) \cup {i}
         /\ i \notin With("pending")'
         /\ \A status : status # "pending" => With(status) \subseteq With(status)'
<1>1. PICK reply \in Replies : tests' = [tests EXCEPT ![i].reply = reply]
  BY DEF Settle
<1>2. i \in With("pending") /\ tests[i].reply.status = "pending"
  BY DEF Settle, With
<1>3. tests \in Seq(Test) /\ Positions = DOMAIN tests /\ Len(tests) \in Nat
      /\ DOMAIN tests = 1 .. Len(tests)
  BY DEF MediationInv, MediatorTypeOK, Positions
<1>4. phase # "idle"
  BY <1>3 DEF MediationInv, PhaseInv, Positions
<1>5. /\ reply.status \in {"passed", "failed", "rejected"}
      /\ reply.value \in Answers \/ reply.status # "passed"
      /\ reply \in Reply
  BY DEF Replies, Reply, Answers
<1>6. /\ tests' \in Seq(Test) /\ DOMAIN tests' = DOMAIN tests /\ Len(tests') = Len(tests)
      /\ tests'[i].reply = reply
      /\ \A j \in Positions : j # i => tests'[j] = tests[j]
  <2> DEFINE new == [tests[i] EXCEPT !.reply = reply]
  <2>0. tests[i] \in Test
    BY <1>3
  <2>1. new \in Test /\ new.reply = reply
    BY <1>5, <2>0 DEF Test
  <2>2. tests' = [tests EXCEPT ![i] = new]
    BY <1>1
  <2> HIDE DEF new
  <2> QED  BY <1>3, <2>1, <2>2
<1>7. Positions' = Positions
  BY <1>6 DEF Positions
<1>8. /\ \A status : With(status) \subseteq With(status)' \cup {i}
                     /\ With(status)' \subseteq With(status) \cup {i}
      /\ i \notin With("pending")'
      /\ \A status : status # "pending" => With(status) \subseteq With(status)'
  BY <1>2, <1>5, <1>6, <1>7 DEF With
<1> QED  BY <1>2, <1>4, <1>5, <1>6, <1>7, <1>8

LEMMA SettleStep ==
  ASSUME MediationInv, NEW i \in Positions, Settle(i)
  PROVE  /\ MediationInv' /\ phase # "idle" /\ phase' = phase /\ ran' = ran
         /\ With("passed")' = With("passed") \/ With("passed")' = With("passed") \cup {i}
<1>1. /\ tests' \in Seq(Test) /\ Len(tests') = Len(tests) /\ Positions' = Positions
      /\ i \in With("pending") /\ phase # "idle"
      /\ tests'[i].reply.value \in Answers \/ tests'[i].reply.status # "passed"
      /\ tests'[i].reply.status # "pending"
      /\ \A j \in Positions : j # i => tests'[j] = tests[j]
      /\ \A status : With(status) \subseteq With(status)' \cup {i}
                     /\ With(status)' \subseteq With(status) \cup {i}
      /\ i \notin With("pending")'
      /\ \A status : status # "pending" => With(status) \subseteq With(status)'
  BY SettleFacts
<1>2. /\ strategy' = strategy /\ phase' = phase /\ selected' = selected /\ cursor' = cursor
      /\ plan' = plan /\ ran' = ran /\ outputs' = outputs
      /\ settled' = settled \/ settled' = Append(settled, i)
  BY DEF Settle
<1>3. /\ MediatorTypeOK /\ PhaseInv /\ RepliesInv /\ SelectedInv /\ Fit(plan) /\ RanInv
  BY DEF MediationInv
<1>4. settled \in Seq(Positions)
  BY <1>3 DEF MediatorTypeOK
<1>5. /\ settled' \in Seq(Positions)
      /\ DOMAIN settled \subseteq DOMAIN settled'
      /\ \A k \in DOMAIN settled : settled'[k] = settled[k]
      /\ \A k \in DOMAIN settled' : k \notin DOMAIN settled => settled'[k] = i
      /\ \A k \in DOMAIN settled, j \in DOMAIN settled' : j < k => j \in DOMAIN settled
  BY <1>2, <1>4
<1>6. MediatorTypeOK'
  BY <1>1, <1>2, <1>3, <1>5 DEF MediatorTypeOK, Item, Test, Reply
<1>7. PhaseInv'
  BY <1>1, <1>2, <1>3 DEF PhaseInv
<1>8. RepliesInv'
  <2>1. Answers' = Answers
    BY <1>2 DEF Answers
  <2>2. ASSUME NEW j \in With("passed")' PROVE tests'[j].reply.value \in Answers
    <3>1. CASE j = i
      BY <1>1, <2>2, <3>1 DEF With
    <3>2. CASE j # i
      <4>1. j \in With("passed") /\ j \in Positions /\ tests'[j] = tests[j]
        BY <1>1, <2>2, <3>2 DEF With
      <4> QED  BY <1>3, <4>1 DEF RepliesInv
    <3> QED  BY <3>1, <3>2
  <2>3. ASSUME NEW k \in DOMAIN settled' PROVE settled'[k] \notin With("pending")'
    <3>1. CASE k \in DOMAIN settled
      <4>1. settled'[k] = settled[k] /\ settled[k] \notin With("pending")
        BY <1>3, <1>5, <3>1 DEF RepliesInv
      <4>3. settled[k] \notin With("pending")'
        BY <1>1, <4>1
      <4> QED  BY <4>1, <4>3
    <3>2. CASE k \notin DOMAIN settled
      <4>1. settled'[k] = i
        BY <1>2, <1>4, <2>3, <3>2
      <4> QED  BY <1>1, <4>1
    <3> QED  BY <3>1, <3>2
  <2> QED  BY <2>1, <2>2, <2>3 DEF RepliesInv
<1>9. SelectedInv'
  <2>1. With("passed") \subseteq With("passed")' /\ With("failed") \subseteq With("failed")'
    BY <1>1
  <2> QED  BY <1>1, <1>2, <1>3, <2>1 DEF SelectedInv, Increasing
<1>10. Fit(plan)'
  <2>1. CASE plan = <<>>
    BY <1>2, <2>1 DEF Fit
  <2>2. CASE plan # <<>>
    <3>1. strategy.type = "race"
      BY <1>1, <1>3, <2>2 DEF Fit, AllSettled, With
    <3>2. With("passed") \subseteq With("passed")' /\ With("failed") \subseteq With("failed")'
      BY <1>1
    <3>3. RaceWon(plan[1].position)'
      <4>1. PICK k \in DOMAIN settled :
              /\ settled[k] = plan[1].position
              /\ \A j \in DOMAIN settled : j < k => settled[j] \in With("failed")
        BY <1>3, <2>2, <3>1 DEF Fit, RaceWon
      <4>2. ASSUME NEW j \in DOMAIN settled', j < k PROVE j \in DOMAIN settled
        BY <1>4, <1>5, <4>2
      <4>3. \A j \in DOMAIN settled' : j < k => settled'[j] \in With("failed")'
        BY <1>5, <3>2, <4>1, <4>2
      <4> QED  BY <1>2, <1>5, <4>1, <4>3 DEF RaceWon
    <3>4. /\ \A j, k \in DOMAIN plan : plan[j].position = plan[k].position => j = k
          /\ \A k \in DOMAIN plan : plan[k].position \in With("passed")
          /\ (strategy.type = "pipeline" => strategy.order = "none")
               => \A k \in DOMAIN plan : plan[k].sideData = plan[k].position
      BY <1>3 DEF Fit
    <3>5. /\ strategy'.type = "race" /\ plan' = plan
      BY <1>2, <3>1
    <3> QED  BY <1>2, <3>2, <3>3, <3>4, <3>5 DEF Fit
  <2> QED  BY <2>1, <2>2
<1>11. RanInv'
  BY <1>2, <1>3 DEF RanInv
<1>12. With("passed")' = With("passed") \/ With("passed")' = With("passed") \cup {i}
  BY <1>1
<1> QED  BY <1>1, <1>2, <1>6, <1>7, <1>8, <1>9, <1>10, <1>11, <1>12 DEF MediationInv


\* A mediator that decides on a plan that fits, or refuses, keeps the invariant.
LEMMA PlannedStep ==
  ASSUME MediationInv, Mediating, phase \in {"choosing", "filtering", "delegating"},
         UNCHANGED <<ran, outputs>>, selected' \in Seq(Positions), cursor' \in Nat,
         NEW p \in Seq(Item), Fit(p), Decide(p) \/ Refuse
  PROVE  /\ MediationInv' /\ ran' = ran /\ With("passed")' = With("passed")
         /\ phase' \in {"running", "refused"}
<1>1. /\ tests' = tests /\ strategy' = strategy /\ settled' = settled
      /\ ran' = ran /\ outputs' = outputs
  BY DEF Mediating
<1>2. /\ Positions' = Positions /\ Item' = Item /\ \A status : With(status)' = With(status)
  BY <1>1, TestsKept
<1>3. /\ MediatorTypeOK /\ PhaseInv /\ RepliesInv /\ SelectedInv /\ Fit(plan) /\ RanInv
  BY DEF MediationInv
<1>4. ran = <<>> /\ plan = <<>> /\ DOMAIN ran = {}
  BY <1>3 DEF PhaseInv
<1>5. phase' \in {"running", "refused"} /\ (plan' = p \/ plan' = plan)
  BY DEF Decide, Refuse
<1>6. MediatorTypeOK'
  <2>1. plan' \in Seq(Item)
    BY <1>3, <1>5 DEF MediatorTypeOK
  <2>2. /\ strategy' \in Strategies \cup {NoStrategy} /\ tests' \in Seq(Test)
        /\ settled' \in Seq(Positions) /\ ran' \in Seq(Item)
        /\ outputs' \in Seq({"pending", "output", "error"})
    BY <1>1, <1>3 DEF MediatorTypeOK
  <2> QED  BY <1>2, <1>5, <2>1, <2>2 DEF MediatorTypeOK, Test, Reply
<1>7. PhaseInv'
  <2>1. strategy' \in Strategies
    BY <1>1, <1>3 DEF PhaseInv
  <2> QED  BY <1>5, <2>1 DEF PhaseInv
<1>8. RepliesInv'
  BY <1>1, <1>2, <1>3 DEF RepliesInv, Answers
<1>9. SelectedInv'
  BY <1>5 DEF SelectedInv
<1>10. Fit(plan)'
  <2>1. CASE plan' = p
    BY <1>1, <2>1, FitKept
  <2>2. CASE plan' = plan
    BY <1>1, <1>3, <2>2, FitKept
  <2> QED  BY <1>5, <2>1, <2>2
<1>11. RanInv'
  BY <1>1, <1>3, <1>4 DEF RanInv
<1> QED  BY <1>1, <1>2, <1>5, <1>6, <1>7, <1>8, <1>9, <1>10, <1>11 DEF MediationInv

LEMMA NoPlanFits == Fit(<<>>) /\ <<>> \in Seq(Item)
BY DEF Fit

\* One actor that passed its test is run with its own side data.
LEMMA OneActorFits ==
  ASSUME NEW i \in With("passed"),
         strategy.type \in {"race", "number", "coefficients"},
         strategy.type # "race" => AllSettled(Positions),
         strategy.type = "race" => RaceWon(i),
         strategy.type = "number" => BestNumber(i),
         strategy.type = "coefficients" /\ CostsCount => BestCoefficients(i)
  PROVE  LET p == <<[position |-> i, sideData |-> i]>> IN p \in Seq(Item) /\ Fit(p)
<1> DEFINE p == <<[position |-> i, sideData |-> i]>>
<1>1. i \in Positions
  BY DEF With
<1>2. [position |-> i, sideData |-> i] \in Item
  BY <1>1 DEF Item
<1>3. /\ p \in Seq(Item) /\ DOMAIN p = {1} /\ p[1].position = i /\ p[1].sideData = i
  BY <1>2
<1> HIDE DEF p
<1>4. Fit(p)
  BY <1>3 DEF Fit
<1> QED  BY <1>3, <1>4 DEF p

LEMMA RaceDecidesStep ==
  ASSUME MediationInv, RaceDecides
  PROVE  /\ MediationInv' /\ ran' = ran /\ With("passed")' = With("passed")
         /\ phase = "choosing" /\ phase' \in {"running", "refused"}
<1> DEFINE I == {k \in 1 .. Len(settled) : tests[settled[k]].reply.status # "failed"}
           k == IF I # {} THEN Min(I) ELSE 0
           p == <<[position |-> settled[k], sideData |-> settled[k]]>>
<1>1. /\ phase = "choosing" /\ strategy.type = "race" /\ Mediating
      /\ UNCHANGED <<selected, cursor, ran, outputs>>
  BY DEF RaceDecides
<1>2. IF k > 0 /\ tests[settled[k]].reply.status = "passed" THEN Decide(p) ELSE Refuse
  BY DEF RaceDecides, SelectInSeq
<1>3. settled \in Seq(Positions) /\ selected' \in Seq(Positions) /\ cursor' \in Nat
  BY <1>1 DEF MediationInv, MediatorTypeOK
<1>4. ASSUME k > 0, tests[settled[k]].reply.status = "passed"
      PROVE  RaceWon(settled[k]) /\ settled[k] \in With("passed")
  <2>1. I # {} /\ k = Min(I)
    <3> HIDE DEF I
    <3> QED  BY <1>4
  <2>2. k \in I /\ \A j \in I : k <= j
    <3>1. I \in SUBSET Nat
      OBVIOUS
    <3> HIDE DEF I
    <3>2. \E x \in I : \A y \in I : x <= y
      BY <2>1, <3>1, LeastNat
    <3> QED  BY <2>1, <3>2 DEF Min
  <2> HIDE DEF k
  <2>3. k \in DOMAIN settled /\ DOMAIN settled = 1 .. Len(settled) /\ Len(settled) \in Nat
    BY <1>3, <2>2
  <2>4. ASSUME NEW j \in DOMAIN settled, j < k PROVE settled[j] \in With("failed")
    <3>1. j \notin I /\ j \in 1 .. Len(settled)
      BY <2>2, <2>3, <2>4
    <3> QED  BY <1>3, <3>1 DEF With
  <2>5. settled[k] \in With("passed")
    BY <1>3, <1>4, <2>3 DEF With
  <2> QED  BY <2>3, <2>4, <2>5 DEF RaceWon
<1> HIDE DEF k, I
<1>5. CASE k > 0 /\ tests[settled[k]].reply.status = "passed"
  <2>1. p \in Seq(Item) /\ Fit(p)
    BY <1>1, <1>4, <1>5, OneActorFits
  <2>2. Decide(p)
    BY <1>2, <1>5
  <2> HIDE DEF p
  <2> QED  BY <1>1, <1>3, <2>1, <2>2, PlannedStep
<1>6. CASE ~(k > 0 /\ tests[settled[k]].reply.status = "passed")
  <2>1. Refuse
    BY <1>2, <1>6
  <2> QED  BY <1>1, <1>3, <2>1, NoPlanFits, PlannedStep
<1> QED  BY <1>5, <1>6

LEMMA ChoiceDecidesStep ==
  ASSUME MediationInv, ChoiceDecides
  PROVE  /\ MediationInv' /\ ran' = ran /\ With("passed")' = With("passed")
         /\ phase = "choosing" /\ phase' \in {"running", "refused"}
<1> DEFINE pick == IF strategy.type = "number" THEN indexPicker ELSE minIndex
           p == <<[position |-> pick, sideData |-> pick]>>
<1>1. /\ phase = "choosing" /\ strategy.type \in {"number", "coefficients"} /\ Mediating
      /\ UNCHANGED <<selected, cursor, ran, outputs>>
      /\ MediatorTypeOK /\ PhaseInv /\ RepliesInv
  BY DEF ChoiceDecides, MediationInv
<1>2. \/ Refuse
      \/ AllSettled(Positions) /\ pick # 0 /\ Decide(p)
  BY DEF ChoiceDecides
<1>3. selected' \in Seq(Positions) /\ cursor' \in Nat
  BY <1>1 DEF MediatorTypeOK
<1>4. CASE AllSettled(Positions) /\ pick # 0 /\ Decide(p)
  <2>1. /\ pick \in With("passed")
        /\ strategy.type = "number" => BestNumber(pick)
        /\ strategy.type = "coefficients" /\ CostsCount => BestCoefficients(pick)
    <3>1. CASE strategy.type = "number"
      <4>1. pick = indexPicker
        BY <3>1
      <4> HIDE DEF pick
      <4> QED  BY <1>1, <1>4, <3>1, <4>1, indexPickerFacts
    <3>2. CASE strategy.type = "coefficients"
      <4>1. pick = minIndex
        BY <3>2
      <4> HIDE DEF pick
      <4> QED  BY <1>1, <1>4, <3>2, <4>1, minIndexFacts
    <3> QED  BY <1>1, <3>1, <3>2
  <2> HIDE DEF pick
  <2>2. p \in Seq(Item) /\ Fit(p)
    BY <1>1, <1>4, <2>1, OneActorFits
  <2> HIDE DEF p
  <2> QED  BY <1>1, <1>3, <1>4, <2>2, PlannedStep
<1>5. CASE Refuse
  BY <1>1, <1>3, <1>5, NoPlanFits, PlannedStep
<1> QED  BY <1>2, <1>4, <1>5


LEMMA IncreasingFacts ==
  ASSUME NEW s \in Seq(Nat), Increasing(s)
  PROVE  \A j, k \in DOMAIN s : s[j] = s[k] => j = k
<1> SUFFICES ASSUME NEW j \in DOMAIN s, NEW k \in DOMAIN s, s[j] = s[k], j # k PROVE FALSE
  OBVIOUS
<1>1. s[j] \in Nat /\ s[k] \in Nat /\ j \in Nat /\ k \in Nat
  OBVIOUS
<1>2. j < k \/ k < j
  BY <1>1
<1> QED  BY <1>1, <1>2 DEF Increasing

LEMMA InKeyOrderFacts ==
  ASSUME NEW P, Numeric(P), NEW s \in Seq(P), InKeyOrder(s)
  PROVE  \A j, k \in DOMAIN s : s[j] = s[k] => j = k
<1> SUFFICES ASSUME NEW j \in DOMAIN s, NEW k \in DOMAIN s, s[j] = s[k], j # k PROVE FALSE
  OBVIOUS
<1>1. s[j] \in P /\ s[k] \in P /\ j \in Nat /\ k \in Nat
  OBVIOUS
<1>2. Key(s[j]) \in Int /\ s[j] \in Nat
  BY <1>1, KeyFacts
<1>3. ~Precedes(s[j], s[k]) /\ ~Precedes(s[k], s[j])
  BY <1>2 DEF Precedes
<1>4. j < k \/ k < j
  BY <1>1
<1> QED  BY <1>3, <1>4 DEF InKeyOrder

\* Running all that passed, in the order of the bus or of a sort.
LEMMA StepsFit ==
  ASSUME MediatorTypeOK, NEW s \in Seq(Positions), Len(s) = Len(selected),
         strategy.type \in {"all", "pipeline", "union"},
         (strategy.type = "pipeline" => strategy.order = "none") => s = selected,
         \A j, k \in DOMAIN s : s[j] = s[k] => j = k,
         ToSet(s) = With("passed"), AllSettled(Positions),
         \A k \in 1 .. Len(s) - 1 : FollowedBy(s[k], s[k + 1])
  PROVE  steps(s) \in Seq(Item) /\ Fit(steps(s))
<1> DEFINE p == steps(s)
           N == Len(s)
<1>1. N \in Nat /\ DOMAIN s = 1 .. N /\ selected \in Seq(Positions) /\ DOMAIN selected = 1 .. N
  BY DEF MediatorTypeOK
<1>2. p = [k \in 1 .. N |-> [position |-> s[k], sideData |-> selected[k]]]
  BY <1>1 DEF steps
<1>3. \A k \in 1 .. N : [position |-> s[k], sideData |-> selected[k]] \in Item
  BY <1>1 DEF Item
<1>4. p \in [1 .. N -> Item]
  BY <1>2, <1>3
<1> HIDE DEF p, N
<1>5. p \in Seq(Item) /\ Len(p) = N /\ DOMAIN p = 1 .. N
  BY <1>1, <1>4, FunctionIsSeq
<1>6. \A k \in 1 .. N : p[k].position = s[k] /\ p[k].sideData = selected[k]
  BY <1>2
<1>7. \A j, k \in DOMAIN p : p[j].position = p[k].position => j = k
  BY <1>1, <1>5, <1>6
<1>8. \A k \in DOMAIN p : p[k].position \in With("passed")
  BY <1>1, <1>5, <1>6 DEF ToSet
<1>9. (strategy.type = "pipeline" => strategy.order = "none")
        => \A k \in DOMAIN p : p[k].sideData = p[k].position
  BY <1>5, <1>6
<1>10. WholeInOrder(p)
  <2>1. ASSUME NEW i \in With("passed") PROVE \E k \in DOMAIN p : p[k].position = i
    <3>1. PICK k \in DOMAIN s : s[k] = i
      BY DEF ToSet
    <3> QED  BY <1>1, <1>5, <1>6, <3>1
  <2>2. ASSUME NEW k \in 1 .. Len(p) - 1 PROVE FollowedBy(p[k].position, p[k + 1].position)
    <3>1. k \in 1 .. N - 1 /\ k \in 1 .. N /\ k + 1 \in 1 .. N
      BY <1>1, <1>5
    <3>2. p[k].position = s[k] /\ p[k + 1].position = s[k + 1]
      BY <1>6, <3>1
    <3> QED  BY <3>1, <3>2 DEF N
  <2> QED  BY <2>1, <2>2 DEF WholeInOrder
<1>11. Fit(p)
  BY <1>7, <1>8, <1>9, <1>10 DEF Fit
<1> QED  BY <1>5, <1>11 DEF p

LEMMA FollowedInOrder ==
  ASSUME MediatorTypeOK, NEW s \in Seq(Positions), Increasing(s),
         strategy.type # "pipeline" \/ strategy.order = "none" \/ Len(s) <= 1
  PROVE  \A k \in 1 .. Len(s) - 1 : FollowedBy(s[k], s[k + 1])
<1> SUFFICES ASSUME NEW k \in 1 .. Len(s) - 1 PROVE FollowedBy(s[k], s[k + 1])
  OBVIOUS
<1>1. k \in DOMAIN s /\ k + 1 \in DOMAIN s /\ k < k + 1 /\ Len(s) \in Nat
  OBVIOUS
<1>2. s[k] < s[k + 1] /\ Len(s) > 1
  BY <1>1 DEF Increasing
<1> QED  BY <1>1, <1>2 DEF FollowedBy

LEMMA FilterNextStep ==
  ASSUME MediationInv, FilterNext
  PROVE  /\ MediationInv' /\ ran' = ran /\ With("passed")' = With("passed")
         /\ phase = "filtering" /\ phase' \in {"filtering", "refused"}
<1>1. /\ phase = "filtering" /\ cursor \in Positions /\ Mediating /\ UNCHANGED <<ran, outputs>>
      /\ tests[cursor].reply.status # "pending"
  BY DEF FilterNext
<1>2. /\ MediatorTypeOK /\ PhaseInv /\ RepliesInv /\ SelectedInv /\ Fit(plan) /\ RanInv
  BY DEF MediationInv
<1>3. CASE cursor \in With("rejected")
  <2>1. Refuse /\ selected' = selected /\ cursor' = cursor
    BY <1>3 DEF FilterNext
  <2>2. selected' \in Seq(Positions) /\ cursor' \in Nat
    BY <1>2, <2>1 DEF MediatorTypeOK
  <2> QED  BY <1>1, <2>1, <2>2, NoPlanFits, PlannedStep DEF Refuse, Decide
<1>4. CASE cursor \notin With("rejected")
  <2>1. /\ selected' = IF cursor \in With("passed") THEN Append(selected, cursor) ELSE selected
        /\ cursor' = cursor + 1 /\ phase' = phase /\ plan' = plan
        /\ tests' = tests /\ strategy' = strategy /\ settled' = settled
        /\ ran' = ran /\ outputs' = outputs
    BY <1>4 DEF FilterNext, kept, Mediating
  <2>2. /\ Positions' = Positions /\ Item' = Item /\ \A status : With(status)' = With(status)
    BY <2>1, TestsKept
  <2>3. cursor \in With("passed") \/ cursor \in With("failed")
    BY <1>1, <1>2, <1>4, TestFacts DEF With
  <2>4. /\ selected \in Seq(Positions) /\ Len(tests) \in Nat /\ Positions = 1 .. Len(tests)
        /\ cursor \in Nat
    BY <1>1, <1>2, TestFacts DEF MediatorTypeOK
  <2>5. /\ Increasing(selected)
        /\ \A k \in DOMAIN selected : selected[k] < cursor /\ selected[k] \in With("passed")
        /\ \A i \in Positions : i < cursor => i \in With("failed") \/ i \in ToSet(selected)
    BY <1>1, <1>2 DEF SelectedInv
  <2>6. /\ selected' \in Seq(Positions) /\ Increasing(selected)'
        /\ \A k \in DOMAIN selected' :
             selected'[k] < cursor + 1 /\ selected'[k] \in With("passed")
        /\ \A i \in Positions : i < cursor + 1 => i \in With("failed") \/ i \in ToSet(selected')
    <3>1. CASE cursor \in With("passed")
      <4> DEFINE s == Append(selected, cursor)
                 n == Len(selected)
      <4>1. selected' = s
        BY <2>1, <3>1
      <4>2. /\ s \in Seq(Positions) /\ n \in Nat /\ DOMAIN selected = 1 .. n
            /\ DOMAIN s = 1 .. n + 1 /\ s[n + 1] = cursor
            /\ \A k \in 1 .. n : s[k] = selected[k]
        BY <1>1, <2>4
      <4> HIDE DEF s
      <4>3. \A k \in 1 .. n : s[k] \in Nat /\ s[k] < cursor /\ s[k] \in With("passed")
        <5> SUFFICES ASSUME NEW k \in 1 .. n
                     PROVE  s[k] \in Nat /\ s[k] < cursor /\ s[k] \in With("passed")
          OBVIOUS
        <5>1. k \in DOMAIN selected /\ s[k] = selected[k]
          BY <4>2
        <5>2. selected[k] \in 1 .. Len(tests)
          BY <2>4, <5>1
        <5> QED  BY <2>5, <5>1, <5>2
      <4>4. \A k \in 1 .. n + 1 : k \in 1 .. n \/ k = n + 1
        BY <4>2
      <4>5. \A k \in DOMAIN s : s[k] < cursor + 1 /\ s[k] \in With("passed")
        BY <2>4, <3>1, <4>2, <4>3, <4>4
      <4>6. Increasing(s)
        <5> SUFFICES ASSUME NEW j \in 1 .. n + 1, NEW k \in 1 .. n + 1, j < k PROVE s[j] < s[k]
          BY <4>2 DEF Increasing
        <5>1. j \in 1 .. n
          BY <4>2
        <5>2. CASE k = n + 1
          BY <4>2, <4>3, <5>1, <5>2
        <5>3. CASE k # n + 1
          <6>1. k \in 1 .. n
            BY <4>4, <5>3
          <6> QED  BY <2>5, <4>2, <5>1, <6>1 DEF Increasing
        <5> QED  BY <5>2, <5>3
      <4>7. ASSUME NEW i \in Positions, i < cursor + 1 PROVE i \in With("failed") \/ i \in ToSet(s)
        <5>1. CASE i = cursor
          BY <4>2, <5>1 DEF ToSet
        <5>2. CASE i # cursor
          <6>1. i \in With("failed") \/ i \in ToSet(selected)
            BY <2>4, <2>5, <4>7, <5>2
          <6>2. ToSet(selected) \subseteq ToSet(s)
            BY <4>2 DEF ToSet
          <6> QED  BY <6>1, <6>2
        <5> QED  BY <5>1, <5>2
      <4>8. Increasing(selected)'
        BY <4>1, <4>6 DEF Increasing
      <4> QED  BY <4>1, <4>2, <4>5, <4>7, <4>8
    <3>2. CASE cursor \notin With("passed")
      <4>1. selected' = selected /\ cursor \in With("failed")
        BY <2>1, <2>3, <3>2
      <4>2. \A k \in DOMAIN selected : selected[k] \in Nat
        BY <2>4
      <4>3. Increasing(selected)'
        BY <2>5, <4>1 DEF Increasing
      <4>4. ASSUME NEW i \in Positions, i < cursor + 1
            PROVE  i \in With("failed") \/ i \in ToSet(selected)
        <5>1. CASE i = cursor
          BY <4>1, <5>1
        <5>2. CASE i # cursor
          BY <2>4, <2>5, <4>4, <5>2
        <5> QED  BY <5>1, <5>2
      <4>5. \A k \in DOMAIN selected : selected[k] < cursor + 1
        BY <2>4, <2>5, <4>2
      <4> QED  BY <2>4, <2>5, <4>1, <4>3, <4>4, <4>5
    <3> QED  BY <3>1, <3>2
  <2>7. MediatorTypeOK'
    <3>1. /\ strategy' \in Strategies \cup {NoStrategy} /\ tests' \in Seq(Test)
          /\ settled' \in Seq(Positions) /\ ran' \in Seq(Item) /\ plan' \in Seq(Item)
          /\ outputs' \in Seq({"pending", "output", "error"}) /\ cursor' \in Nat
      BY <1>2, <2>1, <2>4 DEF MediatorTypeOK
    <3> QED  BY <1>1, <2>1, <2>2, <2>6, <3>1 DEF MediatorTypeOK, Test, Reply
  <2>8. PhaseInv'
    <3>1. strategy' \in Strategies /\ strategy'.type \in {"all", "pipeline", "union"}
          /\ plan' = <<>> /\ ran' = <<>> /\ phase' = "filtering"
      BY <1>1, <1>2, <2>1 DEF PhaseInv
    <3> QED  BY <3>1 DEF PhaseInv
  <2>9. RepliesInv'
    BY <1>2, <2>1, <2>2 DEF RepliesInv, Answers
  <2>10. SelectedInv'
    <3>1. cursor' \in 1 .. Len(tests)' + 1
      BY <1>1, <2>1, <2>4
    <3> QED  BY <1>1, <2>1, <2>2, <2>6, <3>1 DEF SelectedInv
  <2>11. Fit(plan)'
    BY <1>2, <2>1, FitKept
  <2>12. RanInv'
    BY <1>2, <2>1 DEF RanInv
  <2> QED  BY <1>1, <2>1, <2>2, <2>7, <2>8, <2>9, <2>10, <2>11, <2>12 DEF MediationInv
<1> QED  BY <1>3, <1>4


LEMMA FilteredStep ==
  ASSUME MediationInv, Filtered
  PROVE  /\ MediationInv' /\ ran' = ran /\ With("passed")' = With("passed")
         /\ phase = "filtering" /\ phase' \in {"running", "refused", "delegating"}
<1>1. /\ phase = "filtering" /\ cursor \notin Positions /\ Mediating
      /\ UNCHANGED <<selected, cursor, ran, outputs>>
  BY DEF Filtered
<1>2. /\ MediatorTypeOK /\ PhaseInv /\ RepliesInv /\ SelectedInv /\ Fit(plan) /\ RanInv
      /\ strategy.type \in {"all", "pipeline", "union"} /\ plan = <<>> /\ ran = <<>>
      /\ strategy \in Strategies
  BY <1>1 DEF MediationInv, PhaseInv
<1>3. /\ selected \in Seq(Positions) /\ cursor \in Nat /\ Len(tests) \in Nat
      /\ Positions = 1 .. Len(tests)
  BY <1>2, TestFacts DEF MediatorTypeOK
<1>4. /\ cursor \in 1 .. Len(tests) + 1 /\ Increasing(selected)
      /\ \A k \in DOMAIN selected : selected[k] < cursor /\ selected[k] \in With("passed")
      /\ \A i \in Positions : i < cursor => i \in With("failed") \/ i \in ToSet(selected)
  BY <1>1, <1>2 DEF SelectedInv
<1>5. \A i \in Positions : i \in With("failed") \/ i \in ToSet(selected)
  <2>1. \A i \in Positions : i < cursor
    BY <1>1, <1>3, <1>4
  <2> QED  BY <1>4, <2>1
<1>6. CASE strategy.type = "all"
  <2>1. Decide(steps(selected))
    BY <1>6 DEF Filtered
  <2>2. ToSet(selected) = With("passed")
    <3>1. ToSet(selected) \subseteq With("passed")
      BY <1>4 DEF ToSet
    <3>2. \A i \in With("passed") : i \in Positions /\ i \notin With("failed")
      BY DEF With
    <3> QED  BY <1>5, <3>1, <3>2
  <2>3. AllSettled(Positions)
    BY <1>5, <2>2 DEF AllSettled, With
  <2>4. \A j, k \in DOMAIN selected : selected[j] = selected[k] => j = k
    <3>1. selected \in Seq(Nat)
      BY <1>3
    <3> QED  BY <1>4, <3>1, IncreasingFacts
  <2>5. \A k \in 1 .. Len(selected) - 1 : FollowedBy(selected[k], selected[k + 1])
    BY <1>2, <1>3, <1>4, <1>6, FollowedInOrder
  <2>6. steps(selected) \in Seq(Item) /\ Fit(steps(selected))
    BY <1>2, <1>3, <1>6, <2>2, <2>3, <2>4, <2>5, StepsFit
  <2>7. selected' \in Seq(Positions) /\ cursor' \in Nat
    BY <1>1, <1>3
  <2> QED  BY <1>1, <2>1, <2>6, <2>7, PlannedStep
<1>7. CASE strategy.type # "all"
  <2>1. /\ phase' = "delegating" /\ plan' = plan /\ selected' = selected /\ cursor' = cursor
        /\ tests' = tests /\ strategy' = strategy /\ settled' = settled
        /\ ran' = ran /\ outputs' = outputs
    BY <1>1, <1>7 DEF Filtered, Mediating
  <2>2. /\ Positions' = Positions /\ Item' = Item /\ \A status : With(status)' = With(status)
    BY <2>1, TestsKept
  <2>3. MediatorTypeOK'
    BY <1>2, <2>1, <2>2 DEF MediatorTypeOK, Test, Reply
  <2>4. PhaseInv'
    BY <1>2, <1>7, <2>1 DEF PhaseInv
  <2>5. RepliesInv'
    BY <1>2, <2>1, <2>2 DEF RepliesInv, Answers
  <2>6. SelectedInv'
    BY <1>4, <1>5, <2>1, <2>2 DEF SelectedInv, Increasing
  <2>7. Fit(plan)'
    BY <1>2, <2>1, FitKept
  <2>8. RanInv'
    BY <1>2, <2>1 DEF RanInv
  <2> QED  BY <1>1, <2>1, <2>2, <2>3, <2>4, <2>5, <2>6, <2>7, <2>8 DEF MediationInv
<1> QED  BY <1>6, <1>7

\* A pipeline sorts by value, and by place where the values are equal.
LEMMA FollowedWhenSorted ==
  ASSUME MediatorTypeOK, strategy.type = "pipeline", strategy.order # "none",
         NEW P, Numeric(P), NEW s \in Seq(P), InKeyOrder(s),
         \A i \in P : tests[i].reply.value \in Values
  PROVE  \A k \in 1 .. Len(s) - 1 : FollowedBy(s[k], s[k + 1])
<1> SUFFICES ASSUME NEW k \in 1 .. Len(s) - 1 PROVE FollowedBy(s[k], s[k + 1])
  OBVIOUS
<1> DEFINE i == s[k]
           j == s[k + 1]
<1>1. k \in DOMAIN s /\ k + 1 \in DOMAIN s /\ k < k + 1 /\ i \in P /\ j \in P
  OBVIOUS
<1>2. Precedes(i, j)
  BY <1>1 DEF InKeyOrder
<1> HIDE DEF i, j
<1>3. /\ tests[i].reply.value \in Values /\ tests[j].reply.value \in Values
      /\ tests[i].reply.value \in Int /\ tests[j].reply.value \in Int
  BY <1>1 DEF Numeric
<1>4. ahead(i, j) <=> Key(i) < Key(j)
  BY <1>1, KeyFacts
<1>5. Key(i) = Key(j) => tests[i].reply.value = tests[j].reply.value
  <2>1. CASE strategy.order = "increasing"
    BY <2>1 DEF Key
  <2>2. CASE strategy.order # "increasing"
    BY <1>3, <2>2 DEF Key
  <2> QED  BY <2>1, <2>2
<1>6. FollowedBy(i, j)
  BY <1>2, <1>3, <1>4, <1>5 DEF Precedes, FollowedBy
<1> QED  BY <1>6 DEF i, j

LEMMA DelegateStep ==
  ASSUME MediationInv, Delegate
  PROVE  /\ MediationInv' /\ ran' = ran /\ With("passed")' = With("passed")
         /\ phase = "delegating" /\ phase' \in {"running", "refused"}
<1> DEFINE sort == strategy.type = "pipeline" /\ strategy.order # "none" /\ Len(selected) > 1
           unsortable == \E i \in ToSet(selected) : tests[i].reply.value = Undefined
           s == IF sort THEN Sorted(selected) ELSE selected
<1>1. /\ phase = "delegating" /\ Mediating /\ UNCHANGED <<selected, cursor, ran, outputs>>
  BY DEF Delegate
<1>2. \/ Refuse
      \/ /\ \A i \in ToSet(selected) : i \in With("passed")
         /\ ~(sort /\ unsortable) /\ Decide(steps(s))
  BY DEF Delegate
<1>3. /\ MediatorTypeOK /\ RepliesInv /\ SelectedInv /\ strategy.type \in {"pipeline", "union"}
  BY <1>1 DEF MediationInv, PhaseInv
<1>4. /\ selected \in Seq(Positions) /\ cursor \in Nat /\ Len(tests) \in Nat
      /\ Positions = 1 .. Len(tests) /\ Len(selected) \in Nat
  BY <1>3, TestFacts DEF MediatorTypeOK
<1>5. selected' \in Seq(Positions) /\ cursor' \in Nat
  BY <1>1, <1>4
<1>6. CASE Refuse
  BY <1>1, <1>5, <1>6, NoPlanFits, PlannedStep
<1>7. CASE /\ \A i \in ToSet(selected) : i \in With("passed")
           /\ ~(sort /\ unsortable) /\ Decide(steps(s))
  <2>1. /\ Increasing(selected)
        /\ \A i \in Positions : i \in With("failed") \/ i \in ToSet(selected)
    BY <1>1, <1>3 DEF SelectedInv
  <2>2. ToSet(selected) = With("passed")
    <3>1. \A i \in With("passed") : i \in Positions /\ i \notin With("failed")
      BY DEF With
    <3> QED  BY <1>7, <2>1, <3>1
  <2>3. AllSettled(Positions)
    BY <2>1, <2>2 DEF AllSettled, With
  <2>4. /\ s \in Seq(Positions) /\ Len(s) = Len(selected) /\ ToSet(s) = With("passed")
        /\ (strategy.type = "pipeline" => strategy.order = "none") => s = selected
        /\ \A j, k \in DOMAIN s : s[j] = s[k] => j = k
        /\ \A k \in 1 .. Len(s) - 1 : FollowedBy(s[k], s[k + 1])
    <3>1. CASE sort
      <4> DEFINE P == With("passed")
      <4>1. \A i \in P : tests[i].reply.value \in Values
        <5>1. \A i \in P : tests[i].reply.value \in Values \cup {Undefined}
          BY <1>3, <3>1 DEF RepliesInv, Answers
        <5>2. \A i \in P : tests[i].reply.value # Undefined
          BY <1>7, <2>2, <3>1
        <5> QED  BY <5>1, <5>2
      <4>2. Numeric(P)
        <5>1. \A x \in Values : x \in Int
          BY MediatorAssumption DEF Infinity
        <5>2. P \subseteq Nat
          BY <1>4 DEF With
        <5> QED  BY <4>1, <5>1, <5>2 DEF Numeric
      <4>3. selected \in Seq(P)
        <5>1. \A k \in 1 .. Len(selected) : selected[k] \in P
          BY <1>4, <2>2 DEF ToSet
        <5> HIDE DEF P
        <5> QED  BY <1>4, <5>1
      <4>4. s = Sorted(selected)
        BY <3>1
      <4> HIDE DEF s, P
      <4>5. s \in Seq(P) /\ Len(s) = Len(selected) /\ InKeyOrder(s) /\ ToSet(s) = P
        BY <2>1, <2>2, <4>2, <4>3, <4>4, SortedFacts DEF P
      <4>6. \A j, k \in DOMAIN s : s[j] = s[k] => j = k
        BY <4>2, <4>5, InKeyOrderFacts
      <4>7. \A k \in 1 .. Len(s) - 1 : FollowedBy(s[k], s[k + 1])
        BY <1>3, <3>1, <4>1, <4>2, <4>5, FollowedWhenSorted
      <4>8. s \in Seq(Positions)
        <5>1. P \subseteq Positions
          BY DEF P, With
        <5> QED  BY <4>5, <5>1
      <4> QED  BY <3>1, <4>5, <4>6, <4>7, <4>8 DEF P
    <3>2. CASE ~sort
      <4>1. s = selected
        BY <3>2
      <4>2. selected \in Seq(Nat)
        BY <1>4
      <4>3. \A j, k \in DOMAIN selected : selected[j] = selected[k] => j = k
        BY <2>1, <4>2, IncreasingFacts
      <4>4. \A k \in 1 .. Len(selected) - 1 : FollowedBy(selected[k], selected[k + 1])
        BY <1>3, <1>4, <2>1, <3>2, FollowedInOrder
      <4> HIDE DEF s
      <4> QED  BY <1>4, <2>2, <4>1, <4>3, <4>4
    <3> QED  BY <3>1, <3>2
  <2> HIDE DEF s
  <2>5. strategy.type \in {"all", "pipeline", "union"}
    BY <1>3
  <2>6. steps(s) \in Seq(Item) /\ Fit(steps(s))
    BY <1>3, <2>3, <2>4, <2>5, StepsFit
  <2> QED  BY <1>1, <1>5, <1>7, <2>6, PlannedStep
<1> QED  BY <1>2, <1>6, <1>7


LEMMA SameInterval == ASSUME NEW m \in Nat, NEW n \in Nat, 1 .. m = 1 .. n PROVE m = n
<1>1. CASE m < n
  <2>1. n \in 1 .. n /\ n \notin 1 .. m
    BY <1>1
  <2> QED  BY <2>1
<1>2. CASE n < m
  <2>1. m \in 1 .. m /\ m \notin 1 .. n
    BY <1>2
  <2> QED  BY <2>1
<1> QED  BY <1>1, <1>2

\* What is run changes nothing of what was decided.
LEMMA RunningStep ==
  ASSUME MediationInv, Mediating, UNCHANGED <<selected, cursor, plan>>, phase = "running",
         phase' \in {"running", "answered", "refused"}, ran' \in Seq(Item),
         outputs' \in Seq({"pending", "output", "error"}), RanInv'
  PROVE  MediationInv' /\ With("passed")' = With("passed")
<1>1. /\ tests' = tests /\ strategy' = strategy /\ settled' = settled /\ plan' = plan
      /\ selected' = selected /\ cursor' = cursor
  BY DEF Mediating
<1>2. /\ Positions' = Positions /\ Item' = Item /\ \A status : With(status)' = With(status)
  BY <1>1, TestsKept
<1>3. /\ MediatorTypeOK /\ PhaseInv /\ RepliesInv /\ Fit(plan)
  BY DEF MediationInv
<1>4. MediatorTypeOK'
  <2>1. /\ strategy' \in Strategies \cup {NoStrategy} /\ tests' \in Seq(Test)
        /\ settled' \in Seq(Positions) /\ selected' \in Seq(Positions) /\ cursor' \in Nat
        /\ plan' \in Seq(Item)
    BY <1>1, <1>3 DEF MediatorTypeOK
  <2> QED  BY <1>2, <2>1 DEF MediatorTypeOK, Test, Reply
<1>5. PhaseInv'
  <2>1. strategy' \in Strategies
    BY <1>1, <1>3 DEF PhaseInv
  <2> QED  BY <2>1 DEF PhaseInv
<1>6. RepliesInv'
  BY <1>1, <1>2, <1>3 DEF RepliesInv, Answers
<1>7. SelectedInv'
  BY DEF SelectedInv
<1>8. Fit(plan)'
  BY <1>1, <1>3, FitKept
<1> QED  BY <1>2, <1>4, <1>5, <1>6, <1>7, <1>8 DEF MediationInv

\* The positions whose actors were started.
Started == {ran[k].position : k \in DOMAIN ran}

LEMMA RunNextStep ==
  ASSUME MediationInv, RunNext
  PROVE  /\ MediationInv' /\ phase = "running" /\ phase' = "running"
         /\ With("passed")' = With("passed")
         /\ \E cs \in (SUBSET (With("passed") \ Started)) \ {{}} : Started' = Started \cup cs
<1>1. /\ phase = "running" /\ phase' = "running" /\ Len(ran) < Len(plan) /\ Mediating
      /\ UNCHANGED <<selected, cursor, plan>> /\ plan' = plan
  BY DEF RunNext
<1>2. /\ plan \in Seq(Item) /\ ran \in Seq(Item) /\ RanInv /\ Fit(plan)
      /\ outputs \in Seq({"pending", "output", "error"})
  BY DEF MediationInv, MediatorTypeOK
<1> DEFINE n == Len(ran)
<1>3. /\ n \in Nat /\ Len(plan) \in Nat /\ DOMAIN ran = 1 .. n /\ DOMAIN plan = 1 .. Len(plan)
      /\ n + 1 \in DOMAIN plan /\ DOMAIN outputs = 1 .. n /\ Len(outputs) = n
      /\ \A k \in 1 .. n : ran[k] = plan[k]
  <2>1. DOMAIN outputs = DOMAIN ran /\ DOMAIN outputs = 1 .. Len(outputs) /\ Len(outputs) \in Nat
        /\ \A k \in DOMAIN ran : ran[k] = plan[k]
    BY <1>2 DEF RanInv
  <2>2. n \in Nat /\ Len(plan) \in Nat /\ DOMAIN ran = 1 .. n /\ DOMAIN plan = 1 .. Len(plan)
    BY <1>2
  <2>3. n + 1 \in DOMAIN plan
    BY <1>1, <2>2
  <2>4. Len(outputs) = n
    BY <2>1, <2>2, SameInterval
  <2> QED  BY <2>1, <2>2, <2>3, <2>4
<1>4. /\ ran' \in Seq(Item) /\ outputs' \in Seq({"pending", "output", "error"})
      /\ DOMAIN outputs' = DOMAIN ran' /\ DOMAIN ran' \subseteq DOMAIN plan
      /\ \A k \in DOMAIN ran' : ran'[k] = plan[k]
      /\ DOMAIN ran \subseteq DOMAIN ran' /\ n + 1 \in DOMAIN ran'
  <2>1. CASE strategy.type = "pipeline"
    <3>1. ran' = Append(ran, plan[n + 1]) /\ outputs' = Append(outputs, "pending")
      BY <2>1 DEF RunNext
    <3>2. plan[n + 1] \in Item
      BY <1>2, <1>3
    <3>3. /\ ran' \in Seq(Item) /\ DOMAIN ran' = 1 .. n + 1 /\ ran'[n + 1] = plan[n + 1]
          /\ \A k \in 1 .. n : ran'[k] = ran[k]
      BY <1>2, <1>3, <3>1, <3>2
    <3>4. outputs' \in Seq({"pending", "output", "error"}) /\ DOMAIN outputs' = 1 .. n + 1
      BY <1>2, <1>3, <3>1
    <3>5. \A k \in 1 .. n + 1 : k \in 1 .. n \/ k = n + 1
      BY <1>3
    <3>6. 1 .. n + 1 \subseteq DOMAIN plan /\ 1 .. n \subseteq 1 .. n + 1 /\ n + 1 \in 1 .. n + 1
      BY <1>1, <1>3
    <3>7. \A k \in 1 .. n + 1 : ran'[k] = plan[k]
      BY <1>3, <3>3, <3>5
    <3> QED  BY <1>3, <3>3, <3>4, <3>6, <3>7
  <2>2. CASE strategy.type # "pipeline"
    <3>1. ran' = plan /\ outputs' = [k \in DOMAIN plan |-> "pending"]
      BY <2>2 DEF RunNext
    <3>2. outputs' \in [1 .. Len(plan) -> {"pending", "output", "error"}]
      BY <1>3, <3>1
    <3>3. outputs' \in Seq({"pending", "output", "error"}) /\ DOMAIN outputs' = 1 .. Len(plan)
      BY <1>3, <3>2, FunctionIsSeq
    <3>4. DOMAIN ran \subseteq DOMAIN plan
      BY <1>2 DEF RanInv
    <3> QED  BY <1>2, <1>3, <3>1, <3>3, <3>4
  <2> QED  BY <2>1, <2>2
<1>5. RanInv'
  BY <1>1, <1>4 DEF RanInv
<1>6. MediationInv' /\ With("passed")' = With("passed")
  BY <1>1, <1>4, <1>5, RunningStep
<1> DEFINE cs == Started' \ Started
           new == plan[n + 1].position
<1>7. \A k \in DOMAIN plan : plan[k].position \in With("passed")
  BY <1>2 DEF Fit
<1>8. Started' \subseteq With("passed")
  BY <1>4, <1>7 DEF Started
<1>9. Started \subseteq Started'
  BY <1>3, <1>4 DEF Started
<1>10. new \in Started'
  <2>1. ran'[n + 1].position = new
    BY <1>4
  <2> QED  BY <1>4, <2>1 DEF Started
<1>11. new \notin Started
  <2> SUFFICES ASSUME NEW k \in 1 .. n, ran[k].position = new PROVE FALSE
    BY <1>3 DEF Started
  <2>1. plan[k].position = plan[n + 1].position /\ k \in DOMAIN plan
    BY <1>1, <1>3
  <2>2. k = n + 1
    BY <1>2, <1>3, <2>1 DEF Fit
  <2> QED  BY <1>3, <2>2
<1>12. cs \in (SUBSET (With("passed") \ Started)) \ {{}} /\ Started' = Started \cup cs
  <2>1. cs \subseteq With("passed") \ Started
    BY <1>8
  <2>2. new \in cs
    BY <1>10, <1>11
  <2>3. Started' = Started \cup cs
    BY <1>9
  <2> HIDE DEF cs, new
  <2> QED  BY <2>1, <2>2, <2>3
<1> HIDE DEF cs
<1> QED  BY <1>1, <1>6, <1>12

LEMMA RunSettlesStep ==
  ASSUME MediationInv, NEW k \in DOMAIN ran, RunSettles(k)
  PROVE  MediationInv' /\ phase' = phase /\ ran' = ran /\ With("passed")' = With("passed")
<1>1. /\ phase' = phase /\ ran' = ran /\ Mediating /\ UNCHANGED <<selected, cursor, plan>>
      /\ k \in DOMAIN ran /\ plan' = plan
      /\ \E output \in {"output", "error"} : outputs' = [outputs EXCEPT ![k] = output]
  BY DEF RunSettles
<1>2. /\ outputs \in Seq({"pending", "output", "error"}) /\ ran \in Seq(Item) /\ RanInv
  BY DEF MediationInv, MediatorTypeOK
<1>3. outputs' \in Seq({"pending", "output", "error"}) /\ DOMAIN outputs' = DOMAIN outputs
  <2>1. PICK output \in {"output", "error"} : outputs' = [outputs EXCEPT ![k] = output]
    BY <1>1
  <2>2. output \in {"pending", "output", "error"}
    OBVIOUS
  <2> DEFINE E == {"pending", "output", "error"}
  <2>3. outputs \in Seq(E) /\ output \in E
    BY <1>2, <2>2
  <2> HIDE DEF E
  <2>4. k \in DOMAIN outputs
    BY <1>1, <1>2 DEF RanInv
  <2>5. outputs' \in Seq(E) /\ DOMAIN outputs' = DOMAIN outputs
    BY <2>1, <2>3, <2>4
  <2> QED  BY <2>5 DEF E
<1>4. RanInv'
  BY <1>1, <1>2, <1>3 DEF RanInv
<1>5. /\ tests' = tests /\ strategy' = strategy /\ settled' = settled
      /\ selected' = selected /\ cursor' = cursor
  BY <1>1 DEF Mediating
<1>6. /\ Positions' = Positions /\ Item' = Item /\ \A status : With(status)' = With(status)
  BY <1>5, TestsKept
<1>7. /\ MediatorTypeOK /\ PhaseInv /\ RepliesInv /\ SelectedInv /\ Fit(plan)
  BY DEF MediationInv
<1>8. MediatorTypeOK'
  <2>1. /\ strategy' \in Strategies \cup {NoStrategy} /\ tests' \in Seq(Test)
        /\ settled' \in Seq(Positions) /\ selected' \in Seq(Positions) /\ cursor' \in Nat
        /\ plan' \in Seq(Item) /\ ran' \in Seq(Item)
        /\ phase' \in {"idle", "choosing", "filtering", "delegating", "running", "answered",
                       "refused"}
    BY <1>1, <1>5, <1>7 DEF MediatorTypeOK
  <2> QED  BY <1>3, <1>6, <2>1 DEF MediatorTypeOK, Test, Reply
<1>9. PhaseInv'
  <2>1. phase # "idle"
    BY <1>1, <1>7 DEF PhaseInv
  <2>2. /\ strategy' = strategy /\ phase' = phase /\ plan' = plan /\ ran' = ran
    BY <1>1, <1>5
  <2> QED  BY <1>7, <2>1, <2>2 DEF PhaseInv
<1>10. RepliesInv'
  BY <1>5, <1>6, <1>7 DEF RepliesInv, Answers
<1>11. SelectedInv'
  BY <1>1, <1>5, <1>6, <1>7 DEF SelectedInv, Increasing
<1>12. Fit(plan)'
  BY <1>1, <1>5, <1>7, FitKept
<1> QED  BY <1>1, <1>4, <1>6, <1>8, <1>9, <1>10, <1>11, <1>12 DEF MediationInv

LEMMA AnswerStep ==
  ASSUME MediationInv, Answer
  PROVE  /\ MediationInv' /\ ran' = ran /\ With("passed")' = With("passed")
         /\ phase = "running" /\ phase' \in {"answered", "refused"}
<1>1. /\ phase = "running" /\ phase' \in {"answered", "refused"} /\ Mediating
      /\ UNCHANGED <<selected, cursor, plan>> /\ plan' = plan /\ ran' = ran /\ outputs' = outputs
  BY DEF Answer
<1>2. /\ ran \in Seq(Item) /\ outputs \in Seq({"pending", "output", "error"}) /\ RanInv
  BY DEF MediationInv, MediatorTypeOK
<1>3. RanInv'
  BY <1>1, <1>2 DEF RanInv
<1> QED  BY <1>1, <1>2, <1>3, RunningStep

LEMMA MediationStutter ==
  ASSUME MediationInv, UNCHANGED mediationVars
  PROVE  MediationInv' /\ phase' = phase /\ ran' = ran /\ With("passed")' = With("passed")
<1>1. /\ strategy' = strategy /\ phase' = phase /\ tests' = tests /\ settled' = settled
      /\ selected' = selected /\ cursor' = cursor /\ plan' = plan /\ ran' = ran
      /\ outputs' = outputs
  BY DEF mediationVars
<1>2. /\ Positions' = Positions /\ Item' = Item /\ \A status : With(status)' = With(status)
  BY <1>1, TestsKept
<1>3. /\ MediatorTypeOK /\ PhaseInv /\ RepliesInv /\ SelectedInv /\ Fit(plan) /\ RanInv
  BY DEF MediationInv
<1>4. MediatorTypeOK'
  BY <1>1, <1>2, <1>3 DEF MediatorTypeOK, Test, Reply
<1>5. PhaseInv' /\ RepliesInv' /\ SelectedInv' /\ RanInv'
  BY <1>1, <1>2, <1>3 DEF PhaseInv, RepliesInv, Answers, SelectedInv, Increasing, RanInv
<1>6. Fit(plan)'
  BY <1>1, <1>3, FitKept
<1> QED  BY <1>1, <1>2, <1>4, <1>5, <1>6 DEF MediationInv


-----------------------------------------------------------------------------
(* The theorems                                                            *)

\* What a step does to the request, the tests that passed and the runs.
Requested == CASE phase = "idle" -> "none"
               [] phase \in {"answered", "refused"} -> phase
               [] OTHER -> "open"
Asks == /\ Requested = "none" /\ Requested' \in {"open", "answered", "refused"}
        /\ With("passed")' = With("passed") /\ Started' = Started
Passes == /\ Requested # "none" /\ Requested' = Requested /\ Started' = Started
          /\ \E i \in With("passed")' : With("passed")' = With("passed") \cup {i}
Runs == /\ Requested = "open" /\ Requested' = Requested /\ With("passed")' = With("passed")
        /\ \E cs \in (SUBSET (With("passed") \ Started)) \ {{}} : Started' = Started \cup cs
Finishes == /\ Requested = "open" /\ Requested' \in {"answered", "refused"}
            /\ With("passed")' = With("passed") /\ Started' = Started
Rests == Requested' = Requested /\ With("passed")' = With("passed") /\ Started' = Started
Progress == Asks \/ Passes \/ Runs \/ Finishes \/ Rests

LEMMA MediatorStep ==
  ASSUME Inv, [Next]_vars
  PROVE  MediationInv' /\ Progress /\ [BusNext]_busVars
<1>1. BusTypeOK /\ MediationInv /\ MediatorTypeOK
  BY DEF Inv, BusInv, MediationInv
<1>2. phase \in {"idle", "choosing", "filtering", "delegating", "running", "answered", "refused"}
  BY <1>1 DEF MediatorTypeOK
<1>3. ran' = ran => Started' = Started
  BY DEF Started
<1>4. CASE Configure
  <2>1. BusNext /\ UNCHANGED mediationVars
    BY <1>4 DEF Configure
  <2>2. MediationInv' /\ phase' = phase /\ ran' = ran /\ With("passed")' = With("passed")
    BY <1>1, <2>1, MediationStutter
  <2>3. Rests
    BY <1>3, <2>2 DEF Rests, Requested
  <2> QED  BY <2>1, <2>2, <2>3 DEF Progress
<1>5. ASSUME NEW s \in Strategies, NEW id \in Identifier \cup {AnyId}, Mediate(s, id)
      PROVE  MediationInv' /\ Progress /\ [BusNext]_busVars
  <2>1. /\ MediationInv' /\ With("passed")' = {} /\ With("passed") = {}
        /\ phase = "idle" /\ phase' # "idle" /\ ran' = ran
    BY <1>1, <1>5, MediateStep
  <2>2. UNCHANGED busVars
    BY <1>5 DEF Mediate
  <2>3. Asks
    BY <1>3, <2>1 DEF Asks, Requested
  <2> QED  BY <2>1, <2>2, <2>3 DEF Progress
<1>6. ASSUME NEW i \in Positions, Settle(i)
      PROVE  MediationInv' /\ Progress /\ [BusNext]_busVars
  <2>1. /\ MediationInv' /\ phase # "idle" /\ phase' = phase /\ ran' = ran
        /\ With("passed")' = With("passed") \/ With("passed")' = With("passed") \cup {i}
    BY <1>1, <1>6, SettleStep
  <2>2. UNCHANGED busVars
    BY <1>6 DEF Settle
  <2>3. Requested' = Requested /\ Requested # "none"
    BY <2>1 DEF Requested
  <2>4. Rests \/ Passes
    <3>1. CASE With("passed")' = With("passed")
      BY <1>3, <2>1, <2>3, <3>1 DEF Rests
    <3>2. CASE With("passed")' = With("passed") \cup {i}
      <4>1. i \in With("passed")'
        BY <3>2
      <4> QED  BY <1>3, <2>1, <2>3, <3>2, <4>1 DEF Passes
    <3> QED  BY <2>1, <3>1, <3>2
  <2> QED  BY <2>1, <2>2, <2>4 DEF Progress
<1>7. CASE Proceed
  <2>1. UNCHANGED busVars
    BY <1>7 DEF Proceed, RaceDecides, ChoiceDecides, FilterNext, Filtered, Delegate, RunNext,
                Answer, Mediating
  <2>2. CASE RunNext
    <3>1. /\ MediationInv' /\ phase = "running" /\ phase' = "running"
          /\ With("passed")' = With("passed")
          /\ \E cs \in (SUBSET (With("passed") \ Started)) \ {{}} : Started' = Started \cup cs
      BY <1>1, <2>2, RunNextStep
    <3>2. Requested = "open" /\ Requested' = "open"
      BY <3>1 DEF Requested
    <3>3. Runs
      BY <3>1, <3>2 DEF Runs
    <3> QED  BY <2>1, <3>1, <3>3 DEF Progress
  <2>3. CASE RaceDecides \/ ChoiceDecides \/ FilterNext \/ Filtered \/ Delegate \/ Answer
    <3>1. /\ MediationInv' /\ ran' = ran /\ With("passed")' = With("passed")
          /\ phase \in {"choosing", "filtering", "delegating", "running"}
          /\ phase' \in {"filtering", "delegating", "running", "answered", "refused"}
      BY <1>1, <2>3, RaceDecidesStep, ChoiceDecidesStep, FilterNextStep, FilteredStep,
         DelegateStep, AnswerStep
    <3>2. /\ Requested = "open"
          /\ Requested' = IF phase' \in {"answered", "refused"} THEN phase' ELSE "open"
      BY <3>1 DEF Requested
    <3>3. Finishes \/ Rests
      BY <1>3, <3>1, <3>2 DEF Finishes, Rests
    <3> QED  BY <2>1, <3>1, <3>3 DEF Progress
  <2> QED  BY <1>7, <2>2, <2>3 DEF Proceed
<1>8. ASSUME NEW k \in DOMAIN ran, RunSettles(k)
      PROVE  MediationInv' /\ Progress /\ [BusNext]_busVars
  <2>1. MediationInv' /\ phase' = phase /\ ran' = ran /\ With("passed")' = With("passed")
    BY <1>1, <1>8, RunSettlesStep
  <2>2. UNCHANGED busVars
    BY <1>8 DEF RunSettles, Mediating
  <2>3. Rests
    BY <1>3, <2>1 DEF Rests, Requested
  <2> QED  BY <2>1, <2>2, <2>3 DEF Progress
<1>9. CASE UNCHANGED vars
  <2>1. UNCHANGED mediationVars /\ UNCHANGED busVars
    BY <1>9 DEF vars
  <2>2. MediationInv' /\ phase' = phase /\ ran' = ran /\ With("passed")' = With("passed")
    BY <1>1, <2>1, MediationStutter
  <2>3. Rests
    BY <1>3, <2>2 DEF Rests, Requested
  <2> QED  BY <2>1, <2>2, <2>3 DEF Progress
<1> QED  BY <1>4, <1>5, <1>6, <1>7, <1>8, <1>9 DEF Next

LEMMA Invariance == Spec => []Inv
<1>1. Init => Inv
  BY BusInitInv, MediationInit DEF Init, Inv
<1>2. Inv /\ [Next]_vars => Inv'
  <2> SUFFICES ASSUME Inv, [Next]_vars PROVE Inv'
    OBVIOUS
  <2>1. MediationInv' /\ [BusNext]_busVars
    BY MediatorStep
  <2>2. BusInv'
    BY <2>1, BusStep, BusStutter DEF Inv
  <2> QED  BY <2>1, <2>2 DEF Inv
<1> QED  BY <1>1, <1>2, PTL DEF Spec

\* The wiring of the bus before a mediation is a behaviour of the bus.
LEMMA WiredBus == Spec => BusInit /\ [][BusNext]_busVars
<1>1. Init => BusInit
  BY DEF Init
<1>2. Inv /\ [Next]_vars => [BusNext]_busVars
  BY MediatorStep
<1> QED  BY <1>1, <1>2, Invariance, PTL DEF Spec

\* The state of a mediation is what Mediator.mediate and its subclasses keep.
THEOREM MediatorTypeCorrect == Spec => [](BusTypeOK /\ MediatorTypeOK)
<1>1. Inv => BusTypeOK /\ MediatorTypeOK
  BY DEF Inv, BusInv, MediationInv
<1> QED  BY <1>1, Invariance, PTL

\* However the tests settle, a mediator runs the actors it documents, provided
\* that iterations or blocking have a weight (MediatorRace, MediatorNumber,
\* MediatorJoinCoefficientsFixed, MediatorCombinePipeline).
THEOREM ChoiceIsBestCorrect ==
  ASSUME Weights.cpu > 0 \/ Weights.time > 0
  PROVE  Spec => []ChoiceIsBest
<1>1. CostsCount
  BY DEF CostsCount
<1>2. Inv => ChoiceIsBest
  BY <1>1, FitIsBest DEF Inv
<1> QED  BY <1>2, Invariance, PTL

\* Unless a pipeline is sorted, every actor runs with the side data of its own
\* test (MediatorCombinePipeline.mediate).
THEOREM OwnSideDataCorrect == Spec => []OwnSideData
<1>1. Inv => OwnSideData
  BY FitIsOwn DEF Inv, MediationInv
<1> QED  BY <1>1, Invariance, PTL

\* Every mediator keeps the promise of Mediator.mediate: it runs only what
\* passed its test, each once, and nothing after it has answered.
THEOREM MediationImplemented == Spec => ImplementsMediation
<1>1. Init => Promise!Init
  BY DEF Init, MediatorInit, Promise!Init, With, Positions
<1>2. Inv /\ [Next]_vars => [Promise!Next]_(Promise!vars)
  <2> SUFFICES ASSUME Inv, [Next]_vars PROVE [Promise!Next]_(Promise!vars)
    OBVIOUS
  <2>1. Progress
    BY MediatorStep
  <2>2. CASE Asks
    BY <2>2 DEF Asks, Requested, Started, Promise!Next, Promise!Ask, Promise!AskNobody
  <2>3. CASE Passes
    BY <2>3 DEF Passes, Requested, Started, Promise!Next, Promise!Pass
  <2>4. CASE Runs
    BY <2>4 DEF Runs, Requested, Started, Promise!Next, Promise!Run
  <2>5. CASE Finishes
    BY <2>5 DEF Finishes, Requested, Started, Promise!Next, Promise!Finish
  <2>6. CASE Rests
    BY <2>6 DEF Rests, Requested, Started, Promise!vars
  <2> QED  BY <2>1, <2>2, <2>3, <2>4, <2>5, <2>6 DEF Progress
<1> QED  BY <1>1, <1>2, Invariance, PTL DEF Spec, ImplementsMediation, Promise!Spec

\* Wiring that runs until a mediation asks the bus keeps the promises of the
\* bus too (Bus.reorderForDependencies under Mediator.mediate).
THEOREM WiringCorrect == Spec => DependentsFirst /\ ActorsStayUnlessCyclic
BY WiredBus, DependentsFirstCorrect, ActorsStayUnlessCyclicCorrect, PTL

=============================================================================
