---------------------------- MODULE Caches_proof ----------------------------
(* What MCCaches checks side by side, for any instance. Sources: no call is  *)
(* answered with what was invalidated before it began, or with what had      *)
(* expired before its lookup began, for any documents, cohorts of queries    *)
(* and updates, cache sizes and numbers of invalidations. Metadata: as long  *)
(* as no stream replaces its metadata while a callback is being answered,    *)
(* what the callbacks return stays valid, and so does all it was derived     *)
(* from, for any plan and any number of streams and of updates.              *)
EXTENDS SourceCaches, MetadataStates, FiniteSetTheorems, SequenceTheorems,
        WellFoundedInduction, TLAPS

-----------------------------------------------------------------------------
(* The caches of sources and destinations                                  *)

CallPhases ==
  {"new", "identified", "queried", "awaiting", "fetching", "outdated", "served",
   "rejected", "done"}

Fetches ==
  [url : Url, key : Url, status : {"pending", "resolved", "rejected"},
   policy : {"none", "valid", "expired"}, exists : BOOLEAN, invalidated : BOOLEAN]
Calls ==
  [phase : CallPhases, link : Url \cup {"none"}, source : Nat, fetch : Nat,
   outdated : SUBSET Nat, expired : SUBSET Nat]

\* What a cache may hold: a key has one entry at most.
Cached == [key : Url, value : Nat \ {0}]
UniqueKeys(cache) == \A i, j \in DOMAIN cache : cache[i].key = cache[j].key => i = j
Holdings(cache) == {entry.value : entry \in ToSet(cache)}

SourcesTypeOK ==
  /\ fetches \in Seq(Fetches)
  /\ sources \in Seq([url : Entry, states : Seq(Cached)])
  /\ identified \in Seq(Cached) /\ destinations \in Seq(Cached)
  /\ Call \subseteq Reader \cup Writer /\ calls \in [Call -> Calls]

\* What the engine knows a fetch by is what the caches have it under.
KeysAgree ==
  /\ UniqueKeys(identified) /\ UniqueKeys(destinations)
  /\ \A entry \in ToSet(identified) :
       entry.value \in DOMAIN sources /\ sources[entry.value].url = entry.key
  /\ \A s \in DOMAIN sources : \A f \in Holdings(sources[s].states) :
       f \in DOMAIN fetches /\ fetches[f].key = sources[s].url
  /\ \A entry \in ToSet(destinations) :
       entry.value \in DOMAIN fetches /\ fetches[entry.value].key = entry.key

\* What a new call can find was not invalidated: neither a destination nor what
\* is held by a source that is still known.
KnownIsCurrent ==
  /\ \A s \in Holdings(identified) : Holdings(sources[s].states) \cap Invalidated = {}
  /\ Holdings(destinations) \cap Invalidated = {}

\* A response with a policy has come.
PolicyIsOfResponse == \A f \in Expired : fetches[f].status = "resolved"

Began(call) == call.phase # "new"
LookedUp(call) == call.phase \notin {"new", "identified", "queried"}

\* The sources of queries are as current as when the query began.
SourceIsCurrent(c) ==
  c \in Reader /\ Began(calls[c]) =>
    /\ calls[c].source \in DOMAIN sources
    /\ ~LookedUp(calls[c]) => calls[c].link = sources[calls[c].source].url
    /\ Holdings(sources[calls[c].source].states) \cap calls[c].outdated = {}

CallOK(c) ==
  /\ Began(calls[c]) => calls[c].link \in Url
  /\ Began(calls[c]) /\ ~LookedUp(calls[c]) => c \in Reader
  /\ calls[c].outdated \subseteq Invalidated /\ calls[c].expired \subseteq Expired
  /\ SourceIsCurrent(c)
  /\ LookedUp(calls[c]) =>
       calls[c].fetch \in DOMAIN fetches /\ calls[c].fetch \notin calls[c].outdated
  /\ LookedUp(calls[c]) /\ calls[c].phase \notin {"awaiting", "outdated"} =>
       calls[c].fetch \notin calls[c].expired

SourcesInv ==
  /\ SourcesTypeOK /\ KeysAgree /\ KnownIsCurrent /\ PolicyIsOfResponse
  /\ \A c \in Call : CallOK(c)

-----------------------------------------------------------------------------
(* Caches.                                                                 *)
LEMMA RemoveAtFacts ==
  ASSUME NEW E, NEW s \in Seq(E), NEW i \in 1 .. Len(s)
  PROVE  /\ RemoveAt(s, i) \in Seq(E) /\ Len(RemoveAt(s, i)) = Len(s) - 1
         /\ \A j \in 1 .. Len(s) - 1 : RemoveAt(s, i)[j] = s[IF j < i THEN j ELSE j + 1]
<1> DEFINE front == SubSeq(s, 1, i - 1)
           rest == SubSeq(s, i + 1, Len(s))
<1>1. /\ front \in Seq(E) /\ Len(front) = i - 1
      /\ \A j \in 1 .. i - 1 : front[j] = s[j]
  OBVIOUS
<1>2. /\ rest \in Seq(E) /\ Len(rest) = Len(s) - i
      /\ \A j \in 1 .. Len(s) - i : rest[j] = s[i + j]
  OBVIOUS
<1>3. RemoveAt(s, i) = front \o rest
  BY DEF RemoveAt
<1> HIDE DEF front, rest
<1>4. /\ front \o rest \in Seq(E) /\ Len(front \o rest) = Len(s) - 1
      /\ \A j \in 1 .. Len(s) - 1 :
           (front \o rest)[j] = IF j <= Len(front) THEN front[j] ELSE rest[j - Len(front)]
  <2>1. Len(front) + Len(rest) = Len(s) - 1
    BY <1>1, <1>2
  <2>2. /\ front \o rest \in Seq(E) /\ Len(front \o rest) = Len(front) + Len(rest)
        /\ \A j \in 1 .. Len(front) + Len(rest) :
             (front \o rest)[j] = IF j <= Len(front) THEN front[j] ELSE rest[j - Len(front)]
    BY <1>1, <1>2, ConcatProperties
  <2> QED  BY <2>1, <2>2
<1>5. ASSUME NEW j \in 1 .. Len(s) - 1
      PROVE  RemoveAt(s, i)[j] = s[IF j < i THEN j ELSE j + 1]
  <2>1. CASE j < i
    BY <1>1, <1>3, <1>4, <2>1
  <2>2. CASE ~(j < i)
    <3>1. j - Len(front) \in 1 .. Len(s) - i /\ i + (j - Len(front)) = j + 1
      BY <1>1, <2>2
    <3> QED  BY <1>1, <1>2, <1>3, <1>4, <2>2, <3>1
  <2> QED  BY <2>1, <2>2
<1> QED  BY <1>3, <1>4, <1>5

LEMMA EntriesOf ==
  ASSUME NEW cache \in Seq(Cached)
  PROVE  /\ ToSet(cache) \subseteq Cached
         /\ \A entry \in ToSet(cache) : entry.value \in Holdings(cache)
         /\ Holdings(cache) \subseteq Nat \ {0}
<1>1. \A i \in DOMAIN cache : cache[i] \in Cached
  OBVIOUS
<1>2. ToSet(cache) \subseteq Cached
  BY <1>1 DEF ToSet
<1> QED  BY <1>2 DEF Holdings, Cached

LEMMA FoundFacts ==
  ASSUME NEW cache \in Seq(Cached), NEW key \in KeysOf(cache)
  PROVE  /\ PositionOf(cache, key) \in 1 .. Len(cache)
         /\ cache[PositionOf(cache, key)].key = key
         /\ [key |-> key, value |-> ValueOf(cache, key)] \in ToSet(cache)
<1>1. PositionOf(cache, key) \in DOMAIN cache /\ cache[PositionOf(cache, key)].key = key
  BY DEF KeysOf, PositionOf
<1>2. cache[PositionOf(cache, key)] \in Cached
  BY <1>1
<1>3. cache[PositionOf(cache, key)] = [key |-> key, value |-> ValueOf(cache, key)]
  BY <1>1, <1>2 DEF Cached, ValueOf
<1> QED  BY <1>1, <1>3 DEF ToSet

LEMMA DeletedFacts ==
  ASSUME NEW cache \in Seq(Cached), NEW key
  PROVE  /\ Deleted(cache, key) \in Seq(Cached)
         /\ ToSet(Deleted(cache, key)) \subseteq ToSet(cache)
         /\ UniqueKeys(cache) => /\ UniqueKeys(Deleted(cache, key))
                                 /\ \A entry \in ToSet(Deleted(cache, key)) : entry.key # key
<1>1. CASE key \notin KeysOf(cache)
  BY <1>1 DEF Deleted, KeysOf, ToSet
<1>2. CASE key \in KeysOf(cache)
  <2> DEFINE i == PositionOf(cache, key)
             d == Deleted(cache, key)
             from(j) == IF j < i THEN j ELSE j + 1
  <2>1. i \in 1 .. Len(cache) /\ cache[i].key = key
    BY <1>2, FoundFacts
  <2>2. d = RemoveAt(cache, i)
    BY <1>2 DEF Deleted
  <2> HIDE DEF i
  <2>3. d \in Seq(Cached) /\ Len(d) = Len(cache) - 1
    BY <2>1, <2>2, RemoveAtFacts
  <2>4. \A j \in 1 .. Len(cache) - 1 : d[j] = cache[from(j)]
    BY <2>1, <2>2, RemoveAtFacts
  <2>5. \A j \in DOMAIN d : from(j) \in DOMAIN cache \ {i} /\ d[j] = cache[from(j)]
    BY <2>1, <2>3, <2>4
  <2> HIDE DEF d
  <2>6. ToSet(d) \subseteq ToSet(cache)
    BY <2>5 DEF ToSet
  <2>7. ASSUME UniqueKeys(cache)
        PROVE  UniqueKeys(d) /\ \A entry \in ToSet(d) : entry.key # key
    <3>1. ASSUME NEW j \in DOMAIN d, NEW k \in DOMAIN d, d[j].key = d[k].key PROVE j = k
      <4>1. from(j) = from(k)
        BY <2>5, <2>7, <3>1 DEF UniqueKeys
      <4> QED  BY <4>1, <2>1, <2>3
    <3>2. \A j \in DOMAIN d : d[j].key # key
      BY <2>1, <2>5, <2>7 DEF UniqueKeys
    <3> QED  BY <3>1, <3>2 DEF UniqueKeys, ToSet
  <2> QED  BY <2>3, <2>6, <2>7 DEF d
<1> QED  BY <1>1, <1>2

LEMMA AppendFacts ==
  ASSUME NEW cache \in Seq(Cached), NEW entry \in Cached
  PROVE  /\ Append(cache, entry) \in Seq(Cached)
         /\ ToSet(Append(cache, entry)) = ToSet(cache) \cup {entry}
         /\ UniqueKeys(cache) /\ (\A other \in ToSet(cache) : other.key # entry.key) =>
              UniqueKeys(Append(cache, entry))
<1> DEFINE a == Append(cache, entry)
<1>1. /\ a \in Seq(Cached) /\ Len(a) = Len(cache) + 1
      /\ \A i \in 1 .. Len(cache) : a[i] = cache[i]
      /\ a[Len(a)] = entry
  OBVIOUS
<1> HIDE DEF a
<1>2. ToSet(a) = ToSet(cache) \cup {entry}
  BY <1>1 DEF ToSet
<1>3. ASSUME UniqueKeys(cache), \A other \in ToSet(cache) : other.key # entry.key
      PROVE  UniqueKeys(a)
  <2>1. \A i \in DOMAIN a : (i \in DOMAIN cache /\ a[i] = cache[i]) \/ i = Len(a)
    BY <1>1
  <2>2. \A i \in DOMAIN cache : cache[i].key # entry.key
    BY <1>3 DEF ToSet
  <2> QED  BY <1>1, <1>3, <2>1, <2>2 DEF UniqueKeys
<1> QED  BY <1>1, <1>2, <1>3 DEF a

LEMMA SetFacts ==
  ASSUME NEW cache \in Seq(Cached), NEW key \in Url, NEW value \in Nat \ {0},
         NEW max \in Nat \ {0}
  PROVE  /\ Set(cache, key, value, max) \in Seq(Cached)
         /\ ToSet(Set(cache, key, value, max)) \subseteq
              ToSet(cache) \cup {[key |-> key, value |-> value]}
         /\ UniqueKeys(cache) => UniqueKeys(Set(cache, key, value, max))
<1> DEFINE kept == Deleted(cache, key)
           room == IF Len(kept) = max THEN Tail(kept) ELSE kept
           entry == [key |-> key, value |-> value]
<1>1. /\ kept \in Seq(Cached) /\ ToSet(kept) \subseteq ToSet(cache)
      /\ UniqueKeys(cache) => UniqueKeys(kept) /\ \A e \in ToSet(kept) : e.key # key
  BY DeletedFacts
<1>2. /\ room \in Seq(Cached) /\ ToSet(room) \subseteq ToSet(kept)
      /\ UniqueKeys(kept) => UniqueKeys(room)
  <2> HIDE DEF kept
  <2>1. CASE Len(kept) # max
    BY <1>1, <2>1
  <2>2. CASE Len(kept) = max
    <3>1. kept # <<>>
      BY <1>1, <2>2
    <3>2. /\ Tail(kept) \in Seq(Cached) /\ Len(Tail(kept)) = Len(kept) - 1
          /\ \A i \in 1 .. Len(kept) - 1 : Tail(kept)[i] = kept[i + 1]
      BY <1>1, <3>1
    <3>3. \A i \in DOMAIN Tail(kept) : i + 1 \in DOMAIN kept /\ Tail(kept)[i] = kept[i + 1]
      BY <1>1, <3>2
    <3>4. ToSet(Tail(kept)) \subseteq ToSet(kept)
      BY <3>3 DEF ToSet
    <3>5. ASSUME UniqueKeys(kept), NEW i \in DOMAIN Tail(kept), NEW j \in DOMAIN Tail(kept),
                 Tail(kept)[i].key = Tail(kept)[j].key
          PROVE  i = j
      <4>1. i + 1 = j + 1
        BY <3>3, <3>5 DEF UniqueKeys
      <4> QED  BY <4>1, <3>2
    <3> QED  BY <2>2, <3>2, <3>4, <3>5 DEF UniqueKeys
  <2> QED  BY <2>1, <2>2
<1>3. Set(cache, key, value, max) = Append(room, entry)
  BY DEF Set
<1>4. entry \in Cached
  BY DEF Cached
<1> HIDE DEF kept, room
<1>5. UniqueKeys(cache) => UniqueKeys(room) /\ \A e \in ToSet(room) : e.key # entry.key
  BY <1>1, <1>2
<1> HIDE DEF entry
<1>6. /\ Append(room, entry) \in Seq(Cached)
      /\ ToSet(Append(room, entry)) = ToSet(room) \cup {entry}
      /\ UniqueKeys(cache) => UniqueKeys(Append(room, entry))
  BY <1>2, <1>4, <1>5, AppendFacts
<1> QED  BY <1>1, <1>2, <1>3, <1>6 DEF entry

LEMMA GotFacts ==
  ASSUME NEW cache \in Seq(Cached), NEW key \in KeysOf(cache)
  PROVE  /\ Got(cache, key) \in Seq(Cached)
         /\ ToSet(Got(cache, key)) \subseteq ToSet(cache)
         /\ UniqueKeys(cache) => UniqueKeys(Got(cache, key))
<1> DEFINE entry == [key |-> key, value |-> ValueOf(cache, key)]
           kept == Deleted(cache, key)
<1>1. entry \in ToSet(cache) /\ entry \in Cached
  BY FoundFacts, EntriesOf
<1>2. /\ kept \in Seq(Cached) /\ ToSet(kept) \subseteq ToSet(cache)
      /\ UniqueKeys(cache) => UniqueKeys(kept) /\ \A e \in ToSet(kept) : e.key # entry.key
  BY DeletedFacts
<1>3. Got(cache, key) = Append(kept, entry)
  BY DEF Got
<1> HIDE DEF entry, kept
<1> QED  BY <1>1, <1>2, <1>3, AppendFacts

-----------------------------------------------------------------------------
(* Steps.                                                                  *)
LEMMA SourcesInitInv == SourcesInit => SourcesInv
<1> SUFFICES ASSUME SourcesInit PROVE SourcesInv
  OBVIOUS
<1> USE DEF SourcesInit
<1>1. SourcesTypeOK
  <2>1. PICK cohort \in Cohorts : calls = [c \in cohort |-> NewCall]
    OBVIOUS
  <2>2. cohort \subseteq Reader \cup Writer
    BY SourceCachesAssumption
  <2>3. NewCall \in Calls
    BY DEF NewCall, Calls, CallPhases
  <2> QED  BY <2>1, <2>2, <2>3 DEF SourcesTypeOK, Call
<1>2. ToSet(identified) = {} /\ ToSet(destinations) = {} /\ Invalidated = {} /\ Expired = {}
  BY DEF ToSet, Invalidated, Expired
<1>3. KeysAgree /\ KnownIsCurrent /\ PolicyIsOfResponse
  BY <1>2 DEF KeysAgree, KnownIsCurrent, PolicyIsOfResponse, UniqueKeys, Holdings
<1>4. ASSUME NEW c \in Call PROVE CallOK(c)
  <2>1. calls[c].phase = "new" /\ calls[c].outdated = {} /\ calls[c].expired = {}
    BY DEF Call, NewCall
  <2> QED  BY <2>1 DEF CallOK, Began, LookedUp, SourceIsCurrent
<1> QED  BY <1>1, <1>3, <1>4 DEF SourcesInv

\* A fetch begins, or none: what is known of the others stays.
Extended ==
  /\ fetches' \in Seq(Fetches)
  /\ \A f \in DOMAIN fetches : f \in DOMAIN fetches' /\ fetches'[f] = fetches[f]
  /\ Invalidated' = Invalidated /\ Expired' = Expired

LEMMA FetchExtends ==
  ASSUME SourcesTypeOK, NEW url \in Url, NEW key \in Url,
         fetches' = Append(fetches, NewFetch(url, key))
  PROVE  /\ Extended
         /\ Len(fetches) + 1 \in (DOMAIN fetches' \ DOMAIN fetches) \cap (Nat \ {0})
         /\ fetches'[Len(fetches) + 1].key = key
<1> DEFINE new == NewFetch(url, key)
<1>1. /\ new \in Fetches /\ ~new.invalidated /\ new.policy # "expired" /\ new.key = key
  BY DEF NewFetch, Fetches
<1>2. fetches \in Seq(Fetches)
  BY DEF SourcesTypeOK
<1> HIDE DEF new
<1>3. /\ fetches' \in Seq(Fetches) /\ Len(fetches') = Len(fetches) + 1
      /\ \A f \in 1 .. Len(fetches) : fetches'[f] = fetches[f]
      /\ fetches'[Len(fetches) + 1] = new
  BY <1>1, <1>2 DEF new
<1>4. DOMAIN fetches = 1 .. Len(fetches) /\ DOMAIN fetches' = 1 .. Len(fetches) + 1
  BY <1>2, <1>3
<1>5. \A f \in DOMAIN fetches' : f \in DOMAIN fetches \/ f = Len(fetches) + 1
  BY <1>2, <1>4
<1>6. Invalidated' = Invalidated /\ Expired' = Expired
  BY <1>1, <1>2, <1>3, <1>4, <1>5 DEF Invalidated, Expired
<1> QED  BY <1>1, <1>2, <1>3, <1>4, <1>6 DEF Extended

LEMMA UnchangedExtends ==
  ASSUME SourcesTypeOK, UNCHANGED fetches
  PROVE  Extended
BY DEF SourcesTypeOK, Extended, Invalidated, Expired

\* A cache only gets a fetch that was found in it or that begins.
LEMMA CachesKeep ==
  ASSUME SourcesInv, NEW c \in Call, c \in Reader => Began(calls[c]),
         NEW cache \in Seq(Cached), UniqueKeys(CacheOf(c)) => UniqueKeys(cache),
         \A entry \in ToSet(cache) :
           \/ entry \in ToSet(CacheOf(c))
           \/ /\ entry.value \in DOMAIN fetches' \ DOMAIN fetches
              /\ fetches'[entry.value].key =
                   IF c \in Reader THEN sources[calls[c].source].url ELSE entry.key,
         Caches(c, cache), UNCHANGED identified, Extended
  PROVE  /\ sources' \in Seq([url : Entry, states : Seq(Cached)])
         /\ destinations' \in Seq(Cached)
         /\ DOMAIN sources' = DOMAIN sources
         /\ \A s \in DOMAIN sources : sources'[s].url = sources[s].url
         /\ KeysAgree' /\ KnownIsCurrent'
         /\ \A s \in DOMAIN sources : \A f \in DOMAIN fetches :
              f \in Holdings(sources'[s].states) => f \in Holdings(sources[s].states)
<1> USE DEF SourcesInv
<1>1. Invalidated \subseteq DOMAIN fetches
  BY DEF Invalidated
<1>2. /\ sources \in Seq([url : Entry, states : Seq(Cached)])
      /\ destinations \in Seq(Cached) /\ identified \in Seq(Cached)
  BY DEF SourcesTypeOK
<1>3. CASE c \in Reader
  <2> DEFINE s == calls[c].source
  <2>1. s \in DOMAIN sources
    BY <1>3 DEF CallOK, SourceIsCurrent
  <2>2. sources' = [sources EXCEPT ![s].states = cache] /\ UNCHANGED destinations
    BY <1>3 DEF Caches
  <2> HIDE DEF s
  <2>3. /\ sources' \in Seq([url : Entry, states : Seq(Cached)]) /\ DOMAIN sources' = DOMAIN sources
        /\ \A t \in DOMAIN sources : sources'[t].url = sources[t].url
        /\ sources'[s].states = cache
        /\ \A t \in DOMAIN sources \ {s} : sources'[t].states = sources[t].states
    <3>1. sources[s] \in [url : Entry, states : Seq(Cached)]
      <4> DEFINE E == [url : Entry, states : Seq(Cached)]
      <4>1. sources \in Seq(E)
        BY <1>2
      <4> HIDE DEF E
      <4>2. sources[s] \in E
        BY <4>1, <2>1
      <4> QED  BY <4>2 DEF E
    <3>2. [sources[s] EXCEPT !.states = cache] \in [url : Entry, states : Seq(Cached)]
      BY <3>1
    <3> QED  BY <1>2, <2>1, <2>2, <3>1, <3>2
  <2>4. CacheOf(c) = sources[s].states
    BY <1>3 DEF CacheOf, s
  <2>5. \A f \in Holdings(cache) :
          \/ f \in Holdings(sources[s].states)
          \/ f \in DOMAIN fetches' \ DOMAIN fetches /\ fetches'[f].key = sources[s].url
    BY <1>3, <2>4 DEF Holdings, s
  <2>6. \A t \in DOMAIN sources : \A f \in Holdings(sources'[t].states) :
          \/ f \in Holdings(sources[t].states)
          \/ f \in DOMAIN fetches' \ DOMAIN fetches /\ fetches'[f].key = sources[t].url
    BY <2>1, <2>3, <2>5
  <2>7. KeysAgree'
    <3>1. \A t \in DOMAIN sources : \A f \in Holdings(sources[t].states) :
            f \in DOMAIN fetches' /\ fetches'[f].key = sources[t].url
      BY DEF KeysAgree, Extended
    <3>2. \A entry \in ToSet(destinations) :
            entry.value \in DOMAIN fetches' /\ fetches'[entry.value].key = entry.key
      BY DEF KeysAgree, Extended
    <3> QED  BY <2>2, <2>3, <2>6, <3>1, <3>2 DEF KeysAgree
  <2>8. KnownIsCurrent'
    <3>1. ASSUME NEW t \in Holdings(identified)
          PROVE  Holdings(sources'[t].states) \cap Invalidated = {}
      <4>1. t \in DOMAIN sources /\ Holdings(sources[t].states) \cap Invalidated = {}
        BY DEF KeysAgree, KnownIsCurrent, Holdings
      <4> QED  BY <1>1, <2>6, <4>1
    <3> QED  BY <2>2, <3>1 DEF KnownIsCurrent, Extended
  <2> QED  BY <1>2, <2>2, <2>3, <2>6, <2>7, <2>8
<1>4. CASE c \notin Reader
  <2>1. destinations' = cache /\ UNCHANGED sources /\ CacheOf(c) = destinations
    BY <1>4 DEF Caches, CacheOf
  <2>2. \A entry \in ToSet(cache) :
          \/ entry \in ToSet(destinations)
          \/ /\ entry.value \in DOMAIN fetches' \ DOMAIN fetches
             /\ fetches'[entry.value].key = entry.key
    BY <1>4, <2>1
  <2>3. KeysAgree'
    <3>1. \A t \in DOMAIN sources : \A f \in Holdings(sources[t].states) :
            f \in DOMAIN fetches' /\ fetches'[f].key = sources[t].url
      BY DEF KeysAgree, Extended
    <3>2. \A entry \in ToSet(cache) :
            entry.value \in DOMAIN fetches' /\ fetches'[entry.value].key = entry.key
      BY <2>2 DEF KeysAgree, Extended
    <3> QED  BY <2>1, <3>1, <3>2 DEF KeysAgree
  <2>4. KnownIsCurrent'
    <3>1. \A f \in Holdings(cache) :
            f \in Holdings(destinations) \/ f \in DOMAIN fetches' \ DOMAIN fetches
      BY <2>2 DEF Holdings
    <3>2. Holdings(cache) \cap Invalidated = {}
      BY <1>1, <3>1 DEF KnownIsCurrent
    <3> QED  BY <2>1, <3>2 DEF KnownIsCurrent, Extended
  <2> QED  BY <1>2, <2>1, <2>3, <2>4
<1> QED  BY <1>3, <1>4

\* A call that does not step, while others fetch, add to what is invalidated or
\* expires, and find their sources.
LEMMA OthersKeep ==
  ASSUME SourcesInv, NEW d \in Call, calls'[d] = calls[d],
         Invalidated \subseteq Invalidated', Expired \subseteq Expired',
         DOMAIN fetches \subseteq DOMAIN fetches', DOMAIN sources \subseteq DOMAIN sources',
         \A s \in DOMAIN sources : sources'[s].url = sources[s].url,
         \A s \in DOMAIN sources : \A f \in DOMAIN fetches :
           f \in Holdings(sources'[s].states) => f \in Holdings(sources[s].states)
  PROVE  CallOK(d)'
<1>1. CallOK(d) /\ Invalidated \subseteq DOMAIN fetches
  BY DEF SourcesInv, Invalidated
<1>2. SourceIsCurrent(d)'
  BY <1>1 DEF CallOK, SourceIsCurrent
<1> QED  BY <1>1, <1>2 DEF CallOK

\* What is known of sources and fetches, whatever the calls do.
ShelvesOK ==
  /\ fetches \in Seq(Fetches)
  /\ sources \in Seq([url : Entry, states : Seq(Cached)])
  /\ identified \in Seq(Cached) /\ destinations \in Seq(Cached)
  /\ KeysAgree /\ KnownIsCurrent /\ PolicyIsOfResponse

LEMMA StepOfOne ==
  ASSUME SourcesInv, ShelvesOK', NEW c \in Call, NEW call \in Calls,
         calls' = [calls EXCEPT ![c] = call], CallOK(c)',
         \A d \in Call \ {c} : CallOK(d)'
  PROVE  SourcesInv'
<1>1. calls \in [Call -> Calls] /\ Call \subseteq Reader \cup Writer
  BY DEF SourcesInv, SourcesTypeOK
<1>2. Call' = Call /\ calls' \in [Call -> Calls]
  BY <1>1 DEF Call
<1>3. SourcesTypeOK'
  BY <1>1, <1>2 DEF ShelvesOK, SourcesTypeOK
<1> QED  BY <1>2, <1>3 DEF SourcesInv, ShelvesOK

LEMMA LookUpKeeps ==
  ASSUME SourcesInv, NEW c \in Call, NEW call \in Calls,
         call.link \in Url, call.outdated \subseteq Invalidated, call.expired \subseteq Expired,
         c \in Reader => /\ Began(calls[c]) /\ call.source = calls[c].source
                        /\ call.outdated = calls[c].outdated,
         NEW cache \in Seq(Cached), ToSet(cache) \subseteq ToSet(CacheOf(c)),
         UniqueKeys(CacheOf(c)) => UniqueKeys(cache),
         LookUpIn(c, call, cache), UNCHANGED identified
  PROVE  SourcesInv'
<1>1. /\ SourcesTypeOK /\ CallOK(c) /\ calls \in [Call -> Calls]
      /\ Invalidated \subseteq DOMAIN fetches /\ Expired \subseteq DOMAIN fetches
  BY DEF SourcesInv, SourcesTypeOK, Invalidated, Expired
<1>2. \A f \in Holdings(cache) : f \in DOMAIN fetches /\ f \notin call.outdated
  <2>1. \A f \in Holdings(cache) : f \in Holdings(CacheOf(c))
    BY DEF Holdings
  <2>2. CASE c \in Reader
    <3>1. /\ call.source \in DOMAIN sources /\ CacheOf(c) = sources[call.source].states
          /\ Holdings(sources[call.source].states) \cap call.outdated = {}
      BY <1>1, <2>2 DEF CacheOf, CallOK, SourceIsCurrent
    <3> QED  BY <2>1, <3>1 DEF SourcesInv, KeysAgree
  <2>3. CASE c \notin Reader
    <3>1. CacheOf(c) = destinations
      BY <2>3 DEF CacheOf
    <3>2. \A f \in Holdings(destinations) : f \in DOMAIN fetches
      BY DEF SourcesInv, KeysAgree, Holdings
    <3> QED  BY <2>1, <3>1, <3>2 DEF SourcesInv, KnownIsCurrent
  <2> QED  BY <2>2, <2>3
<1> DEFINE Outcome(new, filled) ==
      /\ Extended /\ filled \in Seq(Cached) /\ Caches(c, filled)
      /\ UniqueKeys(CacheOf(c)) => UniqueKeys(filled)
      /\ \A entry \in ToSet(filled) :
           \/ entry \in ToSet(CacheOf(c))
           \/ /\ entry.value \in DOMAIN fetches' \ DOMAIN fetches
              /\ fetches'[entry.value].key =
                   IF c \in Reader THEN sources[calls[c].source].url ELSE entry.key
      /\ new \in Calls /\ calls' = [calls EXCEPT ![c] = new]
      /\ new.phase \in {"awaiting", "fetching"} /\ new.fetch \in DOMAIN fetches'
      /\ new.fetch \notin new.outdated
      /\ new.phase # "awaiting" => new.fetch \notin new.expired
      /\ new.link = call.link /\ new.source = call.source
      /\ new.outdated = call.outdated /\ new.expired = call.expired
<1>3. ASSUME call.link \in KeysOf(cache)
      PROVE  \E new, filled : Outcome(new, filled)
  <2> DEFINE f == ValueOf(cache, call.link)
             new == [call EXCEPT !.phase = "awaiting", !.fetch = f]
             filled == Got(cache, call.link)
  <2>1. /\ Caches(c, filled) /\ calls' = [calls EXCEPT ![c] = new] /\ UNCHANGED fetches
    BY <1>3 DEF LookUpIn, Find
  <2>2. Extended
    BY <1>1, <2>1, UnchangedExtends
  <2>3. [key |-> call.link, value |-> f] \in ToSet(cache)
    BY <1>3, FoundFacts
  <2>4. f \in Holdings(cache) /\ f \in Nat
    BY <2>3, EntriesOf
  <2>5. /\ filled \in Seq(Cached) /\ ToSet(filled) \subseteq ToSet(cache)
        /\ UniqueKeys(cache) => UniqueKeys(filled)
    BY <1>3, GotFacts
  <2> HIDE DEF f, filled
  <2>6. /\ new \in Calls /\ new.phase = "awaiting" /\ new.fetch = f
        /\ new.link = call.link /\ new.source = call.source
        /\ new.outdated = call.outdated /\ new.expired = call.expired
    BY <2>4 DEF Calls, CallPhases
  <2> HIDE DEF new
  <2>7. Outcome(new, filled)
    BY <1>2, <2>1, <2>2, <2>4, <2>5, <2>6
  <2> HIDE DEF Outcome
  <2> QED  BY <2>7
<1>4. ASSUME call.link \notin KeysOf(cache)
      PROVE  \E new, filled : Outcome(new, filled)
  <2> DEFINE f == Len(fetches) + 1
             new == [call EXCEPT !.phase = "fetching", !.fetch = f]
             filled == Set(cache, call.link, f, CacheSize)
             key == KeyOf(c, call)
  <2>1. /\ Caches(c, filled) /\ calls' = [calls EXCEPT ![c] = new]
        /\ fetches' = Append(fetches, NewFetch(call.link, key))
    BY <1>4 DEF LookUpIn, Fetch
  <2>2. key = (IF c \in Reader THEN sources[calls[c].source].url ELSE call.link) /\ key \in Url
    <3>1. CASE c \in Reader
      <4> DEFINE E == [url : Entry, states : Seq(Cached)]
      <4>1. sources \in Seq(E) /\ call.source \in DOMAIN sources
        BY <1>1, <3>1 DEF SourcesTypeOK, CallOK, SourceIsCurrent
      <4> HIDE DEF E
      <4>2. sources[call.source] \in E
        BY <4>1
      <4>3. sources[call.source].url \in Url
        BY <4>2, SourceCachesAssumption DEF E
      <4> QED  BY <3>1, <4>3 DEF KeyOf
    <3> QED  BY <3>1 DEF KeyOf
  <2> HIDE DEF key
  <2>3. /\ Extended /\ f \in DOMAIN fetches' \ DOMAIN fetches /\ f \in Nat \ {0}
        /\ fetches'[f].key = key
    BY <1>1, <2>1, <2>2, FetchExtends
  <2> HIDE DEF f
  <2>4. /\ filled \in Seq(Cached)
        /\ ToSet(filled) \subseteq ToSet(cache) \cup {[key |-> call.link, value |-> f]}
        /\ UniqueKeys(cache) => UniqueKeys(filled)
    BY <2>3, SetFacts, SourceCachesAssumption
  <2> HIDE DEF filled
  <2>5. /\ new \in Calls /\ new.phase = "fetching" /\ new.fetch = f
        /\ new.link = call.link /\ new.source = call.source
        /\ new.outdated = call.outdated /\ new.expired = call.expired
    BY <2>3 DEF Calls, CallPhases
  <2>6. f \notin call.outdated /\ f \notin call.expired
    BY <1>1, <2>3
  <2>7. \A entry \in ToSet(filled) :
           \/ entry \in ToSet(CacheOf(c))
           \/ /\ entry.value \in DOMAIN fetches' \ DOMAIN fetches
              /\ fetches'[entry.value].key =
                   IF c \in Reader THEN sources[calls[c].source].url ELSE entry.key
    BY <2>2, <2>3, <2>4
  <2> HIDE DEF new
  <2>8. Outcome(new, filled)
    BY <2>1, <2>3, <2>4, <2>5, <2>6, <2>7
  <2> HIDE DEF Outcome
  <2> QED  BY <2>8
<1>5. PICK new, filled : Outcome(new, filled)
  <2> HIDE DEF Outcome
  <2> QED  BY <1>3, <1>4
<1>6. /\ sources' \in Seq([url : Entry, states : Seq(Cached)])
      /\ destinations' \in Seq(Cached)
      /\ DOMAIN sources' = DOMAIN sources
      /\ \A s \in DOMAIN sources : sources'[s].url = sources[s].url
      /\ KeysAgree' /\ KnownIsCurrent'
      /\ \A s \in DOMAIN sources : \A f \in DOMAIN fetches :
           f \in Holdings(sources'[s].states) => f \in Holdings(sources[s].states)
  BY <1>5, CachesKeep
<1>7. /\ DOMAIN fetches \subseteq DOMAIN fetches' /\ PolicyIsOfResponse'
      /\ Invalidated' = Invalidated /\ Expired' = Expired
  BY <1>1, <1>5 DEF Extended, SourcesInv, PolicyIsOfResponse
<1>8. ShelvesOK'
  BY <1>1, <1>5, <1>6, <1>7 DEF ShelvesOK, Extended, SourcesTypeOK
<1>9. \A d \in Call \ {c} : CallOK(d)'
  BY <1>1, <1>5, <1>6, <1>7, OthersKeep
<1>10. CallOK(c)'
  <2>1. calls'[c] = new
    BY <1>1, <1>5
  <2>2. SourceIsCurrent(c)'
    BY <1>1, <1>5, <1>6, <2>1 DEF CallOK, SourceIsCurrent, Began, LookedUp
  <2> QED  BY <1>5, <1>7, <2>1, <2>2 DEF CallOK, Began, LookedUp
<1> QED  BY <1>5, <1>8, <1>9, <1>10, StepOfOne

\* What becomes of a fetch: a response, a failure, old age.
LEMMA ResponseKeeps ==
  ASSUME SourcesInv, NEW f \in DOMAIN fetches, NEW response \in Fetches,
         fetches' = [fetches EXCEPT ![f] = response],
         response.key = fetches[f].key, response.invalidated = fetches[f].invalidated,
         fetches[f].policy = "expired" => response.policy = "expired",
         response.policy = "expired" => response.status = "resolved",
         UNCHANGED <<identified, sources, destinations, calls>>
  PROVE  SourcesInv'
<1>1. fetches \in Seq(Fetches)
  BY DEF SourcesInv, SourcesTypeOK
<1>2. /\ fetches' \in Seq(Fetches) /\ DOMAIN fetches' = DOMAIN fetches
      /\ \A g \in DOMAIN fetches : /\ fetches'[g].key = fetches[g].key
                                   /\ fetches'[g].invalidated = fetches[g].invalidated
      /\ \A g \in DOMAIN fetches \ {f} : fetches'[g] = fetches[g]
      /\ fetches'[f] = response
  BY <1>1
<1>3. Invalidated' = Invalidated /\ Expired \subseteq Expired' /\ PolicyIsOfResponse'
  BY <1>2 DEF SourcesInv, Invalidated, Expired, PolicyIsOfResponse
<1>4. KeysAgree'
  BY <1>2 DEF SourcesInv, KeysAgree
<1>5. KnownIsCurrent'
  BY <1>3 DEF SourcesInv, KnownIsCurrent
<1>6. Call' = Call
  BY DEF Call
<1>7. SourcesTypeOK'
  BY <1>2, <1>6 DEF SourcesInv, SourcesTypeOK
<1>8. \A d \in Call : CallOK(d)'
  BY <1>2, <1>3, OthersKeep
<1> QED  BY <1>3, <1>4, <1>5, <1>6, <1>7, <1>8 DEF SourcesInv

LEMMA SettleFetchKeeps ==
  ASSUME SourcesInv, NEW f \in DOMAIN fetches, SettleFetch(f)
  PROVE  SourcesInv'
<1>1. fetches \in Seq(Fetches)
  BY DEF SourcesInv, SourcesTypeOK
<1>2. fetches[f] \in Fetches
  BY <1>1
<1>3. fetches[f].policy # "expired"
  BY DEF SettleFetch, Responded, SourcesInv, PolicyIsOfResponse, Expired
<1>4. CASE fetches' = [fetches EXCEPT ![f].status = "rejected"]
  <2> DEFINE response == [fetches[f] EXCEPT !.status = "rejected"]
  <2>1. /\ response \in Fetches /\ response.key = fetches[f].key
        /\ response.invalidated = fetches[f].invalidated /\ response.policy = fetches[f].policy
    BY <1>2 DEF Fetches
  <2>2. fetches' = [fetches EXCEPT ![f] = response]
    BY <1>1, <1>4
  <2> HIDE DEF response
  <2> QED  BY <1>3, <2>1, <2>2, ResponseKeeps DEF SettleFetch
<1>5. ASSUME NEW policy \in {"valid", "expired"},
             fetches' = [fetches EXCEPT ![f].status = "resolved", ![f].policy = policy,
                                        ![f].exists = document[fetches[f].url] # Absent]
      PROVE  SourcesInv'
  <2> DEFINE response == [fetches[f] EXCEPT !.status = "resolved", !.policy = policy,
                                            !.exists = document[fetches[f].url] # Absent]
  <2>1. /\ response \in Fetches /\ response.key = fetches[f].key
        /\ response.invalidated = fetches[f].invalidated /\ response.status = "resolved"
    BY <1>2 DEF Fetches
  <2>2. fetches' = [fetches EXCEPT ![f] = response]
    BY <1>1, <1>5
  <2> HIDE DEF response
  <2> QED  BY <1>3, <2>1, <2>2, ResponseKeeps DEF SettleFetch
<1> QED  BY <1>4, <1>5 DEF SettleFetch

LEMMA ExpireKeeps ==
  ASSUME SourcesInv, NEW f \in DOMAIN fetches, Expire(f)
  PROVE  SourcesInv'
<1>1. fetches \in Seq(Fetches)
  BY DEF SourcesInv, SourcesTypeOK
<1>2. fetches[f] \in Fetches
  BY <1>1
<1> DEFINE response == [fetches[f] EXCEPT !.policy = "expired"]
<1>3. /\ response \in Fetches /\ response.key = fetches[f].key
      /\ response.invalidated = fetches[f].invalidated
      /\ response.status = "resolved" /\ response.policy = "expired"
  BY <1>2 DEF Fetches, Expire
<1>4. fetches' = [fetches EXCEPT ![f] = response]
  BY <1>1 DEF Expire
<1> HIDE DEF response
<1> QED  BY <1>3, <1>4, ResponseKeeps DEF Expire

\* A call steps, and nothing that calls share changes.
LEMMA CallKeeps ==
  ASSUME SourcesInv, UNCHANGED <<fetches, identified, sources, destinations>>,
         NEW c \in Call, NEW phase \in CallPhases,
         calls' = [calls EXCEPT ![c].phase = phase], LookedUp(calls[c]),
         phase \notin {"new", "identified", "queried"},
         phase \notin {"awaiting", "outdated"} => calls[c].fetch \notin calls[c].expired
  PROVE  SourcesInv'
<1> DEFINE call == [calls[c] EXCEPT !.phase = phase]
<1>1. calls \in [Call -> Calls] /\ CallOK(c)
  BY DEF SourcesInv, SourcesTypeOK
<1>2. call \in Calls /\ calls' = [calls EXCEPT ![c] = call]
  BY <1>1 DEF Calls
<1>3. /\ calls'[c].phase = phase /\ calls'[c].link = calls[c].link
      /\ calls'[c].source = calls[c].source /\ calls'[c].fetch = calls[c].fetch
      /\ calls'[c].outdated = calls[c].outdated /\ calls'[c].expired = calls[c].expired
  BY <1>1 DEF Calls
<1> HIDE DEF call
<1>4. Invalidated' = Invalidated /\ Expired' = Expired
  BY DEF Invalidated, Expired
<1>5. ShelvesOK'
  BY <1>4 DEF SourcesInv, SourcesTypeOK, ShelvesOK, KeysAgree, KnownIsCurrent, PolicyIsOfResponse
<1>6. \A d \in Call \ {c} : CallOK(d)'
  BY <1>1, <1>2, <1>4, OthersKeep
<1>7. CallOK(c)'
  <2>1. Began(calls[c])
    BY DEF Began, LookedUp
  <2>2. SourceIsCurrent(c)'
    BY <1>1, <1>3, <2>1 DEF CallOK, SourceIsCurrent, LookedUp
  <2> QED  BY <1>1, <1>3, <1>4, <2>1, <2>2 DEF CallOK, Began, LookedUp
<1> QED  BY <1>2, <1>5, <1>6, <1>7, StepOfOne

LEMMA ReceivedKeeps ==
  ASSUME SourcesInv, NEW c \in Call, Received(c)
  PROVE  SourcesInv'
<1> DEFINE f == calls[c].fetch
           phase == CASE fetches[f].status = "rejected" -> "rejected"
                      [] calls[c].phase = "awaiting" /\ isOutdated(f) -> "outdated"
                      [] OTHER -> "served"
<1>1. CallOK(c) /\ LookedUp(calls[c])
  BY DEF SourcesInv, Received, LookedUp
<1>2. calls' = [calls EXCEPT ![c].phase = phase]
  BY DEF Received
<1>3. phase \in {"rejected", "outdated", "served"}
  OBVIOUS
<1>4. ASSUME phase # "outdated", calls[c].phase = "awaiting" PROVE f \notin Expired
  <2>1. CASE fetches[f].status = "rejected"
    BY <2>1 DEF SourcesInv, PolicyIsOfResponse
  <2>2. CASE fetches[f].status # "rejected"
    BY <1>4, <2>2 DEF isOutdated, Expired
  <2> QED  BY <2>1, <2>2
<1>5. phase # "outdated" => f \notin calls[c].expired
  <2>1. CASE calls[c].phase = "awaiting"
    BY <1>1, <1>4, <2>1 DEF CallOK
  <2>2. CASE calls[c].phase # "awaiting"
    BY <1>1, <2>2 DEF CallOK, Received
  <2> QED  BY <2>1, <2>2
<1> HIDE DEF phase
<1> QED  BY <1>1, <1>2, <1>3, <1>5, CallKeeps DEF Received, CallPhases

LEMMA ExecuteKeeps ==
  ASSUME SourcesInv, NEW c \in Call, Execute(c)
  PROVE  SourcesInv'
<1>1. PICK phase \in {"done", "rejected"} : calls' = [calls EXCEPT ![c].phase = phase]
  BY DEF Execute
<1>2. LookedUp(calls[c]) /\ calls[c].fetch \notin calls[c].expired
  BY DEF SourcesInv, CallOK, Execute, LookedUp
<1> QED  BY <1>1, <1>2, CallKeeps DEF Execute, CallPhases

LEMMA CacheOfType ==
  ASSUME SourcesInv, NEW c \in Call, c \in Reader => Began(calls[c])
  PROVE  CacheOf(c) \in Seq(Cached)
<1>1. CASE c \in Reader
  <2> DEFINE E == [url : Entry, states : Seq(Cached)]
  <2>1. sources \in Seq(E) /\ calls[c].source \in DOMAIN sources
    BY <1>1 DEF SourcesInv, SourcesTypeOK, CallOK, SourceIsCurrent
  <2> HIDE DEF E
  <2>2. sources[calls[c].source] \in E
    BY <2>1
  <2> QED  BY <1>1, <2>2 DEF CacheOf, E
<1>2. CASE c \notin Reader
  BY <1>2 DEF CacheOf, SourcesInv, SourcesTypeOK
<1> QED  BY <1>1, <1>2

\* A lookup in the whole cache, by a query that began or by an update that begins.
LEMMA LookUpStep ==
  ASSUME SourcesInv, NEW c \in Call, NEW call \in Calls, call.link \in Url,
         call.outdated \subseteq Invalidated,
         c \in Reader => /\ Began(calls[c]) /\ call.source = calls[c].source
                        /\ call.outdated = calls[c].outdated,
         LookUp(c, call), UNCHANGED identified
  PROVE  SourcesInv'
<1> DEFINE looking == [call EXCEPT !.expired = Expired]
<1>1. fetches \in Seq(Fetches)
  BY DEF SourcesInv, SourcesTypeOK
<1>2. Expired \subseteq Nat
  BY <1>1 DEF Expired
<1>3. /\ looking \in Calls /\ looking.link = call.link /\ looking.source = call.source
      /\ looking.outdated = call.outdated /\ looking.expired = Expired
  BY <1>2 DEF Calls
<1>4. LookUpIn(c, looking, CacheOf(c))
  BY DEF LookUp
<1> HIDE DEF looking
<1>5. CacheOf(c) \in Seq(Cached)
  BY CacheOfType
<1> QED  BY <1>3, <1>4, <1>5, LookUpKeeps

LEMMA RefetchKeeps ==
  ASSUME SourcesInv, NEW c \in Call, Refetch(c)
  PROVE  SourcesInv'
<1>1. calls[c] \in Calls /\ CallOK(c) /\ Began(calls[c])
  BY DEF SourcesInv, SourcesTypeOK, Refetch, Began
<1>2. CacheOf(c) \in Seq(Cached)
  BY <1>1, CacheOfType
<1>3. /\ withoutOutdated(c) \in Seq(Cached)
      /\ ToSet(withoutOutdated(c)) \subseteq ToSet(CacheOf(c))
      /\ UniqueKeys(CacheOf(c)) => UniqueKeys(withoutOutdated(c))
  BY <1>2, DeletedFacts DEF withoutOutdated
<1> QED  BY <1>1, <1>3, LookUpKeeps DEF Refetch, CallOK

LEMMA ReadKeeps ==
  ASSUME SourcesInv, NEW c \in Call, Read(c)
  PROVE  SourcesInv'
<1>1. calls[c] \in Calls /\ CallOK(c) /\ Began(calls[c])
  BY DEF SourcesInv, SourcesTypeOK, Read, Began
<1> QED  BY <1>1, LookUpStep DEF Read, CallOK

LEMMA FollowKeeps ==
  ASSUME SourcesInv, NEW c \in Call, Follow(c)
  PROVE  SourcesInv'
<1> DEFINE source == sources[calls[c].source]
           call == [calls[c] EXCEPT !.link = PageOf[source.url]]
           E == [url : Entry, states : Seq(Cached)]
<1>1. /\ calls[c] \in Calls /\ CallOK(c) /\ Began(calls[c]) /\ c \in Reader
      /\ sources \in Seq(E)
  BY DEF SourcesInv, SourcesTypeOK, Follow, Began
<1>2. calls[c].source \in DOMAIN sources
  BY <1>1 DEF CallOK, SourceIsCurrent
<1>3. source.url \in Entry
  <2> HIDE DEF E
  <2>1. source \in E
    BY <1>1, <1>2
  <2> QED  BY <2>1 DEF E
<1> HIDE DEF source
<1>4. PageOf[source.url] \in Url
  BY <1>3, SourceCachesAssumption
<1>5. /\ call \in Calls /\ call.link \in Url /\ call.source = calls[c].source
      /\ call.outdated = calls[c].outdated
  BY <1>1, <1>4 DEF Calls
<1>6. LookUp(c, call) /\ UNCHANGED identified
  BY DEF Follow, source
<1> HIDE DEF call
<1> QED  BY <1>1, <1>5, <1>6, LookUpStep DEF CallOK

LEMMA UpdateKeeps ==
  ASSUME SourcesInv, NEW c \in Call, c \in Writer, NEW url \in Entry, Update(c, url)
  PROVE  SourcesInv'
<1> DEFINE call == [calls[c] EXCEPT !.link = url, !.outdated = Invalidated]
<1>1. calls[c] \in Calls /\ fetches \in Seq(Fetches)
  BY DEF SourcesInv, SourcesTypeOK
<1>2. Invalidated \subseteq Nat /\ url \in Url /\ c \notin Reader
  BY <1>1, SourceCachesAssumption DEF Invalidated
<1>3. call \in Calls /\ call.link \in Url /\ call.outdated = Invalidated
  BY <1>1, <1>2 DEF Calls
<1>4. LookUp(c, call) /\ UNCHANGED identified
  BY DEF Update
<1> HIDE DEF call
<1> QED  BY <1>2, <1>3, <1>4, LookUpStep

LEMMA queryBindingsKeeps ==
  ASSUME SourcesInv, NEW c \in Call, queryBindings(c)
  PROVE  SourcesInv'
<1> DEFINE url == calls[c].link
           call == [calls[c] EXCEPT !.phase = "queried"]
           filled == Set(<<>>, url, Len(fetches) + 1, CacheSize)
           E == [url : Entry, states : Seq(Cached)]
<1>1. /\ SourcesTypeOK /\ calls[c] \in Calls /\ calls \in [Call -> Calls] /\ CallOK(c)
      /\ Began(calls[c]) /\ sources \in Seq(E) /\ Invalidated \subseteq DOMAIN fetches
  BY DEF SourcesInv, SourcesTypeOK, queryBindings, Began, Invalidated
<1>2. c \in Reader /\ url \in Url /\ calls[c].phase = "identified" /\ calls[c].source \in DOMAIN sources
  BY <1>1 DEF CallOK, queryBindings, LookedUp, SourceIsCurrent
<1>3. /\ calls' = [calls EXCEPT ![c] = call] /\ call \in Calls /\ call.phase = "queried"
      /\ call.link = url /\ call.source = calls[c].source
      /\ call.outdated = calls[c].outdated /\ call.expired = calls[c].expired
  BY <1>1 DEF queryBindings, Calls, CallPhases
<1>4. calls'[c] = call
  BY <1>1, <1>3
<1> HIDE DEF call
<1>5. ASSUME Extended, ShelvesOK', DOMAIN sources' = DOMAIN sources,
             \A s \in DOMAIN sources : sources'[s].url = sources[s].url,
             \A s \in DOMAIN sources : \A f \in DOMAIN fetches :
               f \in Holdings(sources'[s].states) => f \in Holdings(sources[s].states)
      PROVE  SourcesInv'
  <2>1. DOMAIN fetches \subseteq DOMAIN fetches' /\ Invalidated' = Invalidated /\ Expired' = Expired
    BY <1>5 DEF Extended
  <2>2. \A d \in Call \ {c} : CallOK(d)'
    BY <1>1, <1>3, <1>5, <2>1, OthersKeep
  <2>3. SourceIsCurrent(c)'
    BY <1>1, <1>2, <1>3, <1>4, <1>5, <2>1 DEF CallOK, SourceIsCurrent, LookedUp
  <2>4. CallOK(c)'
    BY <1>1, <1>2, <1>3, <1>4, <2>1, <2>3 DEF CallOK, Began, LookedUp
  <2> QED  BY <1>3, <1>5, <2>2, <2>4, StepOfOne
<1>6. CASE CacheOf(c) # <<>>
  <2>1. UNCHANGED <<fetches, sources, destinations, identified>>
    BY <1>6 DEF queryBindings
  <2>2. Invalidated' = Invalidated /\ Expired' = Expired
    BY <2>1 DEF Invalidated, Expired
  <2>3. ShelvesOK'
    BY <2>1, <2>2 DEF SourcesInv, SourcesTypeOK, ShelvesOK, KeysAgree, KnownIsCurrent, PolicyIsOfResponse
  <2> QED  BY <1>1, <1>5, <2>1, <2>3, UnchangedExtends
<1>7. CASE CacheOf(c) = <<>>
  <2>1. /\ fetches' = Append(fetches, NewFetch(url, url)) /\ Caches(c, filled)
        /\ UNCHANGED identified
    BY <1>7 DEF queryBindings
  <2>2. /\ Extended /\ fetches'[Len(fetches) + 1].key = url
        /\ Len(fetches) + 1 \in (DOMAIN fetches' \ DOMAIN fetches) \cap (Nat \ {0})
    BY <1>1, <1>2, <2>1, FetchExtends
  <2>3. /\ filled \in Seq(Cached)
        /\ ToSet(filled) \subseteq ToSet(<<>>) \cup {[key |-> url, value |-> Len(fetches) + 1]}
        /\ UniqueKeys(<<>>) => UniqueKeys(filled)
    <3>1. <<>> \in Seq(Cached)
      OBVIOUS
    <3> QED  BY <1>2, <2>2, <3>1, SetFacts, SourceCachesAssumption
  <2> HIDE DEF filled
  <2>4. ToSet(<<>>) = {} /\ UniqueKeys(<<>>)
    BY DEF ToSet, UniqueKeys
  <2>5. sources[calls[c].source].url = url
    BY <1>1, <1>2 DEF CallOK, SourceIsCurrent, LookedUp
  <2>6. \A entry \in ToSet(filled) :
          /\ entry.value \in DOMAIN fetches' \ DOMAIN fetches
          /\ fetches'[entry.value].key = sources[calls[c].source].url
    BY <2>2, <2>3, <2>4, <2>5
  <2>7. /\ sources' \in Seq([url : Entry, states : Seq(Cached)])
        /\ destinations' \in Seq(Cached)
        /\ DOMAIN sources' = DOMAIN sources
        /\ \A s \in DOMAIN sources : sources'[s].url = sources[s].url
        /\ KeysAgree' /\ KnownIsCurrent'
        /\ \A s \in DOMAIN sources : \A f \in DOMAIN fetches :
             f \in Holdings(sources'[s].states) => f \in Holdings(sources[s].states)
    BY <1>1, <1>2, <2>1, <2>2, <2>3, <2>4, <2>6, CachesKeep
  <2>8. PolicyIsOfResponse'
    BY <2>2 DEF SourcesInv, PolicyIsOfResponse, Extended, Expired
  <2>9. ShelvesOK'
    BY <1>1, <2>1, <2>2, <2>7, <2>8 DEF ShelvesOK, Extended, SourcesTypeOK
  <2> QED  BY <1>5, <2>2, <2>7, <2>9
<1> QED  BY <1>6, <1>7 DEF queryBindings

LEMMA IdentifyKeeps ==
  ASSUME SourcesInv, NEW c \in Call, c \in Reader, NEW url \in Entry, Identify(c, url)
  PROVE  SourcesInv'
<1> DEFINE found == url \in KeysOf(identified)
           source == IF found THEN ValueOf(identified, url) ELSE Len(sources) + 1
           call == [calls[c] EXCEPT !.phase = "identified", !.source = source,
                                    !.link = url, !.outdated = Invalidated]
           E == [url : Entry, states : Seq(Cached)]
           new == [url |-> url, states |-> <<>>]
<1>1. /\ calls[c] \in Calls /\ calls \in [Call -> Calls] /\ CallOK(c)
      /\ sources \in Seq(E) /\ fetches \in Seq(Fetches)
      /\ identified \in Seq(Cached) /\ destinations \in Seq(Cached)
  BY DEF SourcesInv, SourcesTypeOK
<1>2. Invalidated \subseteq Nat /\ url \in Url
  BY <1>1, SourceCachesAssumption DEF Invalidated
<1>3. /\ sources' \in Seq(E) /\ DOMAIN sources \subseteq DOMAIN sources'
      /\ \A s \in DOMAIN sources : sources'[s] = sources[s]
      /\ \A s \in DOMAIN sources' \ DOMAIN sources : s = source /\ sources'[s] = new
      /\ source \in DOMAIN sources' /\ source \in Nat \ {0} /\ sources'[source].url = url
      /\ Holdings(sources'[source].states) \cap Invalidated = {}
  <2>1. CASE found
    <3>1. [key |-> url, value |-> source] \in ToSet(identified)
      BY <1>1, <2>1, FoundFacts
    <3>2. source \in DOMAIN sources /\ sources[source].url = url
      BY <3>1 DEF SourcesInv, KeysAgree
    <3>3. source \in Holdings(identified)
      BY <3>1 DEF Holdings
    <3>4. Holdings(sources[source].states) \cap Invalidated = {}
      BY <3>3 DEF SourcesInv, KnownIsCurrent
    <3>5. UNCHANGED sources
      BY <2>1 DEF Identify
    <3> HIDE DEF source, E
    <3> QED  BY <1>1, <3>2, <3>4, <3>5
  <2>2. CASE ~found
    <3>1. sources' = Append(sources, new) /\ source = Len(sources) + 1
      BY <2>2 DEF Identify
    <3>2. new \in E
      OBVIOUS
    <3>3. Holdings(new.states) = {} /\ new.url = url
      BY DEF Holdings, ToSet
    <3> HIDE DEF E, new, source
    <3>4. /\ sources' \in Seq(E) /\ Len(sources') = Len(sources) + 1
          /\ \A s \in 1 .. Len(sources) : sources'[s] = sources[s]
          /\ sources'[Len(sources) + 1] = new
      BY <1>1, <3>1, <3>2
    <3> QED  BY <1>1, <3>1, <3>3, <3>4
  <2> QED  BY <2>1, <2>2
<1>4. UNCHANGED <<fetches, destinations>> /\ Invalidated' = Invalidated /\ Expired' = Expired
  BY DEF Identify, Invalidated, Expired
<1>5. /\ identified' \in Seq(Cached)
      /\ ToSet(identified') \subseteq ToSet(identified) \cup {[key |-> url, value |-> source]}
      /\ UniqueKeys(identified) => UniqueKeys(identified')
  <2>1. CASE found
    <3>1. identified' = Got(identified, url)
      BY <2>1 DEF Identify
    <3> HIDE DEF source
    <3> QED  BY <1>1, <2>1, <3>1, GotFacts
  <2>2. CASE ~found
    <3>1. identified' = Set(identified, url, source, CacheSize)
      BY <2>2 DEF Identify
    <3> HIDE DEF source
    <3> QED  BY <1>1, <1>2, <1>3, <3>1, SetFacts, SourceCachesAssumption
  <2> QED  BY <2>1, <2>2
<1>6. /\ calls' = [calls EXCEPT ![c] = call] /\ call \in Calls
      /\ call.phase = "identified" /\ call.source = source /\ call.link = url
      /\ call.outdated = Invalidated /\ call.expired = calls[c].expired
  <2>1. source \in Nat
    BY <1>3
  <2> HIDE DEF source
  <2>2. call \in Calls
    BY <1>1, <1>2, <2>1 DEF Calls, CallPhases
  <2>3. calls' = [calls EXCEPT ![c] = call]
    BY <1>1 DEF Identify, source
  <2> QED  BY <1>1, <2>2, <2>3 DEF Calls
<1>7. calls'[c] = call
  BY <1>1, <1>6
<1> HIDE DEF found, source, call, E
<1>8. KeysAgree'
  <2>1. \A entry \in ToSet(identified') :
          entry.value \in DOMAIN sources' /\ sources'[entry.value].url = entry.key
    BY <1>3, <1>5 DEF SourcesInv, KeysAgree
  <2>2. \A s \in DOMAIN sources' : \A f \in Holdings(sources'[s].states) :
          f \in DOMAIN fetches /\ fetches[f].key = sources'[s].url
    <3>1. Holdings(new.states) = {}
      BY DEF Holdings, ToSet
    <3> HIDE DEF new
    <3> QED  BY <1>3, <3>1 DEF SourcesInv, KeysAgree
  <2> QED  BY <1>4, <1>5, <2>1, <2>2 DEF SourcesInv, KeysAgree
<1>9. KnownIsCurrent'
  <2>1. \A s \in Holdings(identified') : s \in Holdings(identified) \/ s = source
    BY <1>5 DEF Holdings
  <2>2. \A s \in Holdings(identified) : s \in DOMAIN sources
    BY DEF SourcesInv, KeysAgree, Holdings
  <2> QED  BY <1>3, <1>4, <2>1, <2>2 DEF SourcesInv, KnownIsCurrent
<1>10. ShelvesOK'
  BY <1>1, <1>3, <1>4, <1>5, <1>8, <1>9 DEF ShelvesOK, SourcesInv, PolicyIsOfResponse, E
<1>11. \A d \in Call \ {c} : CallOK(d)'
  BY <1>1, <1>3, <1>4, <1>6, OthersKeep
<1>12. CallOK(c)'
  <2>1. SourceIsCurrent(c)'
    BY <1>3, <1>6, <1>7 DEF SourceIsCurrent
  <2> QED  BY <1>1, <1>2, <1>4, <1>6, <1>7, <2>1 DEF CallOK, Began, LookedUp
<1> QED  BY <1>6, <1>10, <1>11, <1>12, StepOfOne

LEMMA InvalidateKeeps ==
  ASSUME SourcesInv, NEW target \in Url \cup {Everything}, Invalidate(target)
  PROVE  SourcesInv'
<1> DEFINE Hit(f) == target \in {fetches[f].key, Everything}
<1>1. /\ fetches \in Seq(Fetches) /\ identified \in Seq(Cached) /\ destinations \in Seq(Cached)
      /\ UniqueKeys(identified) /\ UniqueKeys(destinations)
  BY DEF SourcesInv, SourcesTypeOK, KeysAgree
<1>2. ASSUME NEW cache \in Seq(Cached), UniqueKeys(cache)
      PROVE  /\ forgotten(cache, target) \in Seq(Cached) /\ UniqueKeys(forgotten(cache, target))
             /\ \A entry \in ToSet(forgotten(cache, target)) :
                  entry \in ToSet(cache) /\ target \notin {entry.key, Everything}
  <2>1. CASE target = Everything
    BY <2>1 DEF forgotten, UniqueKeys, ToSet
  <2>2. CASE target # Everything
    BY <1>2, <2>2, DeletedFacts DEF forgotten
  <2> QED  BY <2>1, <2>2
<1>3. /\ identified' \in Seq(Cached) /\ UniqueKeys(identified')
      /\ \A entry \in ToSet(identified') :
           entry \in ToSet(identified) /\ target \notin {entry.key, Everything}
  BY <1>1, <1>2 DEF Invalidate
<1>4. /\ destinations' \in Seq(Cached) /\ UniqueKeys(destinations')
      /\ \A entry \in ToSet(destinations') :
           entry \in ToSet(destinations) /\ target \notin {entry.key, Everything}
  BY <1>1, <1>2 DEF Invalidate
<1>5. /\ fetches' \in Seq(Fetches) /\ DOMAIN fetches' = DOMAIN fetches
      /\ \A f \in DOMAIN fetches :
           /\ fetches'[f].key = fetches[f].key /\ fetches'[f].policy = fetches[f].policy
           /\ fetches'[f].status = fetches[f].status
           /\ fetches'[f].invalidated <=> (fetches[f].invalidated \/ Hit(f))
  <2>1. fetches' = [f \in DOMAIN fetches |->
                      [fetches[f] EXCEPT !.invalidated = fetches[f].invalidated \/ Hit(f)]]
    BY DEF Invalidate
  <2>2. ASSUME NEW f \in DOMAIN fetches
        PROVE  /\ fetches'[f] \in Fetches /\ fetches'[f].key = fetches[f].key
               /\ fetches'[f].policy = fetches[f].policy /\ fetches'[f].status = fetches[f].status
               /\ fetches'[f].invalidated <=> (fetches[f].invalidated \/ Hit(f))
    <3>1. fetches[f] \in Fetches
      BY <1>1
    <3> DEFINE hit == fetches[f].invalidated \/ Hit(f)
    <3>2. hit \in BOOLEAN
      OBVIOUS
    <3>3. fetches'[f] = [fetches[f] EXCEPT !.invalidated = hit]
      BY <2>1
    <3>4. hit <=> (fetches[f].invalidated \/ Hit(f))
      OBVIOUS
    <3> HIDE DEF hit, Hit
    <3>5. /\ fetches'[f] \in Fetches /\ fetches'[f].key = fetches[f].key
          /\ fetches'[f].policy = fetches[f].policy /\ fetches'[f].status = fetches[f].status
          /\ fetches'[f].invalidated = hit
      BY <3>1, <3>2, <3>3 DEF Fetches
    <3>6. fetches'[f].invalidated <=> hit
      BY <3>5
    <3> QED  BY <3>4, <3>5, <3>6
  <2>3. DOMAIN fetches' = DOMAIN fetches /\ DOMAIN fetches = 1 .. Len(fetches)
    BY <1>1, <2>1
  <2>4. fetches' = [f \in 1 .. Len(fetches) |-> fetches'[f]]
    BY <2>1, <2>3
  <2>5. Len(fetches) \in Nat /\ \A f \in 1 .. Len(fetches) : fetches'[f] \in Fetches
    BY <1>1, <2>2, <2>3
  <2>6. fetches' \in Seq(Fetches)
    BY <2>4, <2>5
  <2> HIDE DEF Hit
  <2> QED  BY <2>2, <2>3, <2>6
<1>6. UNCHANGED <<sources, calls>>
  BY DEF Invalidate
<1>7. /\ Invalidated \subseteq Invalidated' /\ Expired' = Expired
      /\ \A f \in Invalidated' : f \in DOMAIN fetches /\ (f \in Invalidated \/ Hit(f))
  BY <1>5 DEF Invalidated, Expired
<1>8. KeysAgree'
  BY <1>3, <1>4, <1>5, <1>6 DEF SourcesInv, KeysAgree
<1>9. KnownIsCurrent'
  <2>1. ASSUME NEW s \in Holdings(identified')
        PROVE  Holdings(sources[s].states) \cap Invalidated' = {}
    <3>1. PICK entry \in ToSet(identified) :
            entry.value = s /\ target \notin {entry.key, Everything}
      BY <1>3 DEF Holdings
    <3>2. s \in DOMAIN sources /\ sources[s].url = entry.key
      BY <3>1 DEF SourcesInv, KeysAgree
    <3>3. \A f \in Holdings(sources[s].states) : ~Hit(f)
      BY <3>1, <3>2 DEF SourcesInv, KeysAgree
    <3>4. Holdings(sources[s].states) \cap Invalidated = {}
      BY <3>1 DEF SourcesInv, KnownIsCurrent, Holdings
    <3> QED  BY <1>7, <3>3, <3>4
  <2>2. ASSUME NEW f \in Holdings(destinations')
        PROVE  f \notin Invalidated'
    <3>1. PICK entry \in ToSet(destinations) :
            entry.value = f /\ target \notin {entry.key, Everything}
      BY <1>4 DEF Holdings
    <3>2. ~Hit(f) /\ f \notin Invalidated
      BY <3>1 DEF SourcesInv, KeysAgree, KnownIsCurrent, Holdings
    <3> QED  BY <1>7, <3>2
  <2> QED  BY <1>6, <2>1, <2>2 DEF KnownIsCurrent
<1>10. PolicyIsOfResponse'
  BY <1>5, <1>7 DEF SourcesInv, PolicyIsOfResponse, Expired
<1>11. SourcesTypeOK' /\ Call' = Call
  BY <1>3, <1>4, <1>5, <1>6 DEF SourcesInv, SourcesTypeOK, Call
<1>12. \A d \in Call : CallOK(d)'
  BY <1>5, <1>6, <1>7, OthersKeep
<1> QED  BY <1>8, <1>9, <1>10, <1>11, <1>12 DEF SourcesInv

LEMMA SourcesStutter == SourcesInv /\ UNCHANGED sourceVars => SourcesInv'
<1> SUFFICES ASSUME SourcesInv, UNCHANGED sourceVars PROVE SourcesInv'
  OBVIOUS
<1>1. Call' = Call /\ Invalidated' = Invalidated /\ Expired' = Expired
  BY DEF sourceVars, Call, Invalidated, Expired
<1>2. SourcesTypeOK' /\ KeysAgree' /\ KnownIsCurrent' /\ PolicyIsOfResponse'
  BY <1>1 DEF sourceVars, SourcesInv, SourcesTypeOK, KeysAgree, KnownIsCurrent, PolicyIsOfResponse
<1>3. \A d \in Call : CallOK(d)'
  BY <1>1, OthersKeep DEF sourceVars
<1> QED  BY <1>1, <1>2, <1>3 DEF SourcesInv

LEMMA SourcesStep == SourcesInv /\ [SourcesNext]_sourceVars => SourcesInv'
<1> SUFFICES ASSUME SourcesInv, [SourcesNext]_sourceVars PROVE SourcesInv'
  OBVIOUS
<1>1. ASSUME NEW c \in Call, CallStep(c) PROVE SourcesInv'
  BY <1>1, IdentifyKeeps, UpdateKeeps, queryBindingsKeeps, ReadKeeps, ReceivedKeeps,
     RefetchKeeps, FollowKeeps, ExecuteKeeps DEF CallStep
<1>2. ASSUME NEW f \in DOMAIN fetches, SettleFetch(f) \/ Expire(f) PROVE SourcesInv'
  BY <1>2, SettleFetchKeeps, ExpireKeeps
<1>3. ASSUME NEW target \in Url \cup {Everything}, Invalidate(target) PROVE SourcesInv'
  BY <1>3, InvalidateKeeps
<1> QED  BY <1>1, <1>2, <1>3, SourcesStutter DEF SourcesNext

LEMMA InvHolds == SourcesSpec => []SourcesInv
BY SourcesInitInv, SourcesStep, PTL DEF SourcesSpec

\* The values of the caches, the fetches and the calls have their types.
THEOREM SourcesTypeCorrect == SourcesSpec => []SourcesTypeOK
<1>1. SourcesInv => SourcesTypeOK
  BY DEF SourcesInv
<1> QED  BY <1>1, InvHolds, PTL

\* A query or an update that begins after an invalidation is answered with
\* nothing that was fetched before it, neither from the cache of the engine nor
\* from the source or the destination it found.
THEOREM InvalidationIsHonouredCorrect == SourcesSpec => []InvalidationIsHonoured
<1>1. SourcesInv => InvalidationIsHonoured
  BY DEF SourcesInv, InvalidationIsHonoured, CallOK, Answered, LookedUp
<1> QED  BY <1>1, InvHolds, PTL

\* No lookup is served a response that had expired when it began.
THEOREM NothingExpiredIsServedCorrect == SourcesSpec => []NothingExpiredIsServed
<1>1. SourcesInv => NothingExpiredIsServed
  BY DEF SourcesInv, NothingExpiredIsServed, CallOK, Answered, LookedUp
<1> QED  BY <1>1, InvHolds, PTL

-----------------------------------------------------------------------------
(* The metadata of a plan                                                  *)

PromisePhases == {"called", "gathered", "resolved", "settled"}

Metadata ==
  [node : Node, valid : BOOLEAN, of : SUBSET Nat, dependents : SUBSET Nat, cachedBy : SUBSET Node]
Promises ==
  [node : Node, phase : PromisePhases, value : Nat, of : SUBSET Nat, awaits : SUBSET Nat]

MetadataTypeOK ==
  /\ metadata \in Seq(Metadata) /\ returned \in Seq(Promises)
  /\ property \in [Stream -> DOMAIN metadata]
  /\ lastReturn \in [Node -> {0} \cup DOMAIN returned]
  /\ updates \in Nat /\ disturbed \in BOOLEAN

\* An object listens to those it was derived from, and to no others.
ObjectsListen ==
  /\ \A m \in DOMAIN metadata : /\ metadata[m].of \subseteq DOMAIN metadata
                                /\ metadata[m].dependents \subseteq DOMAIN metadata
  /\ \A i, m \in DOMAIN metadata : m \in metadata[i].dependents <=> i \in metadata[m].of

\* What a stream has now is its own and valid.
StreamsAreCurrent ==
  \A n \in Stream : LET m == metadata[property[n]]
                    IN m.node = n /\ m.valid /\ m.of = {}

PromisesKnown ==
  /\ \A p \in DOMAIN returned :
       /\ returned[p].awaits \subseteq DOMAIN returned /\ returned[p].of \subseteq DOMAIN metadata
       /\ returned[p].phase \in {"resolved", "settled"} => returned[p].value \in DOMAIN metadata
  /\ \A n \in Node : lastReturn[n] # 0 => returned[lastReturn[n]].node = n

\* A promise that has a value has a valid one.
Good(p) == returned[p].phase \in {"resolved", "settled"} => metadata[returned[p].value].valid

ValidIsClosed ==
  \A m \in DOMAIN metadata : metadata[m].valid => \A i \in metadata[m].of : metadata[i].valid

PendingIsGood ==
  \A p \in DOMAIN returned : ~Settled(p) =>
    /\ Good(p) /\ \A q \in returned[p].awaits : Good(q)
    /\ \A i \in returned[p].of : metadata[i].valid

\* The value of a promise that is kept is valid, and its end drops the promise.
KeptIsGood ==
  \A n \in Node : lastReturn[n] # 0 =>
    LET p == lastReturn[n]
    IN Good(p) /\ (Settled(p) => n \in metadata[returned[p].value].cachedBy)

Quiet == ~disturbed => ValidIsClosed /\ PendingIsGood /\ KeptIsGood

MetadataInv == MetadataTypeOK /\ ObjectsListen /\ StreamsAreCurrent /\ PromisesKnown /\ Quiet

-----------------------------------------------------------------------------
(* Induction over the natural numbers, for a set instead of a predicate.   *)
LEMMA LeastNat ==
  ASSUME NEW S \in SUBSET Nat, S # {}
  PROVE  \E x \in S : \A y \in S : x <= y
<1>1. PICK x \in S : \A y \in S : ~ (<<y, x>> \in OpToRel(<, Nat))
  BY NatLessThanWellFounded, WFMin
<1>2. ASSUME NEW y \in S PROVE x <= y
  <2>1. ~ (<<y, x>> \in {ss \in Nat \X Nat : ss[1] < ss[2]})
    BY <1>1 DEF OpToRel
  <2> QED  BY <2>1
<1> QED  BY <1>2

LEMMA Induct ==
  ASSUME NEW S, 0 \in S, \A n \in Nat : n \in S => n + 1 \in S
  PROVE  \A n \in Nat : n \in S
<1> SUFFICES ASSUME NEW n \in Nat, n \notin S PROVE FALSE
  OBVIOUS
<1> DEFINE T == Nat \ S
<1>1. PICK x \in T : \A y \in T : x <= y
  <2>1. T \in SUBSET Nat /\ T # {}
    OBVIOUS
  <2> HIDE DEF T
  <2> QED  BY <2>1, LeastNat
<1>2. x - 1 \in Nat /\ x - 1 \notin T
  BY <1>1
<1> QED  BY <1>1, <1>2

-----------------------------------------------------------------------------
(* What can be reached.                                                    *)
IsReach(reach, S, step, N) ==
  reach = [k \in 0 .. N |-> IF k = 0 THEN S
                            ELSE reach[k - 1] \cup UNION {step[x] : x \in reach[k - 1]}]

LEMMA ReachExists ==
  ASSUME NEW U, NEW S \in SUBSET U, NEW step \in [U -> SUBSET U], NEW N \in Nat
  PROVE  \E reach : IsReach(reach, S, step, N)
<1> DEFINE more(R) == R \cup UNION {step[x] : x \in R}
           T == {n \in Nat : \E f : f = [k \in 0 .. n |-> IF k = 0 THEN S ELSE more(f[k - 1])]}
<1> HIDE DEF more
<1>1. 0 \in T
  <2> DEFINE f == [k \in 0 .. 0 |-> S]
  <2>1. f = [k \in 0 .. 0 |-> IF k = 0 THEN S ELSE more(f[k - 1])]
    OBVIOUS
  <2> QED  BY <2>1
<1>2. ASSUME NEW n \in Nat, n \in T PROVE n + 1 \in T
  <2>1. PICK f : f = [k \in 0 .. n |-> IF k = 0 THEN S ELSE more(f[k - 1])]
    BY <1>2
  <2> DEFINE g == [k \in 0 .. n + 1 |-> IF k = n + 1 THEN more(f[n]) ELSE f[k]]
             h == [k \in 0 .. n + 1 |-> IF k = 0 THEN S ELSE more(g[k - 1])]
  <2>2. ASSUME NEW k \in 0 .. n + 1 PROVE g[k] = h[k]
    <3>1. CASE k = n + 1
      BY <3>1
    <3>2. CASE k # n + 1
      <4>1. g[k] = f[k] /\ k \in 0 .. n
        BY <3>2
      <4>2. f[k] = IF k = 0 THEN S ELSE more(f[k - 1])
        BY <2>1, <4>1
      <4>3. k # 0 => k - 1 \in 0 .. n /\ k - 1 # n + 1 /\ g[k - 1] = f[k - 1]
        BY <4>1
      <4> QED  BY <4>1, <4>2, <4>3
    <3> QED  BY <3>1, <3>2
  <2>3. g = [k \in 0 .. n + 1 |-> IF k = 0 THEN S ELSE more(g[k - 1])]
    BY <2>2
  <2> HIDE DEF g
  <2> QED  BY <2>3
<1> HIDE DEF T
<1>3. N \in T
  BY <1>1, <1>2, Induct
<1>4. \E f : f = [k \in 0 .. N |-> IF k = 0 THEN S ELSE more(f[k - 1])]
  BY <1>3 DEF T
<1> QED  BY <1>4 DEF more, IsReach

LEMMA ReachedFacts ==
  ASSUME NEW U, IsFiniteSet(U), NEW S \in SUBSET U, NEW step \in [U -> SUBSET U]
  PROVE  /\ S \subseteq Reached(S, step) /\ Reached(S, step) \subseteq U
         /\ \A x \in Reached(S, step) : step[x] \subseteq Reached(S, step)
         /\ \A C : S \subseteq C /\ (\A x \in U : x \in C => step[x] \subseteq C)
                     => Reached(S, step) \subseteq C
<1> DEFINE N == Cardinality(U)
           more(R) == R \cup UNION {step[x] : x \in R}
           reach[k \in 0 .. N] == IF k = 0 THEN S
                                  ELSE reach[k - 1] \cup UNION {step[x] : x \in reach[k - 1]}
           Closed(R) == \A x \in R : step[x] \subseteq R
<1>1. N \in Nat /\ DOMAIN step = U
  BY FS_CardinalityType
<1>2. Reached(S, step) = reach[N]
  BY <1>1 DEF Reached
<1>3. reach = [k \in 0 .. N |-> IF k = 0 THEN S ELSE more(reach[k - 1])]
  <2> HIDE DEF N, reach
  <2>1. \E f : IsReach(f, S, step, N)
    BY <1>1, ReachExists
  <2>2. reach = [k \in 0 .. N |-> IF k = 0 THEN S
                                  ELSE reach[k - 1] \cup UNION {step[x] : x \in reach[k - 1]}]
    BY <2>1 DEF reach, IsReach
  <2> QED  BY <2>2
<1> HIDE DEF reach, N
<1>4. /\ reach[0] = S
      /\ \A k \in 0 .. N : k # 0 => reach[k] = more(reach[k - 1])
  <2> HIDE DEF more
  <2>1. 0 \in 0 .. N
    BY <1>1
  <2>2. reach[0] = S
    BY <1>3, <2>1
  <2>3. \A k \in 0 .. N : reach[k] = IF k = 0 THEN S ELSE more(reach[k - 1])
    BY <1>3
  <2> QED  BY <2>2, <2>3
<1>5. \A R \in SUBSET U : more(R) \in SUBSET U /\ R \subseteq more(R)
  OBVIOUS
<1>6. \A R : (\A x \in U : x \in R => step[x] \subseteq R) /\ R \in SUBSET U => more(R) = R
  OBVIOUS
<1> DEFINE T == {k \in Nat : k <= N =>
                   /\ reach[k] \in SUBSET U /\ S \subseteq reach[k]
                   /\ Closed(reach[k]) \/ Cardinality(reach[k]) >= k
                   /\ \A C : S \subseteq C /\ (\A x \in U : x \in C => step[x] \subseteq C)
                               => reach[k] \subseteq C}
<1>7. 0 \in T
  <2>1. Cardinality(S) >= 0
    BY FS_Subset, FS_CardinalityType
  <2> QED  BY <1>4, <2>1
<1>8. ASSUME NEW k \in Nat, k \in T PROVE k + 1 \in T
  <2> SUFFICES ASSUME k + 1 <= N
               PROVE  /\ reach[k + 1] \in SUBSET U /\ S \subseteq reach[k + 1]
                      /\ Closed(reach[k + 1]) \/ Cardinality(reach[k + 1]) >= k + 1
                      /\ \A C : S \subseteq C /\ (\A x \in U : x \in C => step[x] \subseteq C)
                                  => reach[k + 1] \subseteq C
    OBVIOUS
  <2> DEFINE R == reach[k]
             Q == reach[k + 1]
  <2>1. /\ R \in SUBSET U /\ S \subseteq R
        /\ Closed(R) \/ Cardinality(R) >= k
        /\ \A C : S \subseteq C /\ (\A x \in U : x \in C => step[x] \subseteq C) => R \subseteq C
    BY <1>1, <1>8
  <2>2. Q = more(R)
    BY <1>1, <1>4
  <2> HIDE DEF R, Q
  <2>3. Q \in SUBSET U /\ S \subseteq Q /\ R \subseteq Q
    BY <1>5, <2>1, <2>2
  <2>4. \A C : S \subseteq C /\ (\A x \in U : x \in C => step[x] \subseteq C) => Q \subseteq C
    BY <2>1, <2>2
  <2>5. Closed(Q) \/ Cardinality(Q) >= k + 1
    <3>1. CASE Q = R
      BY <2>2, <3>1
    <3>2. CASE Q # R
      <4>1. ~Closed(R)
        BY <2>1, <2>2, <3>2
      <4>2. IsFiniteSet(Q) /\ Cardinality(R) <= Cardinality(Q) /\ Cardinality(Q) # Cardinality(R)
        <5>1. IsFiniteSet(Q)
          BY <2>3, FS_Subset
        <5> QED  BY <2>3, <3>2, <5>1, FS_Subset
      <4>3. Cardinality(R) \in Nat /\ Cardinality(Q) \in Nat
        <5>1. IsFiniteSet(R)
          BY <2>1, FS_Subset
        <5> QED  BY <4>2, <5>1, FS_CardinalityType
      <4> QED  BY <2>1, <4>1, <4>2, <4>3
    <3> QED  BY <3>1, <3>2
  <2> QED  BY <2>3, <2>4, <2>5 DEF Q
<1>9. N \in T
  <2> HIDE DEF T
  <2> QED  BY <1>1, <1>7, <1>8, Induct
<1>10. /\ reach[N] \in SUBSET U /\ S \subseteq reach[N]
       /\ Closed(reach[N]) \/ Cardinality(reach[N]) >= N
       /\ \A C : S \subseteq C /\ (\A x \in U : x \in C => step[x] \subseteq C)
                   => reach[N] \subseteq C
  BY <1>1, <1>9
<1>11. Closed(reach[N])
  <2>1. CASE Cardinality(reach[N]) >= N
    <3>1. Cardinality(reach[N]) <= N /\ (N = Cardinality(reach[N]) => U = reach[N])
      BY <1>10, FS_Subset DEF N
    <3>2. Cardinality(reach[N]) \in Nat
      BY <1>10, FS_Subset, FS_CardinalityType
    <3>3. reach[N] = U
      BY <1>1, <2>1, <3>1, <3>2
    <3> QED  BY <3>3
  <2> QED  BY <1>10, <2>1
<1> QED  BY <1>2, <1>10, <1>11

-----------------------------------------------------------------------------
(* Sequences.                                                              *)
LEMMA SequenceOf ==
  ASSUME NEW T, NEW n \in Nat, NEW f \in [1 .. n -> T]
  PROVE  f \in Seq(T) /\ Len(f) = n
OBVIOUS

LEMMA Appended ==
  ASSUME NEW T, NEW s \in Seq(T), NEW x \in T
  PROVE  LET t == Append(s, x)
         IN /\ t \in Seq(T) /\ DOMAIN t = DOMAIN s \cup {Len(s) + 1}
            /\ t[Len(s) + 1] = x /\ \A i \in DOMAIN s : t[i] = s[i]
            /\ Len(s) + 1 \notin DOMAIN s
OBVIOUS

\* A set as a sequence: every element at one position.
LEMMA SetToSeqFacts ==
  ASSUME NEW S, IsFiniteSet(S)
  PROVE  LET s == SetToSeq(S)
         IN /\ s \in [1 .. Cardinality(S) -> S] /\ DOMAIN s = 1 .. Cardinality(S)
            /\ s \in Seq(S) /\ Cardinality(S) \in Nat
            /\ \A x \in S : \E i \in DOMAIN s : s[i] = x
<1> DEFINE n == Cardinality(S)
           s == SetToSeq(S)
<1>1. n \in Nat /\ ExistsBijection(1 .. n, S)
  BY FS_CardinalityType
<1>2. \E f \in [1 .. n -> S] : IsInjective(f)
  <2>1. PICK f \in Bijection(1 .. n, S) : TRUE
    BY <1>1 DEF ExistsBijection
  <2> QED  BY <2>1 DEF Bijection, Injection, IsInjective
<1>3. s \in [1 .. n -> S] /\ IsInjective(s)
  BY <1>2 DEF SetToSeq
<1> HIDE DEF s
<1>4. s \in Injection(1 .. n, S)
  BY <1>3 DEF Injection, IsInjective
<1>5. Cardinality(1 .. n) = n
  BY <1>1, FS_Interval
<1>6. s \in Surjection(1 .. n, S)
  BY <1>4, <1>5, FS_Injection
<1>7. \A x \in S : \E i \in 1 .. n : s[i] = x
  BY <1>6 DEF Surjection
<1> HIDE DEF n
<1>8. s \in Seq(S)
  BY <1>1, <1>3
<1> QED  BY <1>1, <1>3, <1>7, <1>8 DEF s, n

-----------------------------------------------------------------------------
LEMMA StreamIsFinite == IsFiniteSet(Stream) /\ Stream \subseteq Node
BY MetadataAssumption, FS_Subset DEF Stream

LEMMA NewMetadataFacts ==
  ASSUME NEW n \in Node, NEW of \in SUBSET Nat
  PROVE  LET m == NewMetadata(n, of)
         IN /\ m \in Metadata /\ m.node = n /\ m.valid /\ m.of = of /\ m.dependents = {}
            /\ m.cachedBy = {}
BY DEF NewMetadata, Metadata

LEMMA MetadataInitInv == MetadataInit => MetadataInv
<1> SUFFICES ASSUME MetadataInit PROVE MetadataInv
  OBVIOUS
<1> DEFINE order == StreamOrder
           N == Cardinality(Stream)
<1>1. /\ order \in [1 .. N -> Stream] /\ DOMAIN order = 1 .. N /\ N \in Nat
      /\ \A n \in Stream : \E i \in DOMAIN order : order[i] = n
  BY StreamIsFinite, SetToSeqFacts DEF StreamOrder
<1>2. metadata = [i \in 1 .. N |-> NewMetadata(order[i], {})]
  BY <1>1 DEF MetadataInit
<1>3. property = [n \in Stream |-> CHOOSE i \in DOMAIN order : order[i] = n]
  BY DEF MetadataInit
<1> HIDE DEF order, N
<1>4. \A i \in 1 .. N : /\ metadata[i] \in Metadata /\ metadata[i].node = order[i]
                        /\ metadata[i].valid /\ metadata[i].of = {} /\ metadata[i].dependents = {}
  <2> SUFFICES ASSUME NEW i \in 1 .. N
               PROVE  /\ metadata[i] \in Metadata /\ metadata[i].node = order[i]
                      /\ metadata[i].valid /\ metadata[i].of = {}
                      /\ metadata[i].dependents = {}
    OBVIOUS
  <2>1. order[i] \in Node
    BY <1>1, StreamIsFinite
  <2> QED  BY <1>2, <2>1, NewMetadataFacts
<1>5. DOMAIN metadata = 1 .. N /\ metadata \in Seq(Metadata)
  <2>1. metadata \in [1 .. N -> Metadata]
    BY <1>2, <1>4
  <2> QED  BY <1>1, <2>1, SequenceOf
<1>6. \A n \in Stream : property[n] \in 1 .. N /\ order[property[n]] = n
  BY <1>1, <1>3
<1>7. returned = <<>> /\ lastReturn = [n \in Node |-> 0] /\ updates = 0 /\ disturbed = FALSE
  BY DEF MetadataInit
<1>8. MetadataTypeOK
  <2>1. property \in [Stream -> DOMAIN metadata]
    BY <1>3, <1>5, <1>6
  <2>2. returned \in Seq(Promises) /\ updates \in Nat
    BY <1>7
  <2>3. lastReturn \in [Node -> {0} \cup DOMAIN returned]
    BY <1>7
  <2>4. disturbed \in BOOLEAN
    BY <1>7, Zenon
  <2> QED  BY <1>5, <2>1, <2>2, <2>3, <2>4 DEF MetadataTypeOK
<1>9. ObjectsListen
  BY <1>4, <1>5 DEF ObjectsListen
<1>10. StreamsAreCurrent
  BY <1>4, <1>6 DEF StreamsAreCurrent
<1>11. PromisesKnown /\ PendingIsGood /\ KeptIsGood
  BY <1>7 DEF PromisesKnown, PendingIsGood, KeptIsGood
<1>12. ValidIsClosed
  BY <1>4, <1>5 DEF ValidIsClosed
<1> QED  BY <1>8, <1>9, <1>10, <1>11, <1>12 DEF MetadataInv, Quiet

\* A promise goes on, and its callback has changed no more of the objects that
\* there were than who listens to them.
LEMMA PromiseGoesOn ==
  ASSUME MetadataInv, NEW p \in DOMAIN returned, ~Settled(p), NEW next \in Promises,
         returned' = [returned EXCEPT ![p] = next], lastReturn' = lastReturn,
         next.node = returned[p].node, next.awaits = returned[p].awaits,
         DOMAIN metadata \subseteq DOMAIN metadata',
         \A i \in DOMAIN metadata : /\ metadata'[i].valid = metadata[i].valid
                                    /\ metadata[i].cachedBy \subseteq metadata'[i].cachedBy,
         next.of \subseteq DOMAIN metadata',
         next.phase \in {"resolved", "settled"} => next.value \in DOMAIN metadata',
         next.phase = "settled" => next.node \in metadata'[next.value].cachedBy,
         ~disturbed => (next.phase \in {"resolved", "settled"} => metadata'[next.value].valid),
         ~disturbed => \A i \in next.of : metadata'[i].valid
  PROVE  /\ returned' \in Seq(Promises) /\ DOMAIN returned' = DOMAIN returned
         /\ PromisesKnown' /\ (~disturbed => PendingIsGood' /\ KeptIsGood')
<1> USE DEF MetadataInv
<1>1. /\ returned \in Seq(Promises) /\ lastReturn \in [Node -> {0} \cup DOMAIN returned]
  BY DEF MetadataTypeOK
<1>2. /\ returned' \in Seq(Promises) /\ DOMAIN returned' = DOMAIN returned
      /\ returned'[p] = next /\ \A q \in DOMAIN returned \ {p} : returned'[q] = returned[q]
  BY <1>1
<1>3. \A q \in DOMAIN returned : /\ returned'[q].node = returned[q].node
                                 /\ returned'[q].awaits = returned[q].awaits
  BY <1>2
<1>4. PromisesKnown'
  <2>1. \A q \in DOMAIN returned' :
          /\ returned'[q].awaits \subseteq DOMAIN returned'
          /\ returned'[q].of \subseteq DOMAIN metadata'
          /\ returned'[q].phase \in {"resolved", "settled"}
               => returned'[q].value \in DOMAIN metadata'
    BY <1>2, <1>3 DEF PromisesKnown
  <2>2. \A n \in Node : lastReturn[n] # 0 => returned'[lastReturn[n]].node = n
    BY <1>1, <1>3 DEF PromisesKnown
  <2> QED  BY <2>1, <2>2 DEF PromisesKnown
<1>5. ASSUME ~disturbed PROVE PendingIsGood' /\ KeptIsGood'
  <2>1. ASSUME NEW q \in DOMAIN returned, Good(q) PROVE Good(q)'
    <3>1. CASE q = p
      BY <1>2, <1>5, <3>1 DEF Good
    <3>2. CASE q # p
      <4>1. returned'[q] = returned[q]
        BY <1>2, <3>2
      <4>2. returned[q].phase \in {"resolved", "settled"} => returned[q].value \in DOMAIN metadata
        BY DEF PromisesKnown
      <4> QED  BY <2>1, <4>1, <4>2 DEF Good
    <3> QED  BY <3>1, <3>2
  <2>2. PendingIsGood'
    <3> SUFFICES ASSUME NEW q \in DOMAIN returned', ~Settled(q)'
                 PROVE  /\ Good(q)' /\ \A a \in returned'[q].awaits : Good(a)'
                        /\ \A i \in returned'[q].of : metadata'[i].valid
      BY DEF PendingIsGood
    <3>1. ~Settled(q)
      <4>1. CASE q = p
        BY <4>1
      <4>2. CASE q # p
        BY <1>2, <4>2 DEF Settled
      <4> QED  BY <4>1, <4>2
    <3>2. q \in DOMAIN returned /\ returned[q].awaits \subseteq DOMAIN returned
      BY <1>2 DEF PromisesKnown
    <3>3. /\ Good(q) /\ \A a \in returned[q].awaits : Good(a)
          /\ \A i \in returned[q].of : metadata[i].valid
      BY <1>5, <3>1, <3>2 DEF Quiet, PendingIsGood
    <3>4. Good(q)' /\ \A a \in returned'[q].awaits : Good(a)'
      BY <1>3, <2>1, <3>2, <3>3
    <3>5. \A i \in returned'[q].of : metadata'[i].valid
      <4>1. CASE q = p
        BY <1>2, <1>5, <4>1
      <4>2. CASE q # p
        BY <1>2, <3>2, <3>3, <4>2 DEF PromisesKnown
      <4> QED  BY <4>1, <4>2
    <3> QED  BY <3>4, <3>5
  <2>3. KeptIsGood'
    <3> SUFFICES ASSUME NEW n \in Node, NEW q, q = lastReturn[n], q # 0
                 PROVE  Good(q)' /\ (Settled(q)' => n \in metadata'[returned'[q].value].cachedBy)
      BY DEF KeptIsGood
    <3>1. q \in DOMAIN returned /\ returned[q].node = n
      BY <1>1 DEF PromisesKnown
    <3>2. Good(q) /\ (Settled(q) => n \in metadata[returned[q].value].cachedBy)
      BY <1>5 DEF Quiet, KeptIsGood
    <3>3. Good(q)'
      BY <2>1, <3>1, <3>2
    <3>4. Settled(q)' => n \in metadata'[returned'[q].value].cachedBy
      <4>1. CASE q = p
        BY <1>2, <3>1, <4>1 DEF Settled
      <4>2. CASE q # p
        <5>1. returned'[q] = returned[q]
          BY <1>2, <3>1, <4>2
        <5>2. Settled(q) => returned[q].value \in DOMAIN metadata
          BY <3>1 DEF Settled, PromisesKnown
        <5> QED  BY <3>2, <5>1, <5>2 DEF Settled
      <4> QED  BY <4>1, <4>2
    <3> QED  BY <3>3, <3>4
  <2> QED  BY <2>2, <2>3
<1> QED  BY <1>2, <1>4, <1>5

LEMMA ResolveStreamKeeps ==
  ASSUME MetadataInv, NEW p \in DOMAIN returned, ResolveStream(p)
  PROVE  MetadataInv'
<1> USE DEF MetadataInv
<1> DEFINE r == returned[p]
           m == property[r.node]
           next == [r EXCEPT !.phase = "resolved", !.value = m]
<1>1. r \in Promises /\ r.node \in Stream /\ r.phase = "called"
  BY DEF MetadataTypeOK, ResolveStream
<1>2. m \in DOMAIN metadata /\ m \in Nat /\ metadata[m].valid
  BY <1>1 DEF MetadataTypeOK, StreamsAreCurrent
<1>3. UNCHANGED <<metadata, property, lastReturn, updates, disturbed>>
  BY DEF ResolveStream
<1>4. returned' = [returned EXCEPT ![p] = next]
  BY DEF ResolveStream
<1> HIDE DEF m
<1>5. /\ next \in Promises /\ next.node = r.node /\ next.awaits = r.awaits /\ next.of = r.of
      /\ next.phase = "resolved" /\ next.value = m
  BY <1>1, <1>2 DEF Promises, PromisePhases
<1>6. ~Settled(p) /\ next.of \subseteq DOMAIN metadata
  BY <1>1, <1>5 DEF Settled, PromisesKnown
<1>7. ~disturbed => \A i \in next.of : metadata[i].valid
  BY <1>5, <1>6 DEF Quiet, PendingIsGood
<1> HIDE DEF next
<1>8. /\ returned' \in Seq(Promises) /\ DOMAIN returned' = DOMAIN returned
      /\ PromisesKnown' /\ (~disturbed => PendingIsGood' /\ KeptIsGood')
  BY <1>2, <1>3, <1>4, <1>5, <1>6, <1>7, PromiseGoesOn
<1>9. MetadataTypeOK'
  BY <1>3, <1>8 DEF MetadataTypeOK
<1>10. ObjectsListen' /\ StreamsAreCurrent' /\ (~disturbed => ValidIsClosed')
  BY <1>3 DEF ObjectsListen, StreamsAreCurrent, Quiet, ValidIsClosed
<1> QED  BY <1>3, <1>8, <1>9, <1>10 DEF Quiet

LEMMA GatherKeeps ==
  ASSUME MetadataInv, NEW p \in DOMAIN returned, Gather(p)
  PROVE  MetadataInv'
<1> USE DEF MetadataInv
<1> DEFINE r == returned[p]
           of == {returned[q].value : q \in r.awaits}
           next == [r EXCEPT !.phase = "gathered", !.of = of]
<1>1. r \in Promises /\ r.phase = "called" /\ \A q \in r.awaits : returned[q].phase = "settled"
  <2>1. r \in Promises
    BY DEF MetadataTypeOK
  <2> QED  BY <2>1 DEF Gather, Settled
<1>2. r.awaits \subseteq DOMAIN returned /\ of \subseteq DOMAIN metadata /\ of \in SUBSET Nat
  BY <1>1 DEF PromisesKnown, MetadataTypeOK
<1>3. UNCHANGED <<metadata, property, lastReturn, updates, disturbed>>
  BY DEF Gather
<1>4. returned' = [returned EXCEPT ![p] = next]
  BY DEF Gather
<1>5. ~Settled(p)
  BY <1>1 DEF Settled
<1>6. ASSUME ~disturbed PROVE \A i \in of : metadata[i].valid
  BY <1>1, <1>5, <1>6 DEF Quiet, PendingIsGood, Good
<1> HIDE DEF of
<1>7. /\ next \in Promises /\ next.node = r.node /\ next.awaits = r.awaits /\ next.of = of
      /\ next.phase = "gathered"
  BY <1>1, <1>2 DEF Promises, PromisePhases
<1> HIDE DEF next
<1>8. /\ returned' \in Seq(Promises) /\ DOMAIN returned' = DOMAIN returned
      /\ PromisesKnown' /\ (~disturbed => PendingIsGood' /\ KeptIsGood')
  BY <1>2, <1>3, <1>4, <1>5, <1>6, <1>7, PromiseGoesOn
<1>9. MetadataTypeOK'
  BY <1>3, <1>8 DEF MetadataTypeOK
<1>10. ObjectsListen' /\ StreamsAreCurrent' /\ (~disturbed => ValidIsClosed')
  BY <1>3 DEF ObjectsListen, StreamsAreCurrent, Quiet, ValidIsClosed
<1> QED  BY <1>3, <1>8, <1>9, <1>10 DEF Quiet

LEMMA SettleKeeps ==
  ASSUME MetadataInv, NEW p \in DOMAIN returned, Settle(p)
  PROVE  MetadataInv'
<1> USE DEF MetadataInv
<1> DEFINE r == returned[p]
           v == r.value
           o == metadata[v]
           kept == [o EXCEPT !.cachedBy = @ \cup {r.node}]
           next == [r EXCEPT !.phase = "settled"]
<1>1. r \in Promises /\ r.phase = "resolved" /\ v \in DOMAIN metadata /\ o \in Metadata
  BY DEF MetadataTypeOK, Settle, PromisesKnown
<1>2. UNCHANGED <<property, lastReturn, updates, disturbed>>
  BY DEF Settle
<1>3. returned' = [returned EXCEPT ![p] = next] /\ metadata' = [metadata EXCEPT ![v] = kept]
  BY DEF Settle, listeners
<1>4. /\ next \in Promises /\ next.node = r.node /\ next.awaits = r.awaits /\ next.of = r.of
      /\ next.phase = "settled" /\ next.value = v
  BY <1>1 DEF Promises, PromisePhases
<1>5. /\ kept \in Metadata /\ kept.node = o.node /\ kept.valid = o.valid /\ kept.of = o.of
      /\ kept.dependents = o.dependents /\ r.node \in kept.cachedBy
      /\ o.cachedBy \subseteq kept.cachedBy
  BY <1>1 DEF Metadata, Promises
<1> HIDE DEF kept
<1>6. /\ metadata' \in Seq(Metadata) /\ DOMAIN metadata' = DOMAIN metadata
      /\ metadata'[v] = kept /\ \A i \in DOMAIN metadata \ {v} : metadata'[i] = metadata[i]
  BY <1>1, <1>3, <1>5 DEF MetadataTypeOK
<1>7. \A i \in DOMAIN metadata :
        /\ metadata'[i].node = metadata[i].node /\ metadata'[i].valid = metadata[i].valid
        /\ metadata'[i].of = metadata[i].of
        /\ metadata'[i].dependents = metadata[i].dependents
        /\ metadata[i].cachedBy \subseteq metadata'[i].cachedBy
  BY <1>5, <1>6
<1>8. ~Settled(p) /\ next.of \subseteq DOMAIN metadata
  BY <1>1, <1>4 DEF Settled, PromisesKnown
<1>9. ~disturbed => o.valid /\ \A i \in next.of : metadata[i].valid
  BY <1>1, <1>4, <1>8 DEF Quiet, PendingIsGood, Good
<1> HIDE DEF next, o
<1>10. /\ DOMAIN metadata \subseteq DOMAIN metadata'
       /\ next.of \subseteq DOMAIN metadata' /\ next.value \in DOMAIN metadata'
       /\ next.node \in metadata'[next.value].cachedBy
       /\ ~disturbed => metadata'[next.value].valid
  BY <1>1, <1>4, <1>5, <1>6, <1>8, <1>9
<1>11. ~disturbed => \A i \in next.of : metadata'[i].valid
  BY <1>7, <1>8, <1>9
<1> HIDE DEF r, v
<1>12. /\ returned' \in Seq(Promises) /\ DOMAIN returned' = DOMAIN returned
       /\ PromisesKnown' /\ (~disturbed => PendingIsGood' /\ KeptIsGood')
  BY <1>2, <1>3, <1>4, <1>7, <1>8, <1>10, <1>11, PromiseGoesOn DEF r
<1>13. MetadataTypeOK'
  BY <1>2, <1>6, <1>12 DEF MetadataTypeOK
<1>14. ObjectsListen'
  BY <1>6, <1>7 DEF ObjectsListen
<1>15. StreamsAreCurrent'
  BY <1>2, <1>7 DEF StreamsAreCurrent, MetadataTypeOK
<1>16. ~disturbed => ValidIsClosed'
  BY <1>6, <1>7 DEF Quiet, ValidIsClosed, ObjectsListen
<1> QED  BY <1>2, <1>12, <1>13, <1>14, <1>15, <1>16 DEF Quiet

LEMMA constructStateKeeps ==
  ASSUME MetadataInv, NEW p \in DOMAIN returned, constructState(p)
  PROVE  MetadataInv'
<1> USE DEF MetadataInv
<1> DEFINE r == returned[p]
           m == Len(metadata) + 1
           o == NewMetadata(r.node, r.of)
           old == [i \in DOMAIN metadata |->
                     IF derives(p, i) THEN [metadata[i] EXCEPT !.dependents = @ \cup {m}]
                     ELSE metadata[i]]
           next == [r EXCEPT !.phase = "resolved", !.value = m]
<1>1. r \in Promises /\ r.phase = "gathered" /\ r.of \subseteq DOMAIN metadata
  BY DEF MetadataTypeOK, constructState, PromisesKnown
<1>2. metadata \in Seq(Metadata) /\ Len(metadata) \in Nat /\ DOMAIN metadata = 1 .. Len(metadata)
  BY DEF MetadataTypeOK
<1>3. UNCHANGED <<property, lastReturn, updates, disturbed>>
  BY DEF constructState
<1>4. returned' = [returned EXCEPT ![p] = next] /\ metadata' = Append(old, o)
  BY DEF constructState
<1>5. /\ o \in Metadata /\ o.node = r.node /\ o.valid /\ o.of = r.of /\ o.dependents = {}
  <2>1. r.node \in Node /\ r.of \in SUBSET Nat
    BY <1>1 DEF Promises
  <2> QED  BY <2>1, NewMetadataFacts
<1>6. \A i \in DOMAIN metadata :
        /\ old[i] \in Metadata /\ old[i].node = metadata[i].node
        /\ old[i].valid = metadata[i].valid /\ old[i].of = metadata[i].of
        /\ old[i].cachedBy = metadata[i].cachedBy
        /\ old[i].dependents = metadata[i].dependents \cup (IF i \in r.of THEN {m} ELSE {})
  <2> SUFFICES ASSUME NEW i \in DOMAIN metadata
               PROVE  /\ old[i] \in Metadata /\ old[i].node = metadata[i].node
                      /\ old[i].valid = metadata[i].valid /\ old[i].of = metadata[i].of
                      /\ old[i].cachedBy = metadata[i].cachedBy
                      /\ old[i].dependents
                           = metadata[i].dependents \cup (IF i \in r.of THEN {m} ELSE {})
    OBVIOUS
  <2>1. metadata[i] \in Metadata /\ m \in Nat
    BY <1>2
  <2>2. CASE i \in r.of
    <3>1. old[i] = [metadata[i] EXCEPT !.dependents = @ \cup {m}]
      BY <2>2 DEF derives
    <3> HIDE DEF old, m
    <3> QED  BY <2>1, <2>2, <3>1 DEF Metadata
  <2>3. CASE i \notin r.of
    <3>1. old[i] = metadata[i]
      BY <2>3 DEF derives
    <3> HIDE DEF old, m
    <3> QED  BY <2>1, <2>3, <3>1
  <2> QED  BY <2>2, <2>3
<1>7. old \in Seq(Metadata) /\ Len(old) = Len(metadata) /\ DOMAIN old = DOMAIN metadata
  <2>1. old \in [1 .. Len(metadata) -> Metadata]
    BY <1>2, <1>6
  <2> QED  BY <1>2, <2>1, SequenceOf
<1> HIDE DEF old, o
<1>8. /\ metadata' \in Seq(Metadata) /\ DOMAIN metadata' = DOMAIN metadata \cup {m}
      /\ metadata'[m] = o /\ \A i \in DOMAIN metadata : metadata'[i] = old[i]
      /\ m \notin DOMAIN metadata
  BY <1>4, <1>5, <1>7, Appended
<1>9. /\ next \in Promises /\ next.node = r.node /\ next.awaits = r.awaits /\ next.of = r.of
      /\ next.phase = "resolved" /\ next.value = m
  <2>1. m \in Nat
    BY <1>2
  <2> HIDE DEF m
  <2> QED  BY <1>1, <2>1 DEF Promises, PromisePhases
<1>10. ~Settled(p) /\ (~disturbed => \A i \in r.of : metadata[i].valid)
  BY <1>1 DEF Settled, Quiet, PendingIsGood
<1> HIDE DEF next, m
<1>11. /\ DOMAIN metadata \subseteq DOMAIN metadata' /\ next.of \subseteq DOMAIN metadata'
       /\ next.value \in DOMAIN metadata' /\ metadata'[next.value].valid
       /\ \A i \in DOMAIN metadata : /\ metadata'[i].valid = metadata[i].valid
                                     /\ metadata[i].cachedBy \subseteq metadata'[i].cachedBy
       /\ ~disturbed => \A i \in next.of : metadata'[i].valid
  BY <1>1, <1>5, <1>6, <1>8, <1>9, <1>10
<1>12. /\ returned' \in Seq(Promises) /\ DOMAIN returned' = DOMAIN returned
       /\ PromisesKnown' /\ (~disturbed => PendingIsGood' /\ KeptIsGood')
  BY <1>3, <1>4, <1>9, <1>10, <1>11, PromiseGoesOn
<1>13. MetadataTypeOK'
  <2>1. property \in [Stream -> DOMAIN metadata']
    BY <1>11 DEF MetadataTypeOK
  <2> QED  BY <1>3, <1>8, <1>12, <2>1 DEF MetadataTypeOK
<1>14. ObjectsListen'
  <2>1. \A k \in DOMAIN metadata' : /\ metadata'[k].of \subseteq DOMAIN metadata'
                                    /\ metadata'[k].dependents \subseteq DOMAIN metadata'
    BY <1>1, <1>5, <1>6, <1>8 DEF ObjectsListen
  <2>2. ASSUME NEW i \in DOMAIN metadata', NEW k \in DOMAIN metadata'
        PROVE  k \in metadata'[i].dependents <=> i \in metadata'[k].of
    <3>1. CASE i = m
      BY <1>1, <1>5, <1>6, <1>8, <3>1 DEF ObjectsListen
    <3>2. CASE i # m /\ k = m
      BY <1>1, <1>5, <1>6, <1>8, <3>2 DEF ObjectsListen
    <3>3. CASE i # m /\ k # m
      BY <1>1, <1>5, <1>6, <1>8, <3>3 DEF ObjectsListen
    <3> QED  BY <3>1, <3>2, <3>3
  <2> QED  BY <2>1, <2>2 DEF ObjectsListen
<1>15. StreamsAreCurrent'
  BY <1>3, <1>6, <1>8 DEF StreamsAreCurrent, MetadataTypeOK
<1>16. ASSUME ~disturbed PROVE ValidIsClosed'
  BY <1>1, <1>5, <1>6, <1>8, <1>10, <1>16 DEF Quiet, ValidIsClosed, ObjectsListen
<1> QED  BY <1>3, <1>12, <1>13, <1>14, <1>15, <1>16 DEF Quiet

\* Who is asked has kept nothing, and asks those of its children that have not.
LEMMA AskedFacts ==
  ASSUME NEW n \in Node, lastReturn[n] = 0
  PROVE  /\ n \in Asked(n) /\ Asked(n) \subseteq Node /\ IsFiniteSet(Asked(n))
         /\ \A c \in Asked(n) : lastReturn[c] = 0
         /\ \A c \in Asked(n) : \A d \in Children[c] : lastReturn[d] = 0 => d \in Asked(n)
<1> DEFINE step == [c \in Node |-> {d \in Children[c] : lastReturn[d] = 0}]
<1>1. step \in [Node -> SUBSET Node] /\ IsFiniteSet(Node) /\ {n} \in SUBSET Node
  BY MetadataAssumption
<1>2. \A c \in Node : step[c] = {d \in Children[c] : lastReturn[d] = 0}
  OBVIOUS
<1>3. Asked(n) = Reached({n}, step)
  BY DEF Asked
<1> HIDE DEF step
<1>4. /\ {n} \subseteq Asked(n) /\ Asked(n) \subseteq Node
      /\ \A c \in Asked(n) : step[c] \subseteq Asked(n)
      /\ \A C : {n} \subseteq C /\ (\A x \in Node : x \in C => step[x] \subseteq C)
                  => Asked(n) \subseteq C
  BY <1>1, <1>3, ReachedFacts
<1>5. Asked(n) \subseteq {c \in Node : lastReturn[c] = 0}
  <2> DEFINE C == {c \in Node : lastReturn[c] = 0}
  <2>1. {n} \subseteq C /\ \A x \in Node : x \in C => step[x] \subseteq C
    BY <1>1, <1>2
  <2> QED  BY <1>4, <2>1
<1> QED  BY <1>1, <1>2, <1>4, <1>5, FS_Subset

LEMMA AskKeeps ==
  ASSUME MetadataInv, NEW n \in Node, Ask(n)
  PROVE  MetadataInv'
<1> USE DEF MetadataInv
<1> DEFINE all == Asked(n)
           N == Cardinality(all)
           L == Len(returned)
           asked == SetToSeq(all)
           at(c) == CHOOSE i \in DOMAIN asked : asked[i] = c
           made == [c \in Node |-> IF c \in all THEN L + at(c) ELSE lastReturn[c]]
           promise(i) == [node |-> asked[i], phase |-> "called", value |-> 0, of |-> {},
                          awaits |-> {made[c] : c \in Children[asked[i]]}]
           new == [i \in DOMAIN asked |-> promise(i)]
<1>1. /\ n \in all /\ all \subseteq Node /\ IsFiniteSet(all)
      /\ \A c \in all : lastReturn[c] = 0
      /\ \A c \in all : \A d \in Children[c] : lastReturn[d] = 0 => d \in all
  BY AskedFacts DEF Ask
<1>2. /\ lastReturn' = made /\ returned' = returned \o new
      /\ UNCHANGED <<metadata, property, updates, disturbed>>
  BY DEF Ask
<1> HIDE DEF all
<1>3. /\ asked \in [1 .. N -> all] /\ DOMAIN asked = 1 .. N /\ N \in Nat
      /\ \A c \in all : \E i \in DOMAIN asked : asked[i] = c
  BY <1>1, SetToSeqFacts
<1>4. L \in Nat /\ DOMAIN returned = 1 .. L /\ returned \in Seq(Promises)
      /\ lastReturn \in [Node -> {0} \cup 1 .. L]
  BY DEF MetadataTypeOK
<1> HIDE DEF N, L, asked
<1>5. \A c \in all : at(c) \in 1 .. N /\ asked[at(c)] = c
  BY <1>3
<1> HIDE DEF at
<1>6. /\ \A c \in all : made[c] = L + at(c)
      /\ \A c \in Node \ all : made[c] = lastReturn[c]
      /\ made \in [Node -> {0} \cup 1 .. L + N]
  <2>1. \A c \in all : made[c] = L + at(c)
    BY <1>1
  <2>2. \A c \in Node \ all : made[c] = lastReturn[c]
    OBVIOUS
  <2>3. \A c \in Node : made[c] \in {0} \cup 1 .. L + N
    BY <1>3, <1>4, <1>5, <2>1, <2>2
  <2> QED  BY <2>1, <2>2, <2>3
<1> HIDE DEF made
<1>7. \A a \in all : \A c \in Children[a] :
        /\ c \in Node /\ made[c] \in 1 .. L + N
        /\ \/ made[c] \in L + 1 .. L + N
           \/ lastReturn[c] # 0 /\ made[c] = lastReturn[c]
  <2> SUFFICES ASSUME NEW a \in all, NEW c \in Children[a]
               PROVE  /\ c \in Node /\ made[c] \in 1 .. L + N
                      /\ \/ made[c] \in L + 1 .. L + N
                         \/ lastReturn[c] # 0 /\ made[c] = lastReturn[c]
    OBVIOUS
  <2>1. c \in Node
    BY <1>1, MetadataAssumption
  <2>2. CASE c \in all
    BY <1>3, <1>4, <1>5, <1>6, <2>1, <2>2
  <2>3. CASE c \notin all
    BY <1>1, <1>3, <1>4, <1>6, <2>1, <2>3
  <2> QED  BY <2>2, <2>3
<1>8. ASSUME NEW i \in 1 .. N
      PROVE  /\ promise(i) \in Promises /\ promise(i).node = asked[i]
             /\ promise(i).phase = "called" /\ promise(i).of = {}
             /\ promise(i).awaits = {made[c] : c \in Children[asked[i]]}
             /\ promise(i).awaits \subseteq 1 .. L + N
  <2>1. asked[i] \in all /\ asked[i] \in Node
    BY <1>1, <1>3
  <2> DEFINE awaits == {made[c] : c \in Children[asked[i]]}
  <2>2. awaits \subseteq 1 .. L + N /\ awaits \in SUBSET Nat
    BY <1>3, <1>4, <1>7, <2>1
  <2> HIDE DEF awaits
  <2>3. promise(i) = [node |-> asked[i], phase |-> "called", value |-> 0, of |-> {},
                      awaits |-> awaits]
    BY DEF awaits
  <2> HIDE DEF promise
  <2> QED  BY <2>1, <2>2, <2>3 DEF Promises, PromisePhases, awaits
<1> HIDE DEF promise
<1>9. /\ new \in Seq(Promises) /\ Len(new) = N
      /\ \A i \in 1 .. N : new[i] = promise(i)
  <2>1. new \in [1 .. N -> Promises]
    BY <1>3, <1>8
  <2> QED  BY <1>3, <2>1, SequenceOf
<1> HIDE DEF new
<1>10. /\ returned' \in Seq(Promises) /\ DOMAIN returned' = 1 .. L + N
       /\ \A q \in 1 .. L : returned'[q] = returned[q]
       /\ \A i \in 1 .. N : L + i \in DOMAIN returned' /\ returned'[L + i] = promise(i)
  BY <1>2, <1>3, <1>4, <1>9, ConcatProperties DEF L
<1>11. \A q \in DOMAIN returned' : q \in 1 .. L \/ \E i \in 1 .. N : q = L + i
  <2> SUFFICES ASSUME NEW q \in 1 .. L + N, q \notin 1 .. L
               PROVE  \E i \in 1 .. N : q = L + i
    BY <1>10
  <2>1. q - L \in 1 .. N /\ q = L + (q - L)
    BY <1>3, <1>4
  <2> QED  BY <2>1
<1>12. MetadataTypeOK'
  BY <1>2, <1>6, <1>10 DEF MetadataTypeOK
<1>13. PromisesKnown'
  <2>1. ASSUME NEW q \in DOMAIN returned'
        PROVE  /\ returned'[q].awaits \subseteq DOMAIN returned'
               /\ returned'[q].of \subseteq DOMAIN metadata
               /\ returned'[q].phase \in {"resolved", "settled"}
                    => returned'[q].value \in DOMAIN metadata
    <3>1. CASE q \in 1 .. L
      <4>1. 1 .. L \subseteq 1 .. L + N
        BY <1>3, <1>4
      <4> QED  BY <1>4, <1>10, <3>1, <4>1 DEF PromisesKnown
    <3>2. CASE \E i \in 1 .. N : q = L + i
      BY <1>8, <1>10, <3>2
    <3> QED  BY <1>11, <3>1, <3>2
  <2>2. ASSUME NEW c \in Node, made[c] # 0 PROVE returned'[made[c]].node = c
    <3>1. CASE c \in all
      BY <1>5, <1>6, <1>8, <1>10, <3>1
    <3>2. CASE c \notin all
      <4>1. made[c] = lastReturn[c] /\ made[c] \in 1 .. L
        BY <1>4, <1>6, <2>2, <3>2
      <4> QED  BY <1>10, <2>2, <4>1 DEF PromisesKnown
    <3> QED  BY <3>1, <3>2
  <2> QED  BY <1>2, <2>1, <2>2 DEF PromisesKnown
<1>14. ASSUME NEW q \in 1 .. L, Good(q) PROVE Good(q)'
  BY <1>2, <1>10, <1>14 DEF Good
<1>15. ASSUME NEW q, \E i \in 1 .. N : q = L + i PROVE Good(q)' /\ ~Settled(q)'
  <2>1. returned'[q].phase = "called"
    BY <1>8, <1>10, <1>15
  <2> QED  BY <2>1 DEF Good, Settled
<1>16. ASSUME ~disturbed, NEW c \in Node, NEW q, q = made[c], q # 0 PROVE Good(q)'
  <2>1. CASE c \in all
    <3>1. \E i \in 1 .. N : q = L + i
      BY <1>5, <1>6, <1>16, <2>1
    <3> QED  BY <1>15, <3>1
  <2>2. CASE c \notin all
    <3>1. q = lastReturn[c] /\ q \in 1 .. L
      BY <1>4, <1>6, <1>16, <2>2
    <3>2. Good(q)
      BY <1>16, <3>1 DEF Quiet, KeptIsGood
    <3> QED  BY <1>14, <3>1, <3>2
  <2> QED  BY <2>1, <2>2
<1>17. ASSUME ~disturbed PROVE PendingIsGood'
  <2> SUFFICES ASSUME NEW q \in DOMAIN returned', ~Settled(q)'
               PROVE  /\ Good(q)' /\ \A a \in returned'[q].awaits : Good(a)'
                      /\ \A i \in returned'[q].of : metadata'[i].valid
    BY DEF PendingIsGood
  <2>1. CASE q \in 1 .. L
    <3>1. returned'[q] = returned[q] /\ ~Settled(q) /\ returned[q].awaits \subseteq 1 .. L
      BY <1>4, <1>10, <2>1 DEF Settled, PromisesKnown
    <3>2. /\ Good(q) /\ \A a \in returned[q].awaits : Good(a)
          /\ \A i \in returned[q].of : metadata[i].valid
      BY <1>4, <1>17, <2>1, <3>1 DEF Quiet, PendingIsGood
    <3>3. Good(q)' /\ \A a \in returned'[q].awaits : Good(a)'
      BY <1>14, <2>1, <3>1, <3>2
    <3>4. \A i \in returned'[q].of : metadata'[i].valid
      BY <1>2, <3>1, <3>2
    <3> QED  BY <3>3, <3>4
  <2>2. CASE \E i \in 1 .. N : q = L + i
    <3>1. PICK i \in 1 .. N : q = L + i
      BY <2>2
    <3>2. returned'[q].of = {} /\ asked[i] \in all
          /\ returned'[q].awaits = {made[c] : c \in Children[asked[i]]}
      BY <1>3, <1>8, <1>10, <3>1
    <3>3. ASSUME NEW a \in returned'[q].awaits PROVE Good(a)'
      <4>1. PICK c \in Children[asked[i]] : a = made[c]
        BY <3>2, <3>3
      <4>2. c \in Node /\ a # 0
        BY <1>3, <1>4, <1>7, <3>2, <4>1
      <4> QED  BY <1>16, <1>17, <4>1, <4>2
    <3> QED  BY <1>15, <2>2, <3>2, <3>3
  <2> QED  BY <1>11, <2>1, <2>2
<1>18. ASSUME ~disturbed PROVE KeptIsGood'
  <2> SUFFICES ASSUME NEW c \in Node, NEW q, q = made[c], q # 0
               PROVE  Good(q)' /\ (Settled(q)' => c \in metadata'[returned'[q].value].cachedBy)
    BY <1>2 DEF KeptIsGood
  <2>1. Good(q)'
    BY <1>16, <1>18
  <2>2. CASE c \in all
    <3>1. \E i \in 1 .. N : q = L + i
      BY <1>5, <1>6, <2>2
    <3> QED  BY <1>15, <2>1, <3>1
  <2>3. CASE c \notin all
    <3>1. q = lastReturn[c] /\ q \in 1 .. L
      BY <1>4, <1>6, <2>3
    <3>2. Settled(q) => c \in metadata[returned[q].value].cachedBy
      BY <1>18, <3>1 DEF Quiet, KeptIsGood
    <3>3. returned'[q] = returned[q]
      BY <1>10, <3>1
    <3> QED  BY <1>2, <2>1, <3>2, <3>3 DEF Settled
  <2> QED  BY <2>2, <2>3
<1>19. ObjectsListen' /\ StreamsAreCurrent' /\ (~disturbed => ValidIsClosed')
  BY <1>2 DEF ObjectsListen, StreamsAreCurrent, Quiet, ValidIsClosed
<1> QED  BY <1>2, <1>12, <1>13, <1>17, <1>18, <1>19 DEF Quiet

\* An invalidation goes no further than valid objects that were derived from
\* others, and reaches all that depend on one it has reached.
LEMMA CascadeFacts ==
  ASSUME MetadataInv, NEW m \in DOMAIN metadata, metadata[m].valid
  PROVE  /\ m \in cascade(m)
         /\ \A i \in cascade(m) : i \in DOMAIN metadata /\ (i = m \/ metadata[i].of # {})
         /\ \A i \in cascade(m) : \A j \in metadata[i].dependents :
              metadata[j].valid => j \in cascade(m)
<1> USE DEF MetadataInv
<1> DEFINE U == DOMAIN metadata
           S == {i \in {m} : metadata[i].valid}
           step == [i \in U |-> {j \in metadata[i].dependents : metadata[j].valid}]
           C == {i \in U : i = m \/ metadata[i].of # {}}
<1>1. S = {m} /\ S \in SUBSET U
  OBVIOUS
<1>2. IsFiniteSet(U)
  <2>1. Len(metadata) \in Nat /\ U = 1 .. Len(metadata)
    BY DEF MetadataTypeOK
  <2> QED  BY <2>1, FS_Interval
<1>3. step \in [U -> SUBSET U]
  BY DEF ObjectsListen
<1>4. \A i \in U : step[i] = {j \in metadata[i].dependents : metadata[j].valid}
  OBVIOUS
<1>5. cascade(m) = Reached(S, step)
  BY DEF cascade
<1>6. \A x \in U : x \in C => step[x] \subseteq C
  <2> SUFFICES ASSUME NEW x \in U, NEW j \in step[x] PROVE j \in C
    OBVIOUS
  <2>1. j \in metadata[x].dependents /\ j \in U
    BY <1>4 DEF ObjectsListen
  <2>2. x \in metadata[j].of
    BY <2>1 DEF ObjectsListen
  <2> QED  BY <2>1, <2>2
<1>7. S \subseteq C
  BY <1>1
<1> HIDE DEF step, S, U, C
<1>8. /\ S \subseteq cascade(m) /\ cascade(m) \subseteq U
      /\ \A x \in cascade(m) : step[x] \subseteq cascade(m)
  <2>1. /\ S \subseteq Reached(S, step) /\ Reached(S, step) \subseteq U
        /\ \A x \in Reached(S, step) : step[x] \subseteq Reached(S, step)
    BY <1>1, <1>2, <1>3, ReachedFacts
  <2> QED  BY <1>5, <2>1
<1>9. cascade(m) \subseteq C
  BY <1>1, <1>2, <1>3, <1>5, <1>6, <1>7, ReachedFacts
<1>10. \A i \in cascade(m) : i \in DOMAIN metadata /\ (i = m \/ metadata[i].of # {})
  BY <1>8, <1>9 DEF C, U
<1>11. \A i \in cascade(m) : \A j \in metadata[i].dependents :
         metadata[j].valid => j \in cascade(m)
  BY <1>4, <1>8
<1> QED  BY <1>1, <1>8, <1>10, <1>11

LEMMA ReplaceKeeps ==
  ASSUME MetadataInv, NEW n \in Node, Replace(n)
  PROVE  MetadataInv'
<1> USE DEF MetadataInv
<1> DEFINE now == property[n]
           gone == cascade(now)
           dropped == UNION {metadata[i].cachedBy : i \in gone}
           m == Len(metadata) + 1
           o == NewMetadata(n, {})
           old == [i \in DOMAIN metadata |-> [metadata[i] EXCEPT !.valid = @ /\ i \notin gone]]
           kept == [k \in Node |-> IF k \in dropped THEN 0 ELSE lastReturn[k]]
<1>1. metadata \in Seq(Metadata) /\ Len(metadata) \in Nat /\ DOMAIN metadata = 1 .. Len(metadata)
  BY DEF MetadataTypeOK
<1>2. /\ n \in Stream /\ metadata' = Append(old, o) /\ property' = [property EXCEPT ![n] = m]
      /\ lastReturn' = kept /\ updates' = updates + 1 /\ returned' = returned
  BY DEF Replace
<1>3. disturbed' = (disturbed \/ \E p \in DOMAIN returned : ~Settled(p))
  BY DEF Replace
<1>4. now \in DOMAIN metadata /\ metadata[now].valid /\ metadata[now].node = n
      /\ metadata[now].of = {}
  BY <1>2 DEF MetadataTypeOK, StreamsAreCurrent
<1> HIDE DEF now
<1>5. /\ now \in gone
      /\ \A i \in gone : i \in DOMAIN metadata /\ (i = now \/ metadata[i].of # {})
      /\ \A i \in gone : \A j \in metadata[i].dependents : metadata[j].valid => j \in gone
  BY <1>4, CascadeFacts
<1> HIDE DEF gone
<1>6. /\ o \in Metadata /\ o.node = n /\ o.valid /\ o.of = {} /\ o.dependents = {}
  BY NewMetadataFacts
<1>7. \A i \in DOMAIN metadata :
        /\ old[i] \in Metadata /\ old[i].node = metadata[i].node /\ old[i].of = metadata[i].of
        /\ old[i].cachedBy = metadata[i].cachedBy
        /\ old[i].dependents = metadata[i].dependents
        /\ old[i].valid <=> metadata[i].valid /\ i \notin gone
  <2> SUFFICES ASSUME NEW i \in DOMAIN metadata
               PROVE  /\ old[i] \in Metadata /\ old[i].node = metadata[i].node
                      /\ old[i].of = metadata[i].of
                      /\ old[i].cachedBy = metadata[i].cachedBy
                      /\ old[i].dependents = metadata[i].dependents
                      /\ old[i].valid <=> metadata[i].valid /\ i \notin gone
    OBVIOUS
  <2>1. metadata[i] \in Metadata
    BY <1>1
  <2>2. old[i] = [metadata[i] EXCEPT !.valid = metadata[i].valid /\ i \notin gone]
    OBVIOUS
  <2> HIDE DEF old
  <2> QED  BY <2>1, <2>2 DEF Metadata
<1>8. old \in Seq(Metadata) /\ Len(old) = Len(metadata) /\ DOMAIN old = DOMAIN metadata
  <2>1. old \in [1 .. Len(metadata) -> Metadata]
    BY <1>1, <1>7
  <2> QED  BY <1>1, <2>1, SequenceOf
<1> HIDE DEF old, o
<1>9. /\ metadata' \in Seq(Metadata) /\ DOMAIN metadata' = DOMAIN metadata \cup {m}
      /\ metadata'[m] = o /\ \A i \in DOMAIN metadata : metadata'[i] = old[i]
      /\ m \notin DOMAIN metadata
  BY <1>2, <1>6, <1>8, Appended
<1> HIDE DEF m
<1>10. property \in [Stream -> DOMAIN metadata] /\ property' \in [Stream -> DOMAIN metadata']
  BY <1>2, <1>9 DEF MetadataTypeOK
<1>11. /\ \A k \in Node : lastReturn'[k] = IF k \in dropped THEN 0 ELSE lastReturn[k]
       /\ lastReturn' \in [Node -> {0} \cup DOMAIN returned]
  BY <1>2 DEF MetadataTypeOK
<1> HIDE DEF kept, dropped
<1>12. MetadataTypeOK'
  <2>1. updates' \in Nat /\ disturbed' \in BOOLEAN
    BY <1>2, <1>3 DEF MetadataTypeOK
  <2> QED  BY <1>2, <1>9, <1>10, <1>11, <2>1 DEF MetadataTypeOK
<1>13. ObjectsListen'
  <2>1. \A k \in DOMAIN metadata' : /\ metadata'[k].of \subseteq DOMAIN metadata'
                                    /\ metadata'[k].dependents \subseteq DOMAIN metadata'
    BY <1>6, <1>7, <1>9 DEF ObjectsListen
  <2>2. ASSUME NEW i \in DOMAIN metadata', NEW k \in DOMAIN metadata'
        PROVE  k \in metadata'[i].dependents <=> i \in metadata'[k].of
    <3>1. CASE i = m \/ k = m
      BY <1>6, <1>7, <1>9, <3>1 DEF ObjectsListen
    <3>2. CASE i # m /\ k # m
      BY <1>7, <1>9, <3>2 DEF ObjectsListen
    <3> QED  BY <3>1, <3>2
  <2> QED  BY <2>1, <2>2 DEF ObjectsListen
<1>14. StreamsAreCurrent'
  <2> SUFFICES ASSUME NEW k \in Stream
               PROVE  LET x == metadata'[property'[k]] IN x.node = k /\ x.valid /\ x.of = {}
    BY DEF StreamsAreCurrent
  <2>1. CASE k = n
    <3>1. property'[k] = m
      BY <1>2, <1>10, <2>1
    <3> QED  BY <1>6, <1>9, <2>1, <3>1
  <2>2. CASE k # n
    <3>1. property'[k] = property[k] /\ property[k] \in DOMAIN metadata
      BY <1>2, <1>10, <2>2
    <3>2. /\ metadata[property[k]].node = k /\ metadata[property[k]].valid
          /\ metadata[property[k]].of = {}
      BY DEF StreamsAreCurrent
    <3>3. property[k] \notin gone
      BY <1>4, <1>5, <2>2, <3>1, <3>2
    <3> QED  BY <1>7, <1>9, <3>1, <3>2, <3>3
  <2> QED  BY <2>1, <2>2
<1>15. PromisesKnown'
  <2>1. \A p \in DOMAIN returned' :
          /\ returned'[p].awaits \subseteq DOMAIN returned'
          /\ returned'[p].of \subseteq DOMAIN metadata'
          /\ returned'[p].phase \in {"resolved", "settled"}
               => returned'[p].value \in DOMAIN metadata'
    BY <1>2, <1>9 DEF PromisesKnown
  <2>2. \A k \in Node : lastReturn'[k] # 0 => returned'[lastReturn'[k]].node = k
    BY <1>2, <1>11 DEF PromisesKnown
  <2> QED  BY <2>1, <2>2 DEF PromisesKnown
<1>16. ASSUME ~disturbed' PROVE ValidIsClosed' /\ PendingIsGood' /\ KeptIsGood'
  <2>1. ~disturbed /\ \A p \in DOMAIN returned : Settled(p)
    BY <1>3, <1>16
  <2>2. ValidIsClosed'
    <3> SUFFICES ASSUME NEW k \in DOMAIN metadata', metadata'[k].valid, NEW i \in metadata'[k].of
                 PROVE  metadata'[i].valid
      BY DEF ValidIsClosed
    <3>1. k \in DOMAIN metadata /\ i \in metadata[k].of /\ metadata[k].valid /\ k \notin gone
      BY <1>6, <1>7, <1>9
    <3>2. i \in DOMAIN metadata /\ metadata[i].valid
      BY <2>1, <3>1 DEF Quiet, ValidIsClosed, ObjectsListen
    <3>3. k \in metadata[i].dependents
      BY <3>1, <3>2 DEF ObjectsListen
    <3>4. i \notin gone
      BY <1>5, <3>1, <3>3
    <3> QED  BY <1>7, <1>9, <3>2, <3>4
  <2>3. PendingIsGood'
    <3>1. \A p \in DOMAIN returned' : Settled(p)'
      BY <1>2, <2>1 DEF Settled
    <3> QED  BY <3>1 DEF PendingIsGood
  <2>4. KeptIsGood'
    <3> SUFFICES ASSUME NEW k \in Node, NEW p, p = lastReturn'[k], p # 0
                 PROVE  Good(p)' /\ (Settled(p)' => k \in metadata'[returned'[p].value].cachedBy)
      BY DEF KeptIsGood
    <3> DEFINE v == returned[p].value
    <3>1. k \notin dropped /\ p = lastReturn[k] /\ p \in DOMAIN returned
      BY <1>11
    <3>2. Settled(p) /\ returned[p].phase = "settled" /\ v \in DOMAIN metadata
      BY <2>1, <3>1 DEF Settled, PromisesKnown
    <3>3. k \in metadata[v].cachedBy /\ metadata[v].valid
      BY <2>1, <3>1, <3>2 DEF Quiet, KeptIsGood, Good
    <3>4. v \notin gone
      BY <3>1, <3>3 DEF dropped
    <3> HIDE DEF v
    <3>5. k \in metadata'[v].cachedBy /\ metadata'[v].valid
      BY <1>7, <1>9, <3>2, <3>3, <3>4
    <3>6. returned'[p].value = v
      BY <1>2 DEF v
    <3> QED  BY <3>5, <3>6 DEF Good
  <2> QED  BY <2>2, <2>3, <2>4
<1> QED  BY <1>12, <1>13, <1>14, <1>15, <1>16 DEF Quiet

LEMMA MetadataStutter ==
  ASSUME MetadataInv, UNCHANGED metadataVars
  PROVE  MetadataInv'
<1>1. UNCHANGED <<metadata, property, returned, lastReturn, updates, disturbed>>
  BY DEF metadataVars
<1>2. MetadataTypeOK' /\ ObjectsListen' /\ StreamsAreCurrent' /\ PromisesKnown'
  BY <1>1 DEF MetadataInv, MetadataTypeOK, ObjectsListen, StreamsAreCurrent, PromisesKnown
<1>3. Quiet'
  BY <1>1 DEF MetadataInv, Quiet, ValidIsClosed, PendingIsGood, KeptIsGood, Good, Settled
<1> QED  BY <1>2, <1>3 DEF MetadataInv

LEMMA MetadataStep == MetadataInv /\ [MetadataNext]_metadataVars => MetadataInv'
<1> SUFFICES ASSUME MetadataInv, [MetadataNext]_metadataVars PROVE MetadataInv'
  OBVIOUS
<1>1. ASSUME NEW n \in Node, Ask(n) PROVE MetadataInv'
  BY <1>1, AskKeeps
<1>2. ASSUME NEW n \in Node, Replace(n) PROVE MetadataInv'
  BY <1>2, ReplaceKeeps
<1>3. ASSUME NEW p \in DOMAIN returned, ResolveStream(p) PROVE MetadataInv'
  BY <1>3, ResolveStreamKeeps
<1>4. ASSUME NEW p \in DOMAIN returned, Gather(p) PROVE MetadataInv'
  BY <1>4, GatherKeeps
<1>5. ASSUME NEW p \in DOMAIN returned, constructState(p) PROVE MetadataInv'
  BY <1>5, constructStateKeeps
<1>6. ASSUME NEW p \in DOMAIN returned, Settle(p) PROVE MetadataInv'
  BY <1>6, SettleKeeps
<1>7. CASE UNCHANGED metadataVars
  BY <1>7, MetadataStutter
<1> QED  BY <1>1, <1>2, <1>3, <1>4, <1>5, <1>6, <1>7 DEF MetadataNext

LEMMA Invariance == MetadataSpec => []MetadataInv
<1> QED  BY MetadataInitInv, MetadataStep, PTL DEF MetadataSpec

\* Where nothing invalid is what something valid was derived from, a valid
\* object has valid origins only.
LEMMA OriginsAreValid ==
  ASSUME MetadataInv, ~disturbed, NEW m \in DOMAIN metadata, metadata[m].valid
  PROVE  \A i \in Origins(m) : metadata[i].valid
<1> USE DEF MetadataInv
<1> DEFINE U == DOMAIN metadata
           step == [i \in U |-> metadata[i].of]
           C == {i \in U : metadata[i].valid}
<1>1. {m} \in SUBSET U /\ {m} \subseteq C
  OBVIOUS
<1>2. IsFiniteSet(U)
  <2>1. Len(metadata) \in Nat /\ U = 1 .. Len(metadata)
    BY DEF MetadataTypeOK
  <2> QED  BY <2>1, FS_Interval
<1>3. step \in [U -> SUBSET U]
  BY DEF ObjectsListen
<1>4. \A x \in U : x \in C => step[x] \subseteq C
  BY DEF Quiet, ValidIsClosed, ObjectsListen
<1>5. Origins(m) = Reached({m}, step)
  BY DEF Origins
<1> HIDE DEF step, U, C
<1>6. Reached({m}, step) \subseteq C
  BY <1>1, <1>2, <1>3, <1>4, ReachedFacts
<1> QED  BY <1>5, <1>6 DEF C

-----------------------------------------------------------------------------
\* The metadata objects, the promises and what cachifyMetadata keeps of them
\* are what the code declares them to be.
THEOREM MetadataTypeCorrect == MetadataSpec => []MetadataTypeOK
<1>1. MetadataInv => MetadataTypeOK
  BY DEF MetadataInv
<1> QED  BY <1>1, Invariance, PTL

\* What the callbacks of a plan return is valid and derived from valid metadata
\* only, as long as no stream replaced its metadata while one was being answered.
THEOREM QuietUpdatesReachAllCorrect == MetadataSpec => []QuietUpdatesReachAll
<1>1. MetadataInv => QuietUpdatesReachAll
  <2> SUFFICES ASSUME MetadataInv, ~disturbed, NEW n \in Node, Kept(n) PROVE Validated(n)
    BY DEF QuietUpdatesReachAll
  <2> DEFINE p == lastReturn[n]
             m == returned[p].value
  <2>1. p # 0 /\ p \in DOMAIN returned /\ returned[p].phase = "settled"
    BY DEF Kept, Settled, MetadataInv, MetadataTypeOK
  <2>2. m \in DOMAIN metadata /\ metadata[m].valid
    BY <2>1 DEF MetadataInv, PromisesKnown, Quiet, KeptIsGood, Good
  <2>3. \A i \in Origins(m) : metadata[i].valid
    BY <2>2, OriginsAreValid
  <2> QED  BY <2>3 DEF Validated
<1> QED  BY <1>1, Invariance, PTL

=============================================================================
