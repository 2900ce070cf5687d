---------------------------- MODULE SourceCaches ----------------------------
(***************************************************************************)
(* What an engine remembers of the Web between queries: the cache of       *)
(* identified sources (ActorOptimizeQueryOperationQuerySourceIdentify),    *)
(* the documents each hypermedia source holds (QuerySourceHypermedia), and *)
(* the destinations of updates (ActorRdfUpdateQuadsHypermedia), with the   *)
(* invalidations a client asks for and the policies that responses carry.  *)
(*                                                                         *)
(* Every cache holds promises, so that calls share a fetch under way, and  *)
(* a rejected promise stays like any other.                                *)
(***************************************************************************)
EXTENDS Naturals, FiniteSets, Sequences, SequencesExt

CONSTANTS
  Url,               \* documents
  Entry,             \* the documents queries name as their source
  PageOf,            \* the next page that the document of a source links to
  Reader, Writer,    \* queries, and INSERTs into one document
  Cohorts,           \* which of them are made together
  CacheSize,         \* cacheSize of the caches
  MaxInvalidations,  \* bound on the number of invalidations
  Absent             \* the content of a document that does not exist

Everything == "all documents"   \* what an invalidation without a URL is of

ASSUME SourceCachesAssumption ==
  /\ Entry \subseteq Url /\ PageOf \in [Entry -> Url] /\ Everything \notin Url
  /\ Reader \cap Writer = {} /\ (\A written \in SUBSET Writer : Absent # written)
  /\ Cohorts \subseteq SUBSET (Reader \cup Writer)
  /\ CacheSize \in Nat \ {0} /\ MaxInvalidations \in Nat

VARIABLES
  document,       \* the Web: per URL the INSERTs the document holds, or Absent
  fetches,        \* every promise for a source state or a destination
  identified,     \* the cache of the sources that were identified
  sources,        \* every QuerySourceHypermedia: its first link, its cache
  destinations,   \* the cache of the destinations of updates
  calls,          \* how far each call of the cohort is
  invalidations

Call == DOMAIN calls

sourceVars ==
  <<document, fetches, identified, sources, destinations, calls, invalidations>>

NewCall == [phase |-> "new", link |-> "none", source |-> 0, fetch |-> 0,
            outdated |-> {}, expired |-> {}]

SourcesInit ==
  /\ document \in [Url -> {{}, Absent}]
  /\ \A url \in Url \ Entry : document[url] = {}
  /\ fetches = <<>> /\ sources = <<>>
  /\ identified = <<>> /\ destinations = <<>>
  /\ \E cohort \in Cohorts : calls = [c \in cohort |-> NewCall]
  /\ invalidations = 0

-----------------------------------------------------------------------------
(* The lru-cache library: a map that forgets the entry that was used least *)
(* recently when it grows beyond its maximum. A cache is the sequence of   *)
(* its entries, the least recently used first.                             *)

KeysOf(cache) == {cache[i].key : i \in DOMAIN cache}
PositionOf(cache, key) == CHOOSE i \in DOMAIN cache : cache[i].key = key
ValueOf(cache, key) == cache[PositionOf(cache, key)].value

\* A key has one entry at most.
Deleted(cache, key) ==
  IF key \in KeysOf(cache) THEN RemoveAt(cache, PositionOf(cache, key)) ELSE cache

\* get: the entry becomes the most recently used one.
Got(cache, key) ==
  Append(Deleted(cache, key), [key |-> key, value |-> ValueOf(cache, key)])

Set(cache, key, value, max) ==
  LET kept == Deleted(cache, key)
      room == IF Len(kept) = max THEN Tail(kept) ELSE kept
  IN Append(room, [key |-> key, value |-> value])

-----------------------------------------------------------------------------
(* Fetches. *)

\* key: what the engine's cache knows the fetch under, for the history of what
\* was invalidated after it began.
NewFetch(url, key) ==
  [url |-> url, key |-> key, status |-> "pending", policy |-> "none",
   exists |-> FALSE, invalidated |-> FALSE]

Invalidated == {f \in DOMAIN fetches : fetches[f].invalidated}
Expired == {f \in DOMAIN fetches : fetches[f].policy = "expired"}

Responded(f) == fetches[f].status # "pending"

\* A response comes in; one without a cache policy is one that never expires. A
\* destination is chosen by whether its document exists.
SettleFetch(f) ==
  /\ ~Responded(f)
  /\ \/ \E policy \in {"valid", "expired"} :
          fetches' = [fetches EXCEPT ![f].status = "resolved", ![f].policy = policy,
                                     ![f].exists = document[fetches[f].url] # Absent]
     \/ fetches' = [fetches EXCEPT ![f].status = "rejected"]
  /\ UNCHANGED <<document, identified, sources, destinations, calls, invalidations>>

\* satisfiesWithoutRevalidation turns false when the response has grown old.
Expire(f) ==
  /\ fetches[f].status = "resolved" /\ fetches[f].policy = "valid"
  /\ fetches' = [fetches EXCEPT ![f].policy = "expired"]
  /\ UNCHANGED <<document, identified, sources, destinations, calls, invalidations>>

-----------------------------------------------------------------------------
(* The lookup that QuerySourceHypermedia.getSourceCached and               *)
(* ActorRdfUpdateQuadsHypermedia.getDestination have in common.            *)

CacheOf(c) == IF c \in Reader THEN sources[calls[c].source].states ELSE destinations
KeyOf(c, call) == IF c \in Reader THEN sources[call.source].url ELSE call.link

Caches(c, cache) ==
  IF c \in Reader
  THEN /\ sources' = [sources EXCEPT ![calls[c].source].states = cache]
       /\ UNCHANGED destinations
  ELSE destinations' = cache /\ UNCHANGED sources

\* What is found is awaited and checked; what is fetched is returned as it is.
\* key: what the engine knows the source or the destination by.
Fetch(c, call, key, cache) ==
  /\ fetches' = Append(fetches, NewFetch(call.link, key))
  /\ Caches(c, Set(cache, call.link, Len(fetches) + 1, CacheSize))
  /\ calls' = [calls EXCEPT ![c] = [call EXCEPT !.phase = "fetching", !.fetch = Len(fetches) + 1]]

Find(c, call, cache) ==
  /\ Caches(c, Got(cache, call.link))
  /\ calls' = [calls EXCEPT ![c] = [call EXCEPT !.phase = "awaiting",
                                               !.fetch = ValueOf(cache, call.link)]]
  /\ UNCHANGED fetches

LookUpIn(c, call, cache) ==
  IF call.link \in KeysOf(cache) THEN Find(c, call, cache)
  ELSE Fetch(c, call, KeyOf(c, call), cache)

\* A lookup begins: the history keeps what is out of date by now.
LookUp(c, call) == LookUpIn(c, [call EXCEPT !.expired = Expired], CacheOf(c))

isOutdatedNever(f) == FALSE     \* mutant
isOutdated(f) == fetches[f].policy = "expired"

Received(c) ==
  /\ calls[c].phase \in {"awaiting", "fetching"} /\ Responded(calls[c].fetch)
  /\ LET f == calls[c].fetch
     IN calls' = [calls EXCEPT ![c].phase =
          CASE fetches[f].status = "rejected" -> "rejected"
            [] calls[c].phase = "awaiting" /\ isOutdated(f) -> "outdated"
            [] OTHER -> "served"]
  /\ UNCHANGED <<document, fetches, identified, sources, destinations, invalidations>>

\* The verdict is awaited, so the entry that is deleted may be a later one.
withoutOutdatedKept(c) == CacheOf(c)   \* mutant
withoutOutdated(c) == Deleted(CacheOf(c), calls[c].link)

Refetch(c) ==
  /\ calls[c].phase = "outdated"
  /\ LookUpIn(c, calls[c], withoutOutdated(c))
  /\ UNCHANGED <<document, identified, invalidations>>

-----------------------------------------------------------------------------
(* Queries and updates. *)

\* identifySource: a source is identified once for each URL.
Identify(c, url) ==
  LET found == url \in KeysOf(identified)
      source == IF found THEN ValueOf(identified, url) ELSE Len(sources) + 1
  IN /\ calls[c].phase = "new"
     /\ identified' = IF found THEN Got(identified, url)
                      ELSE Set(identified, url, source, CacheSize)
     /\ sources' = IF found THEN sources ELSE Append(sources, [url |-> url, states |-> <<>>])
     /\ calls' = [calls EXCEPT ![c].phase = "identified", ![c].source = source,
                               ![c].link = url, ![c].outdated = Invalidated]
     /\ UNCHANGED <<document, fetches, destinations, invalidations>>

\* queryBindings: the first query on a source fetches its document at once,
\* before the iterator it returns is read.
queryBindings(c) ==
  LET url == calls[c].link
      prefetch == CacheOf(c) = <<>>
  IN /\ calls[c].phase = "identified"
     /\ calls' = [calls EXCEPT ![c].phase = "queried"]
     /\ fetches' = IF prefetch THEN Append(fetches, NewFetch(url, url)) ELSE fetches
     /\ IF prefetch THEN Caches(c, Set(<<>>, url, Len(fetches) + 1, CacheSize))
        ELSE UNCHANGED <<sources, destinations>>
     /\ UNCHANGED <<document, identified, invalidations>>

Read(c) ==
  /\ calls[c].phase = "queried"
  /\ LookUp(c, calls[c])
  /\ UNCHANGED <<document, identified, invalidations>>

\* The iterator follows the link of the document it was served.
Follow(c) ==
  LET source == sources[calls[c].source]
  IN /\ calls[c].phase = "served" /\ c \in Reader
     /\ calls[c].link = source.url
     /\ LookUp(c, [calls[c] EXCEPT !.link = PageOf[source.url]])
     /\ UNCHANGED <<document, identified, invalidations>>

\* getDestination
Update(c, url) ==
  /\ calls[c].phase = "new"
  /\ LookUp(c, [calls[c] EXCEPT !.link = url, !.outdated = Invalidated])
  /\ UNCHANGED <<document, identified, invalidations>>

\* execute: the destination is the one that fits what was found when its URL was
\* fetched. A PUT replaces what the document holds, a PATCH adds to it; either
\* may be answered by an error.
Execute(c) ==
  LET url == calls[c].link
      patch == fetches[calls[c].fetch].exists
  IN /\ calls[c].phase = "served" /\ c \in Writer
     /\ \/ /\ document' = [document EXCEPT ![url] =
                IF patch /\ @ # Absent THEN @ \cup {c} ELSE {c}]
           /\ calls' = [calls EXCEPT ![c].phase = "done"]
        \/ calls' = [calls EXCEPT ![c].phase = "rejected"] /\ UNCHANGED document
     /\ UNCHANGED <<fetches, identified, sources, destinations, invalidations>>

-----------------------------------------------------------------------------
(* QueryEngineBase.invalidateHttpCache *)

forgottenAll(cache, target) ==   \* mutant
  IF target = Everything THEN <<>> ELSE cache
forgotten(cache, target) ==
  IF target = Everything THEN <<>> ELSE Deleted(cache, target)

\* Of one URL, or of all. Queries under way keep their source.
Invalidate(target) ==
  /\ invalidations < MaxInvalidations
  /\ identified' = forgotten(identified, target)
  /\ destinations' = forgotten(destinations, target)
  /\ fetches' = [f \in DOMAIN fetches |->
       [fetches[f] EXCEPT !.invalidated = @ \/ target \in {fetches[f].key, Everything}]]
  /\ invalidations' = invalidations + 1
  /\ UNCHANGED <<document, sources, calls>>

-----------------------------------------------------------------------------
CallStep(c) ==
  /\ c \in Call
  /\ \/ c \in Reader /\ (\E url \in Entry : Identify(c, url))
     \/ c \in Writer /\ (\E url \in Entry : Update(c, url))
     \/ queryBindings(c) \/ Read(c) \/ Received(c) \/ Refetch(c) \/ Follow(c)
     \/ Execute(c)

SourcesNext ==
  \/ \E c \in Call : CallStep(c)
  \/ \E f \in DOMAIN fetches : SettleFetch(f) \/ Expire(f)
  \/ \E target \in Url \cup {Everything} : Invalidate(target)

\* A response or a failure comes for every request, and calls go on.
SourcesFairness ==
  /\ WF_sourceVars(\E f \in DOMAIN fetches : SettleFetch(f))
  /\ \A c \in Reader \cup Writer : WF_sourceVars(CallStep(c))

SourcesSpec == SourcesInit /\ [][SourcesNext]_sourceVars /\ SourcesFairness

-----------------------------------------------------------------------------
(* Properties. *)

Answered(c) == calls[c].phase \in {"served", "rejected", "done"} /\ calls[c].fetch # 0

\* A call that begins after invalidateHttpCache was called, for everything or for
\* the URL of its source or destination, is not answered with anything whose
\* fetch began before that, whatever fetches were under way at the time and
\* whichever calls still use the old source.
InvalidationIsHonoured == \A c \in Call : Answered(c) => calls[c].fetch \notin calls[c].outdated

\* "If it's not valid, delete cache entry, and re-fetch immediately": no lookup
\* is served a response that had expired before the lookup began, though other
\* lookups delete and replace the same entry meanwhile.
NothingExpiredIsServed == \A c \in Call : Answered(c) => calls[c].fetch \notin calls[c].expired

\* Every query and every update is answered, with a result or an error: it does
\* not refetch for ever what expires for ever.
finished(c) ==
  \/ calls[c].phase \in {"rejected", "done"}
  \/ c \in Reader /\ Answered(c) /\ calls[c].link # sources[calls[c].source].url
EveryCallSettles == <>(\A c \in Call : finished(c))

\* "Actor can only put on a destination that does not already exists"
\* (ActorRdfUpdateHypermediaPutLdp.ts:34): no document that exists is replaced.
PutOnlyCreates ==
  [][\A url \in Url : document[url] # Absent => document[url] \subseteq document'[url]]_sourceVars

=============================================================================
