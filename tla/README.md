# A TLA+ verification of Comunica

Comunica is a meta query engine for the web: actors that subscribe to busses, mediators
that choose among them, and, on top of that, the components of a SPARQL engine.  This project
models the parts that keep state while promises, streams, processes or timers are under way as
state machines, and the parts that compute (the optimizers, the joins, the operations, the
expression evaluator) as operators that are compared with the semantics of SPARQL.
Every module is written from the source under `src/`; every definition that stands for code is
listed with its lines in `PROJECT.json` under `map`, but for helpers whose lines lie within those of another
definition and for what JavaScript or the recommendation defines.

## 1. Inventory

| component | state it keeps | operations | hard behaviour | correct when |
|---|---|---|---|---|
| **Hypermedia bindings stream** (`LinkedRdfSources`, `Mediated…`) | running inner iterators, two pending counters, link queue, handled URLs, buffer, metadata | read, follow links, accumulate metadata, close, destroy | callbacks of fetches, streams, metadata and link queues in any order; every one may fail | it closes exactly when all was read; no document is fetched twice; at most `maxIterators` are in work |
| **Caches of sources and destinations** | LRU caches of promises at three levels | identify, fetch, invalidate, update | calls that share a fetch, expiry, rejected promises | what is served is valid; an invalidation is honoured |
| **Metadata invalidation** (`MetadataValidationState`, `cachifyMetadata`) | validity, listeners, last promise | get, invalidate, derive | an invalidation while metadata is awaited | derived metadata learns of every update |
| **SPARQL endpoint** (`HttpServiceSparqlEndpoint`) | workers, IPC channels, timers per query, open connections | fork, request, answer, time out, shut down, respawn, disconnect | two kinds of processes, crashes, timers racing messages, clients that leave | no query escapes its time limit; the service comes back; it ends cleanly |
| VoID statistics (`VoidMetadataEmitter`) | cached statistics | get, invalidate | concurrent fetches | statistics are complete or absent |
| **Grouping** (`GroupsState`, `ActorQueryOperationGroup`, `AggregateEvaluator`) | groups, initializers, aggregators, a counter | consume, collect | puts run concurrently, the end comes in between, creations and evaluations fail | the rows are those of GROUP BY |
| **Busses** (`Bus`, `BusIndexed`) | actors in order, dependencies, index | subscribe, unsubscribe, publish | cyclic dependencies, several identifiers | actors come before those that depend on them |
| **Mediators** (race, number, join coefficients, all, pipeline, union) | none between calls | mediate | tests that settle in any order or fail | the best actor runs with its own side data |
| **HTTP retry and rate limit** | delays and rates per host | request, invalidate | timers, concurrent requests of a host | no request before its host allows it; bursts are spread |
| HTTP body retry, fetch, proxy, memento, wayback | a buffered body | request | back pressure and errors of streams | no body twice or in part |
| **Property paths from a subject** (`PathVariableObjectIterator`) | terms found, pending and running operations, buffer | read, get metadata, destroy | a cyclic graph searched by several streams at a time | each reachable term once, all before the end |
| **Property paths between all terms** (`ActorAbstractPath`) | visited terms, promises per term, a counter | closure | recursive concurrent callbacks | each pair once, closed when all are found |
| **Sources of quads** (`QuerySourceRdfJs`, `…Qpf`, `…Sparql`, `…Skolemized`) | none that queries share, but a cache of fragments | answer an operation, declare its shape | graphs, blank nodes of several sources, metadata | the answer is that of the operation |
| **Optimizers** | the context of one query | rewrite an operation | the interplay of rewritings, the order of which is configured | the rewritten query has the same solutions |
| **Operations and joins** | streams, hash tables, metadata | evaluate, join | metadata that decide which join is legal | the solutions of the algebra, truthful metadata |
| **Expression evaluation, functions, aggregators** | the cache of overloads | evaluate, compare, aggregate | error logic, promotion of types, dates with zones | SPARQL's and XPath's tables |
| Updates | blank node counter, caches | delete, insert, invalidate | order of effects | SPARQL Update semantics |
| Link discovery, identification, dereferencing, RDF parsing, serialization, engine, command line, loggers, configurations | little or none | conversions, wiring, I/O | — | — |

How they interact: an engine call goes through the query process (parse, optimize, evaluate);
operations call each other and the sources through mediators and busses and return streams that
are read lazily; a hypermedia source turns a pattern into a bindings stream that asks the link
queue, the source cache and, through dereferencing, the HTTP actors; the endpoint runs engines in
its worker processes.  All of it shares one JavaScript thread per process, so what can interleave
is callbacks; only the endpoint has several processes.

`PROJECT.json` lists every component with its status, and under `hazards` what in this code can go
wrong and is hard to test, at its line, with the properties that cover it.

## 2. Structure and plan

| part of the system | modules, from the bottom up | checked by |
|---|---|---|
| hypermedia stream | `LinkTraversal` (abstract), `LinkedRdfSources` | `linked_sources`, proofs |
| caches | `SourceCaches`, `MetadataStates` | `caches`, `caches_put_replaces`, proofs |
| endpoint | `SparqlEndpoint` | `endpoint`, `endpoint_time_limit`, proofs |
| grouping | `Aggregation` (abstract), `GroupsState` | `groups`, proofs |
| paths from a subject | `PathReachability` (abstract), `PathVariableObjectIterator` | `path_objects`, `path_lost_solutions`, proofs |
| core | `Bus`, `Mediation` (abstract), `Mediator` | `mediator`, proofs |
| HTTP | `HttpClient` | `http`, proofs |
| expressions | `Types`; `Overloads`; `DateTimes`, `Terms`; `TermFunctions`; `Expressions`; `Aggregators`; `FunctionCalls` | `expressions`, proofs |
| queries | `Solutions`; `Algebra`; `SparqlSemantics` (reference); `Sources`; `Optimizers`; `Joins`; `Evaluation`; `QueryEvaluation` | `algebra` |

`MC…` modules give the instances, `…_proof` modules hold the proofs; `Caches_proof` is about both modules of the caches,
`Mediator_proof` about `Bus` and `Mediator`, and `FunctionCalls_proof` about everything below `FunctionCalls`.

Not yet done, in the order in which it would add most: the two-variable closure of `ActorAbstractPath` as a
process over `PathReachability`; deletions, graph management and the order of effects of updates; the bind join
as a process; the VoID statistics; what single optimizers and joins preserve, as theorems about modules without
recursive operators.

## 3. Modules and their correspondence to the code

### LinkTraversal, LinkedRdfSources, MCLinkedRdfSources, LinkedRdfSources_proof

`LinkTraversal` says what the stream promises: it delivers each binding of the documents reachable
from the first one at most once, ends only when all were delivered, and says nothing after that.
`LinkedRdfSources` is the code.  `inner[l]` is the life of the inner stream of document `l`
(`creating`, `running`, `ended`, `rejected`, …) and `meta[l]` that of its metadata; the array
`currentIterators` is the set of running ones; `iteratorsPendingCreation`,
`iteratorsPendingTermination`, `linkQueue` and `handledUrls` have the names of the source.
`state`, `reading`, `readable` and `buffer` are those of `BufferedIterator` of the asynciterator
library, which is modelled from how the class uses it.  `closingCalls` and `scheduled` count the calls
of `startIteratorsForNextUrls` that await the link queue or the refetch of the first source.  The link
queue may pop any queued link, so what is shown holds for every queue actor.  `preflight` and `prop`
follow the `metadata` property.

### SourceCaches, MetadataStates, MCCaches, Caches_proof

`SourceCaches`: `identified` is the cache of `ActorOptimizeQueryOperationQuerySourceIdentify`, from the address
of a source to one of `sources`, each of which has a cache of documents (`QuerySourceHypermedia.getSourceCached`,
an LRU cache of `CacheSize`), and `destinations` that of `ActorRdfUpdateQuadsHypermedia`.  A cache entry is a
fetch: one of `fetches`, which many calls may await, and which resolves (with or without a policy, that expires
later) or is rejected.  `calls` says where a query (`Reader`) or an update (`Writer`) is.  `Invalidate` is
`QueryEngineBase.invalidateHttpCache`.
`MetadataStates`: nodes of a plan call `cachifyMetadata`; a call returns the cached metadata, or asks the
children and derives a new state that listens to theirs (`constructState` of unions and joins).  The leaves are streams
that update and invalidate.  `MCCaches` runs both beside each other, one in each behaviour.

### SparqlEndpoint, MCSparqlEndpoint, SparqlEndpoint_proof

The master (`forked`, `watched`, `reaped`, `timer`), the workers (`mode`, `killed`), the IPC channels
(`channel` from a worker to the master, in order; `inbox` from the master) and the requests (`phase` of the
handler, `response`, `answer`) of `runMaster`, `runWorker`, `handleRequest`, `writeQueryResult`,
`stopResponse` and `parseBody`.  Timers may fire at any time after they were set.  Node's `cluster` and `http`
are modelled as far as the class relies on them; what is assumed of them: `cluster.disconnect` marks all
workers `exitedAfterDisconnect` and a worker leaves the cluster when its connections are closed; a second
`writeHead`, and one on an ended response, throws; a rejected async listener ends in `uncaughtException`.
Left out: requests on kept-alive connections after `server.close`, and the order in which connections are ended
(any order is allowed).  Requests that are answered at once (redirects, 404, 405, HTML) are of the kind `page`.

### Aggregation, GroupsState, MCGroupsState, GroupsState_proof

`Aggregation` is GROUP BY: when the input has ended, one row per group of the solutions that came in, each
aggregate made of the terms of its group (with DISTINCT, one of each), undefined when an evaluation failed;
or an error, and no row.  `GroupsState` is the code: `initializer[g]` is the solution whose `consumeBindings`
creates group `g` (`groupsInitializer`), `groups` the groups that are complete, `step[s]` how far the promise of
`consumeBindings(s)` is, `put[s][a]` how far `putBindings` of aggregate `a` is, `waitCounter` and `ended`
(`resultHasBeenCalled`) as in the source.  An aggregator is `errorOccurred` and the set of the solutions whose
term was put, of which COUNT, SUM and the others are functions (they are in `Aggregators`).

### PathReachability, PathVariableObjectIterator, MCPathVariableObjectIterator, PathVariableObjectIterator_proof

`PathReachability` is the closure of a path from a subject as a stream: terms that can be reached, all of them
before the end, or an error.  `PathVariableObjectIterator` is the code: `operation[o]` is how far the operation
that asks for one step from term `o` is (`Start` stands for the subject of `p+`, which is searched from without
being a result), `unread` and `ready` what its stream has still to bring and has ready; `termHashes`, `pending`
(`pendingOperations`) and `started` are fields of the class; `kickstart` is the `startNextOperation(false)` of
`getProperty('metadata')`.  `MetadataFirst` says how the consumer behaves: whether it asks for the metadata, if
it does, before it reads, and waits until that has settled, as the join actors do.  `_read` and the `done()` that
follows it by a microtask are one step: what can come between them is decided by the scheduler of asynciterator,
which is not in the repository.

### Bus, Mediation, Mediator, MCMediator, Mediator_proof

`Bus` has the operations of `Bus` and `BusIndexed` on the list of actors, the dependencies and the index; they come in
any order, and then an action is mediated over the bus they leave (`MaxWiring` bounds how many operations a bus that is
then mediated over has seen).  `Mediator` takes a strategy (the type of mediator with its options) and follows
`Mediator.mediate`: `tests` are the replies that the bus returned, which settle in any order by passing with a value or by
failing, `selected` those that the mediator is left with, in its order, `plan` what it runs, with whose side data, and
`outputs` what the runs gave.  What an actor tests is left open.  `Mediation` is what
`Mediator.ts` promises whatever the strategy: an actor runs only after its test passed, at most once, and the
caller hears once.

### HttpClient, MCHttpClient, HttpClient_proof

`ActorHttpRetry` calls `ActorHttpLimitRate`, through the bus, for each attempt.  `activeDelays` and `hostData` have
the names of the source.  Time is discrete (`Tick`), counted from the present, with timers that fire no earlier
than set.  A response may have any status class, with a `Retry-After` in `RetryAfters`; an invalidation makes both
actors forget a host.  The rates use whole units and a divisor in place of the fractions of the source.

### Types … FunctionCalls, MCFunctionCalls, FunctionCalls_proof

One module per part of the expression evaluator: `Types` (`TypeHandling`), `DateTimes` (`SpecAlgos`,
`DateTimeHelpers`, `Parsing`, `Serialization`), `Terms` (`Term`, `TermTransformer`, and JavaScript numbers as fractions),
`Overloads` (`OverloadTree`, `Helpers`), `TermFunctions` (`Core` and every function on terms), `Expressions`
(the actors that offer them, `InternalEvaluator`, the functional forms, the term comparator), `Aggregators`.  A string is a sequence of letters; a number, a date or a
duration is one letter that names its value, so that parsing and serializing are lookups with the checks of the source.
`FunctionCalls` is a machine: calls of functions one after the other, over the shared `functionArgumentsCache`, with the trees
and the calls as constants; or it takes a step to look at one argument list, of which the laws are stated.
What the source computes by recursion over a term or an expression (`toRDF`, `transformTerm`, `evaluate`, equality, `<` and ORDER BY of triples) is here a
function over what the term or expression nests, so that it can be proved about: a parser bounds how deep that is, here
`MaxNesting`, which `ArgumentsAssumption` asks the arguments to keep, with room for the operators the laws put around them (7 in the instance).

### Solutions … QueryEvaluation, MCQueryEvaluation

`Algebra` has the operations with the traversals of `utils-algebra` and `materializeOperation`; `SparqlSemantics` is the
recommendation, written independently of the code and compared with it.  `Sources` has the shapes, answers and metadata of
the three kinds of sources under `QuerySourceSkolemized`; `Optimizers` every actor of the optimizer bus;
`Joins` the base class `ActorRdfJoin` and the join actors; `Evaluation` the actors of the
query-operation bus, and the joins that evaluate operations.  A result is the whole sequence of solutions with its
metadata.  An actor that ends by asking the mediator of joins returns what it wants joined (`Joining`), and `mediateQueryOperation` has it joined.
`QueryEvaluation` is a machine whose steps are the optimizers in order and then the evaluation, of the query with every preference of the
mediators or of one of the operations in it, whose metadata are then looked at.
In `context.preferred` the instance chooses which join actor wins among those that pass their tests, since which one a
mediator takes depends on measurements.

## 4. Runs

| run | question | bounds | result |
|---|---|---|---|
| `linked_sources` | is the stream right, whatever fails? | 3 documents with a cycle and a link found twice, 1 binding each, `MaxIterators` 2, all failures, one refetch at a time | 6 properties hold |
| `caches` | is what caches serve valid, and do updates reach what was derived? | an index with a next page, caches of one entry, two calls (queries, updates or both), one invalidation; a join of a union of two streams with one of them, 2 updates | 4 properties hold |
| `caches_put_replaces` | does PUT only create? | the same, two updates | **no**: `PutOnlyCreates` |
| `endpoint` | are time limits and forks under control? | 2 requests of every kind, 1 worker in the pool, 1 crash, SIGINT, with and without fresh workers | 4 properties hold |
| `endpoint_time_limit` | are queries bounded, and does the service come back and end? | 2 requests (POST, description), an engine that may hang, no crash | 3 liveness properties hold |
| `groups` | are the rows those of GROUP BY? | 3 solutions in 1 or 2 groups, a plain and a DISTINCT aggregate, equal and different terms, unbound and failing evaluations | 3 properties hold |
| `path_objects` | does the closure deliver what can be reached? | 4 terms with a cycle, a shared successor and an unreachable term, `p*` and `p+`, 2 operations at a time, a buffer of 2, all failures | 3 properties hold |
| `path_lost_solutions` | also when metadata are asked for while it is read? | the same, `MetadataFirst` FALSE | **no**: `EndsWithAllSolutions` |
| `mediator` | are actors asked in order, and does the right one run? | 3 actors, 2 identifiers, 5 operations on the bus, then any of 11 strategies; 2 values, 2 coefficients of joins | 6 properties hold |
| `http` | are hosts respected, and does every request end? | 2 requests to one host, one retry, a fallback, dates beyond the limit and beyond what a timer can wait, one invalidation | 3 properties hold |
| `expressions` | do cached overloads, comparisons, functions, forms and aggregators agree with each other? | some 50 terms of every kind, quoted triples with and without ill-typed literals among them, with their pairs and the triples that matter, 7 dates and times with zones and month ends, 8 durations, `MaxNesting` 7 | 5 properties hold |
| `algebra` | are solutions and metadata right, whatever the optimizers and join actors? | 40 odd queries over a store, an indexed one, fragments, an endpoint that counts, a service and two files, 2 orders of 14 optimizers, every join actor preferred | 3 properties hold |

What the properties say is in the comment before each.  Those of the value-level runs deserve a word.
`SolutionsAreRight` compares every evaluated query with `SparqlSemantics` as bags (as sets under REDUCED, by size and inclusion under
LIMIT; the order of an ORDER BY is the matter of `OrderFollowsComparisons`).  `MetadataIsTruthful`, of every operation in the plan that is evaluated: zero means empty, all variables are listed, and those that cannot be undefined never are.  `FunctionsAgree` relates functions to each other (what is subtracted can be added again, a cast to string
can be cast back, a substring before and after are parts of the string), `OrderFollowsComparisons` ORDER BY to `<` and
`=`, `FormsAgree` the functional forms to their definitions by each other, `AggregatesIgnoreOrder` the aggregators under
permutations of their rows.

Why these bounds are enough to see the interesting cases: two slots and three documents are the least for a
document to wait in the queue while one ends and another is being created, and a cycle and a shared link are
in it; a buffer of three is the least that schedules its own refill after a fill that left it under half full.  With one worker
in the pool and two requests, a worker can be shut down, replaced, and hold a query at the same time as its successor; the number
of worker processes is bounded (`MaxWorkers`) by the ways a run can lose one, so the bound is never what stops a fork.  Three
solutions are the least for two to wait for a group that the third creates, and for a group of one besides a
group of two.  Two operations of which both return the same term, and a third that has to wait for one of them,
are what the cycle of `path_objects` makes; a buffer of two can be full while operations have more.  A cache of one
entry evicts as soon as a page follows its index.  Three actors of which one has two identifiers are the least for an index that differs from
the list, and for a chain of dependencies; with two values ties occur in every mediator.  In `http` the times asked for lie below, at
and above both the limit of the actor and that of a timer.  The two chains of calls that share a cache of one overload
(`MaxCached`) suffice for the cache, as it has no state but its entries.  The orders of `algebra` are the default one and one that differs in every
place the declared dependencies leave open.

Both violated runs check one property that the repository states, which `PROJECT.json` quotes.  The values in
`expressions` and `algebra` leave out what is known to differ (section 6), as those are facts of a single function rather
than of an interplay.

### Fairness, and why the code justifies it

* `LinkedRdfSources`: pending callbacks run (the event loop), fetches and metadata settle (HTTP timeouts are the
  HTTP actors' business), inner streams make their bindings available, the consumer reads while there is something.
  Nothing is assumed of failures.
* `SparqlEndpoint`: processes make steps, messages arrive, timers fire, a body comes in or breaks off, and a
  response that was ended is read or its client leaves.  Nothing is assumed of the engine: it may never answer.
  That clients read or leave is needed: the shutdown handler waits for each connection to be written out.
* `GroupsState`: evaluations and creations of aggregators settle, and their callbacks run.  Nothing is assumed of
  the input: it need not end.
* `PathVariableObjectIterator`: operations are answered, their streams bring their results and end, scheduled fills
  run, and the consumer reads while the iterator is readable.  Nothing is assumed of failures.
* `Mediator`: tests and runs that are awaited settle, some at a time, and continuations run.
* `HttpClient`: time passes and each request takes its next step, which includes that a response comes.
* `SourceCaches`: a fetch under way settles and each call takes its next step.  No invalidation is assumed.

All are weak fairness of single callbacks: a promise that may settle stays so until it does.

## 5. Proofs

TLAPS proves the following for every value of the constants (any number of documents, links, solutions, groups,
aggregates, queries, workers, actors, plans), from the assumptions named in the modules, which say only that the sets are finite, the bounds numbers and the
special values distinct.

**`LinkedRdfSources_proof`** — `TypeCorrect`, `SlotsCorrect`, `ClosingCorrect`, `MaxIteratorsCorrect` (invariants),
`FetchedOnceCorrect` (an action property) and `LinkTraversalImplemented` (the refinement).  The invariant `Inv` adds
to the checked properties `LinksInv` (which documents are queued, started or unknown, and what their metadata
have announced) and `BindingsInv` (where each binding is: unread, in the buffer or delivered, and never in two
places).  They are needed because `ClosesOnlyWhenFinished` is not inductive: that an empty queue and zero counters
mean all is read holds only since the counters equal the cardinalities of the sets they stand for, and since
every known document is queued or started.  The refinement needs `HandledReachable` in addition: only reachable
documents are ever queued.

**`SparqlEndpoint_proof`** — `TypeCorrect`, `NoQueryEscapes`, `NoTimerStaysBehind` (invariants) and
`NothingForkedAfterDisconnect` (an action property).  `Pending` and `Concluded` abstract a channel to the messages in it and to the
queries whose end follows their start, and `ChannelAppend` and `ChannelTail` say how a send and a receipt change them; no other proof looks into a
channel.  `Inv` adds to types and the two properties: `RequestsPlaced` (requests are with workers that have listened, so that no worker returns
to listening under a query), `MessagesOfOwn` (the end of a query is sent when it is over: receiving it cannot clear the timer of one that
runs), `ResultsStreamed` (a delivered query was streaming, and only then is its close reported), `DeliveriesReported` (the order of start and end,
without which a late start would arm a timer for good) and, for the forks, `AllDisconnected` with `WorkersForked`.

**`GroupsState_proof`** — `TypeCorrect`, `CounterCorrect` and `AggregationImplemented`.  `Inv` adds `StepsInv` (a
solution is put only when it creates its group or the group is complete; the complete groups are those whose
creator is done) and `AggregatorsInv` (each aggregator is right for the solutions that have been put into it so
far).  The counter tells that, when it falls to zero, all solutions consumed are done; `StepsInv` then gives
the groups and `AggregatorsInv` the values, which is what `Aggregation` asks of its final step.

**`PathVariableObjectIterator_proof`** — `TypeCorrect`, `DeliveredOnceCorrect` and
`LimitsCorrect` for every consumer; `PathReachabilityImplemented` for one with `MetadataFirst`, without which it is
false (`path_lost_solutions`).  `Inv` adds `OperationsTracked` (a term has an operation only if it was pushed, so what is new was never
searched from) and `FirstOperation`.  `LimitsInv` says that one operation at most is being started, by `_read` or by a
kickstart that finds nothing else to start, and that a `_read` under way has room in the buffer.  `SearchInv` carries the refinement:
what was found is a solution (`Sound`), has an operation (`Covered`), whose results are pushed or still to be read
(`Complete`); a stream closed without an error has no operation left (`Finished`), so the terms found are closed
under one more step, and the least such set are the solutions.

**`Caches_proof`**, sources — `SourcesTypeCorrect`, `InvalidationIsHonouredCorrect`, `NothingExpiredIsServedCorrect`.  What is promised is
about a call: what it is served was not invalidated before it began, nor had expired before it looked it up.  `SourcesInv` carries
this back to the caches: `KnownIsCurrent` (nothing a new call can reach, a destination or a document of a source that is still
identified, was invalidated) is what a call starts from, and `CallOK` follows it from there.  `SourceIsCurrent` is the delicate part:
an invalidation of its first document takes a source out of the cache of sources but not from the queries that hold it, so their
own source must stay as current as it was when they began.  `KeysAgree` (a fetch is cached under the key an invalidation forgets it by) and
`PolicyIsOfResponse` close the induction; `NothingExpiredIsServed` holds since an outdated entry is fetched anew, not served.

**`Caches_proof`**, metadata — `MetadataTypeCorrect`, `QuietUpdatesReachAllCorrect`, for any plan.  An object that becomes invalid tells
its dependents, these theirs (`cascade`): `Reached` follows the listeners step by step and is shown to stop at a set that is closed
under them.  `ObjectsListen` (an object listens exactly to those it was derived from) and `Quiet` (without a disturbance the valid objects
are closed under what they were derived from, the promises under way hold valid values, and the end of a kept one will be noticed) make it inductive.
The condition `~disturbed` is needed: a listener that is added after an invalidation never fires (section 6).

**`HttpClient_proof`** — `TypeCorrect` (an invariant), `RetryHonoursHostCorrect` and `BurstsAreSpreadCorrect` (action properties), for any
hosts, delays and limits.  `DateIsKept` is needed for the first: the delay of a host is the date it asked for until that has come, since
every timer that could clear it fires later.  The second needs `AnswerTakesTime` (what the limiter makes a request wait is not counted as
the time its answer took) and `TimeIsReserved` (the last time reserved at a host is not before that of any request that waits for it).

**`Mediator_proof`** — of the bus, `BusTypeCorrect`, `DependentsFirstCorrect` and `ActorsStayUnlessCyclicCorrect`, which hold for any number of
operations (`WiringCorrect` says that they hold before a mediation too).  The reordering is two loops; for both it is shown what an
iteration keeps (no actor is lost: `Take` moves one from the list to those pending, `AppendNext` one back) and how they end: either all
are back, or the pending ones form a set of which each waits for another, which is the cycle that `broken` asks for.  An actor that
is put back follows those before it that are in the list, and none of them is put back later.
Of the mediators, `MediatorTypeCorrect`, `ChoiceIsBestCorrect`, `OwnSideDataCorrect` and `MediationImplemented` (the refinement).  `MediationInv` adds what each
loop has established so far: `SelectedInv` (the replies awaited in turn: what was passed over had failed, what is left is in order), `Fit`
(a plan is what its mediator documents: the first to pass, the best number, the cheapest join, all, or the pipeline
with every actor beside its own side data unless it is sorted) and `RanInv` (what ran is a prefix of the plan).  That `indexPicker`, `minIndex` and the sorting
find what they should is proved by induction over the replies.  `ChoiceIsBestCorrect` assumes that `cpuWeight` or `timeWeight` is positive, as
in the mediators that the repository configures (10, 1, 2 and 10 for cpu, memory, time and IO): with both zero all
costs may be zero, and then so is the penalty of a join that blocks beyond the limit: the greatest cost of all.

**`FunctionCalls_proof`**, the cache — `CacheAgreesWithSearchCorrect`, for any overload trees and calls.  `EntriesFound` (an entry is what a search found for some
call with its key) is inductive because of `SameKeySameSearch`: arguments with one key descend into the same branches.  It assumes that datatypes
are no term types, and one super type provider (`OverloadAssumption`); queries with different ones do share entries that are not theirs (section 6).

**`FunctionCalls_proof`**, the forms — `FormsAgreeCorrect`, for argument lists of RDF terms with any datatypes and forms, quoted up to `MaxNesting`
(`ArgumentsAssumption`, `NestingAssumption`), and extension functions that are named like no operator (`ExtensionAssumption`).  The property is
of the step that looks at an argument list, so what has to be shown is that the laws hold of every list.  A term or expression is the union of its levels, what it nests lies on lower ones,
and the recursive functions take the value that their body gives for what is nested directly (`transformTerm`, `Evaluate`): the value over the levels
of `Within` exists and is unique, by induction on the level (`ValuesExist`, `ValuesAgree`).  With these equations every law becomes one of values: the connectives by the table of what
`evaluateAsEBV` gives for either operand (a boolean or an error), IN and NOT IN by the table of what `=` gives for either element (`InTable`), a constant by
`transformTerm` of a term and of the term it was made from, which agree unless a quoted literal is ill-typed.

**`FunctionCalls_proof`**, the aggregates — three theorems about any number of solutions, as lemmas for what `AggregatesIgnoreOrder` says of every
aggregator.  `FailureUnbindsAggregate`: one failure anywhere makes the aggregate unbound.  `UnboundIsSkipped`: a solution without a value makes no
difference.  `CountIsOfTerms`: COUNT is the number of values, with DISTINCT of different ones.  `AggregateRuns` says that
the fold in `Aggregate` is a run of `putBindings`, from which each follows by induction over the solutions put so far.

**How.**  Each proof follows one pattern: the invariant holds initially; one lemma per action shows that it is kept; PTL
combines them.  Recursive functions (`Taken`, `PutBack`, `indexPicker`, `Sorted`, `Reached`) are characterised by what one step does: an iteration of a step
exists for any number of steps, and what each step keeps holds of the last.  The induction itself is by a least counterexample, from the well-foundedness of `<` on the naturals, since
the induction theorems of the library take an operator, which the provers cannot instantiate.

**Only model-checked**: every liveness property (`EventuallyDone`, `EventuallySettled`, `EveryQueryIsBounded`,
`ServiceRestored`, `CleanTermination`, `EveryCallSettles`, `EveryRequestSettles`, `EveryRequestIsSettled`), since liveness under
fairness and ENABLED are beyond the installed provers; `SolutionsAreRight`, `MetadataIsTruthful` and `ExtensionsStayWhereKnown` of `algebra`, since the modules they are about
walk operations of any depth by RECURSIVE operators, which no proof may reach; `FunctionsAgree`, which is about the parsing and arithmetic of single
functions over given forms of numbers and dates; `OrderFollowsComparisons`, which is not true of arbitrary terms, as the comparison is not transitive across
types (section 6); and of `AggregatesIgnoreOrder` what the three theorems on aggregates do not cover.


## 6. Divergences and what is not modelled

Two disagreements between the code and what the repository says of it are runs of their own, each with a counterexample:
`path_lost_solutions` and `caches_put_replaces`.  The following were met while modelling.  Where a model covers the code concerned it does what
the code does, and the instances keep away from the case only where a property of the run would otherwise state what the code does not do.

**Streams of sources.**  A link whose source cannot be created keeps its slot, so that its stream does not end
(`LinkedRdfSourcesAsyncRdfIterator.ts:330`, against the comment at :196): liveness is stated of runs without it.  A source that resolves after the iterator
was destroyed starts an inner stream that nobody destroys (:328, against :106).  Metadata of the preflight that arrive late replace valid ones for
good (:99).

**Endpoint.**  A query that is answered 400, or a HEAD request, sends no `end` to the master (`HttpServiceSparqlEndpoint.ts:482`, :518, :541), so its timer
stays until the worker is shut down; a result that cannot be serialized leads to a second `writeHead` (:534).

**Caches.**  A destination that was found absent stays cached as one to PUT to.  A rejected source or metadata promise stays until it is invalidated or
evicted; a failed dereference yields a source without a cache policy.  A SELECT after an update may read the cached source.
`invalidateHttpCache` of a page does not reach the caches that hypermedia sources keep themselves (`IQueryEngine.ts:121`).  An invalidation listener that is added
after the invalidation never fires.

**HTTP.**  The first attempt of a request is not delayed by a delay that is active; errors that are thrown are not retried; a wait beyond 2^31-1 ms
fires at once (`ActorHttpRetry.ts:72`, :124); the message about a delay beyond the limit reads a delay that may not exist (:61); host data of the rate
limit are orphaned by an invalidation.

**Busses and mediators.**  The order of `BusIndexed.publish` ignores dependencies between identifiers (`BusIndexed.ts:74`), its `unsubscribe` takes an actor with
several identifiers off the list only once, however often it was put there (:66), a cyclic dependency is reported after actors were dropped (`Bus.ts:192`), and the ordered pipeline
mediator pairs side data with actors by the position before it sorts them (`MediatorCombinePipeline.ts:86`).

**Algebra and joins.**  `REDUCED` hashes the values of terms only, and drops "1" beside 1.  `?x p* ?x` returns all terms that can be reached; with a graph variable
`p+` keeps its start and `p?` leaves the graph unbound in its zero part.  Optional-hash and minus-hash
treat an unbound join key as a value.  Multi-empty takes an estimate of zero for empty.  Joined and sliced cardinalities keep the label `exact` when
they were multiplied or rounded; COUNT of an empty group has a cardinality of zero that a join trusts.  `bindingsToCompactString` joins keys with the empty string.
Filter pushdown loses filters of projections, unions and values, and pushes below operations where a variable may be unbound; path pushdown
drops the graph; pruning looks for empty operations inside MINUS, EXISTS and GROUP.  `materializeOperation` binds through SLICE, ORDER BY with LIMIT, MINUS and LEFT JOIN.
DESCRIBE of an unbound variable matches everything.  EXTEND says that its variable is never undefined.  FROM keeps `GRAPH <g>` only for a `g` that FROM, not FROM NAMED, names.
A fragments source caches pages under a key without variable names; a SPARQL source counts without the graph and without equality of variables
and calls it exact (`QuerySourceSparql.ts:337`): of a pattern in a named graph whose predicate the default graph does not have it declares no solutions, which a join trusts.
The endpoint of `algebra` counts, and has its named predicates in the default graph too.
Blank nodes keep their skolemized form in VALUES, FILTER, ASK and the joins with bindings pushed down.

**Expressions.**  A quoted triple with an ill-typed literal is an error where a query spells it out, not when a variable is bound to it (`AlgebraTransformer.ts:21`,
`Helpers.ts:198`).  Casts to `xsd:integer` refuse a sign, `ENCODE_FOR_URI` encodes as a whole URI, SUBSTR from 0 counts from the end, an empty string is a valid number, a
promoted ill-typed literal is NaN.  TIME plus a duration keeps a hidden date; a zone of less than an hour loses its sign; `elapsedDuration` takes seconds for milliseconds.
SUM of one ill-typed number is that number, and AVG fails.  `COUNT(DISTINCT *)` joins terms with a comma.  The comparison of terms is not transitive across types, and `=` of
literals with a direction is always false.  `&&` and `||` evaluate their right operand a second time after an error.  The cache of overloads is shared by queries with different super-type providers.

### Not modelled

* *HTTP body retry* is a state machine of Node's streams (piping, back pressure, errors after close), which are not in the repository.
  *HTTP fetch, proxy, memento and wayback* map a request to a request.
* *VoID statistics*: the race of two requests that find them empty is a hazard without a property.
* *Parsing and serialization* of RDF, queries and results; *loggers*, *statistics*, *configurations*: conversions, output and data.
* The two-variable closure of `ActorAbstractPath` is computed in one step: its searches are those that `PathVariableObjectIterator` models.
* *Updates*: deletions, graph management and the writing of quads to a store.
* Of the joins `optional-optplus`, and of the operations `distinct-hash` and the wrapping of streams; the vector of quads of a source and the
  estimates of cardinality that RDF dataset descriptions give.
* Streams in `Joins`, `Sources` and `Evaluation` are finite sequences: when a join asks for its inputs, and what it does when
  it is destroyed, is not in the model.  Numbers are fractions without rounding; hashes are opaque.
