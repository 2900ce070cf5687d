--------------------------- MODULE SparqlEndpoint ---------------------------
(***************************************************************************)
(* HttpServiceSparqlEndpoint: a master process that forks workers, replaces*)
(* those that die and shuts down a worker when a query takes too long, and *)
(* the workers, each of which serves the HTTP requests it is handed.       *)
(*                                                                         *)
(* Master and workers run concurrently and talk over one IPC channel per   *)
(* worker.  Within a process an action is one callback, run to completion: *)
(* what a request handler awaits (its body, the engine, the serializer)    *)
(* separates its actions.  Any timer may fire at any time after it was set.*)
(* Node's http and cluster modules are modelled as far as this class relies*)
(* on them.                                                                *)
(***************************************************************************)
EXTENDS Integers, Sequences, FiniteSets

CONSTANTS Queries,    \* the HTTP requests
          Requests,   \* the kinds of requests the clients make
          PoolSize,   \* workers of the constructor
          MaxWorkers, \* bound: worker processes forked in all
          MaxCrashes, \* bound: workers that die of themselves
          NoWorker

ASSUME EndpointAssumption ==
  /\ PoolSize \in Nat \ {0}
  /\ MaxCrashes \in Nat
  /\ Requests \subseteq {"GET", "HEAD", "POST", "description", "page"}
  /\ MaxWorkers \in Nat /\ PoolSize <= MaxWorkers

Workers == 1..MaxWorkers

ASSUME NoWorkerAssumption == NoWorker \notin Workers

VARIABLES
  freshWorkerPerQuery,
  mode,      \* per worker: what its process is doing
  killed,    \* workers that died of SIGKILL (or with code 9)
  channel,   \* per worker: messages it sent and the master has not handled
  inbox,     \* per worker: what the master told it and it has not handled
  forked,    \* workers forked so far: 1..forked
  crashes,
  watched,   \* workers the master attached its listeners to
  reaped,    \* workers whose exit the master has seen
  lost,      \* those that exited before the listeners were attached
  exitedAfterDisconnect,  \* the flag of cluster.Worker, in the master
  timer,     \* per query: its entry in workerTimeouts
  worker,    \* per query: the worker that was handed the request
  kind,      \* per query: what it asks for
  phase,     \* per query: how far its handler is
  response,  \* per query: its HTTP response
  answer     \* per query: what ended its response

processVars == <<mode, killed, inbox>>
masterVars  == <<forked, watched, reaped, lost, exitedAfterDisconnect>>
requestVars == <<worker, kind>>
queryVars   == <<phase, response, answer>>
vars == <<freshWorkerPerQuery, processVars, channel, masterVars, crashes, timer,
          requestVars, queryVars>>

Modes == {"none", "starting", "listening",
          "stopping",     \* told to disconnect: serves what it has accepted
          "disconnected", \* has left the cluster, engine work may be left
          "terminating",  \* ends its connections one by one, then exits
          "exited"}
Phases == {"none", "parsing", "evaluating", "serializing", "streaming", "over",
           "unserializable"}  \* its handler threw while it reported that

Start(q) == [type |-> "start", query |-> q]
End(q)   == [type |-> "end", query |-> q]
Listening == [type |-> "listening"]

alive(w) == mode[w] \notin {"none", "exited"}
of(w) == {q \in Queries : worker[q] = w}
openConnectionsKept(w) == {q \in of(w) : response[q] # "none"}
openConnections(w) == {q \in of(w) : response[q] \in {"open", "ended"}}

(* The loop of runMaster. *)
forkedAtStartOffByOne == PoolSize - 1
forkedAtStart == PoolSize

Init ==
  /\ freshWorkerPerQuery \in BOOLEAN
  /\ mode = [w \in Workers |-> IF w <= forkedAtStart THEN "starting" ELSE "none"]
  /\ killed = {} /\ forked = forkedAtStart /\ crashes = 0
  /\ channel = [w \in Workers |-> <<>>] /\ inbox = [w \in Workers |-> {}]
  /\ watched = {} /\ reaped = {} /\ lost = {} /\ exitedAfterDisconnect = {}
  /\ timer = [q \in Queries |-> "none"]
  /\ worker = [q \in Queries |-> NoWorker] /\ kind = [q \in Queries |-> "none"]
  /\ phase = [q \in Queries |-> "none"] /\ response = [q \in Queries |-> "none"]
  /\ answer = [q \in Queries |-> "none"]

-----------------------------------------------------------------------------
(* How a worker process ends.                                              *)

(* process.exit: every connection of the worker breaks off. *)
ExitWith(w, ph, resp, ans) ==
  /\ mode' = [mode EXCEPT ![w] = "exited"]
  /\ phase' = [q \in Queries |-> IF worker[q] = w THEN "over" ELSE ph[q]]
  /\ response' = [q \in Queries |-> IF worker[q] = w THEN "closed" ELSE resp[q]]
  /\ answer' = [q \in Queries |->
                  IF worker[q] = w /\ resp[q] # "closed" THEN "lost" ELSE ans[q]]

(* The uncaughtException handler, which rejected handlers end up in too. *)
Uncaught(w) == mode' = [mode EXCEPT ![w] = "terminating"]

(* The 'close' event of a response, after which its answer is ans: the     *)
(* listeners of writeQueryResult and stopResponse, once attached, report   *)
(* the end of the query to the master, and a fresh worker exits at once.   *)
endMessageNever(q) == <<>>
endMessage(q) == IF kind[q] = "query" THEN <<End(q)>> ELSE <<>>

Close(q, ans) ==
  LET w == worker[q]
      closed == [response EXCEPT ![q] = "closed"]
  IN IF phase[q] # "streaming"
     THEN /\ response' = closed /\ answer' = ans
          /\ UNCHANGED <<mode, phase, channel>>
     ELSE /\ channel' = [channel EXCEPT ![w] = @ \o endMessage(q)]
          /\ IF freshWorkerPerQuery
             THEN ExitWith(w, phase, closed, ans)
             ELSE /\ response' = closed /\ answer' = ans
                  /\ phase' = [phase EXCEPT ![q] = "over"]
                  /\ UNCHANGED mode

-----------------------------------------------------------------------------
(* runWorker.                                                              *)

WorkerListens(w) ==
  /\ mode[w] = "starting"
  /\ mode' = [mode EXCEPT ![w] = "listening"]
  /\ channel' = [channel EXCEPT ![w] = Append(@, Listening)]
  /\ UNCHANGED <<freshWorkerPerQuery, killed, inbox, masterVars, crashes, timer,
                 requestVars, queryVars>>

(* 'shutdown': no new connections, and the open ones are ended one by one. *)
ReceiveShutdown(w) ==
  /\ "shutdown" \in inbox[w] /\ mode[w] \in {"listening", "stopping", "terminating"}
  /\ inbox' = [inbox EXCEPT ![w] = @ \ {"shutdown"}]
  /\ mode' = [mode EXCEPT ![w] = "terminating"]
  /\ UNCHANGED <<freshWorkerPerQuery, killed, channel, masterVars, crashes, timer,
                 requestVars, queryVars>>

(* cluster's own 'disconnect': the server closes, and the worker leaves    *)
(* the cluster when its connections are closed.                            *)
ReceiveDisconnect(w) ==
  /\ "disconnect" \in inbox[w]
  /\ mode[w] \in {"starting", "listening", "stopping", "terminating"}
  /\ inbox' = [inbox EXCEPT ![w] = @ \ {"disconnect"}]
  /\ mode' = [mode EXCEPT ![w] = IF @ = "terminating" THEN @ ELSE "stopping"]
  /\ UNCHANGED <<freshWorkerPerQuery, killed, channel, masterVars, crashes, timer,
                 requestVars, queryVars>>

LeaveCluster(w) ==
  /\ mode[w] = "stopping" /\ openConnections(w) = {}
  /\ mode' = [mode EXCEPT ![w] = "disconnected"]
  /\ UNCHANGED <<freshWorkerPerQuery, killed, inbox, channel, masterVars, crashes,
                 timer, requestVars, queryVars>>

(* A process outside the cluster exits when it has nothing left to do.     *)
ExitWhenIdle(w) ==
  /\ mode[w] = "disconnected"
  /\ \A q \in of(w) : phase[q] \notin {"evaluating", "serializing"}
  /\ ExitWith(w, phase, response, answer)
  /\ UNCHANGED <<freshWorkerPerQuery, killed, inbox, channel, masterVars, crashes,
                 timer, requestVars>>

(* connection.end('!TIMEDOUT!') or '!ERROR!', the next one only when the   *)
(* last has been written out.                                              *)
EndConnection(w, q) ==
  /\ mode[w] = "terminating"
  /\ worker[q] = w /\ response[q] = "open"
  /\ \A p \in of(w) : answer[p] = "cut" => response[p] = "closed"
  /\ response' = [response EXCEPT ![q] = "ended"]
  /\ answer' = [answer EXCEPT ![q] = "cut"]
  /\ UNCHANGED <<freshWorkerPerQuery, processVars, channel, masterVars, crashes,
                 timer, requestVars, phase>>

TerminateWorker(w) ==
  /\ mode[w] = "terminating" /\ openConnections(w) = {}
  /\ ExitWith(w, phase, response, answer)
  /\ UNCHANGED <<freshWorkerPerQuery, killed, inbox, channel, masterVars, crashes,
                 timer, requestVars>>

(* A worker that dies of itself, at any time. *)
Crash(w) ==
  /\ alive(w) /\ crashes < MaxCrashes
  /\ crashes' = crashes + 1
  /\ killed' \in {killed, killed \cup {w}}
  /\ ExitWith(w, phase, response, answer)
  /\ UNCHANGED <<freshWorkerPerQuery, inbox, channel, masterVars, timer, requestVars>>

-----------------------------------------------------------------------------
(* handleRequest and writeQueryResult.                                     *)

(* What the master hears of a query before the engine is asked. *)
StartEvaluatingUnreported(q, w) ==
  /\ phase' = [phase EXCEPT ![q] = "evaluating"]
  /\ UNCHANGED channel
StartEvaluating(q, w) ==
  /\ phase' = [phase EXCEPT ![q] = "evaluating"]
  /\ channel' = [channel EXCEPT ![w] = Append(@, Start(q))]

(* A request arrives: "page" stands for those answered at once (redirects, *)
(* 404, 405, the HTML view, the head of the service description).          *)
Request(q, w) ==
  /\ phase[q] = "none" /\ mode[w] = "listening"
  /\ worker' = [worker EXCEPT ![q] = w]
  /\ \/ \E r \in Requests \cap {"GET", "HEAD"} :
          /\ kind' = [kind EXCEPT ![q] = IF r = "HEAD" THEN "head" ELSE "query"]
          /\ response' = [response EXCEPT ![q] = "open"]
          /\ StartEvaluating(q, w)
          /\ UNCHANGED answer
     \/ /\ "POST" \in Requests
        /\ kind' = [kind EXCEPT ![q] = "query"]
        /\ response' = [response EXCEPT ![q] = "open"]
        /\ phase' = [phase EXCEPT ![q] = "parsing"]
        /\ UNCHANGED <<answer, channel>>
     \/ /\ "description" \in Requests
        /\ kind' = [kind EXCEPT ![q] = "description"]
        /\ response' = [response EXCEPT ![q] = "open"]
        /\ phase' = [phase EXCEPT ![q] = "serializing"]
        /\ UNCHANGED <<answer, channel>>
     \/ /\ "page" \in Requests
        /\ kind' = [kind EXCEPT ![q] = "page"]
        /\ response' = [response EXCEPT ![q] = "ended"]
        /\ phase' = [phase EXCEPT ![q] = "over"]
        /\ answer' = [answer EXCEPT ![q] = "result"]
        /\ UNCHANGED channel
  /\ UNCHANGED <<freshWorkerPerQuery, processVars, masterVars, crashes, timer>>

BodyParsed(q) ==
  /\ phase[q] = "parsing" /\ response[q] # "closed"
  /\ StartEvaluating(q, worker[q])
  /\ UNCHANGED <<freshWorkerPerQuery, processVars, masterVars, crashes, timer,
                 requestVars, response, answer>>

(* parseBody rejects: an invalid body, or a client that went away. *)
BodyRejected(q) ==
  /\ phase[q] = "parsing"
  /\ phase' = [phase EXCEPT ![q] = "over"]
  /\ Uncaught(worker[q])
  /\ UNCHANGED <<freshWorkerPerQuery, killed, inbox, channel, masterVars, crashes,
                 timer, requestVars, response, answer>>

(* writeHead throws when the response was ended under the handler. *)
headersSent(q) == answer[q] = "cut"

WriteHeadThrows(q) ==
  /\ phase' = [phase EXCEPT ![q] = "over"]
  /\ Uncaught(worker[q])
  /\ UNCHANGED <<response, answer>>

(* response.end by the handler itself; a closed response stays closed. *)
Respond(q, a) ==
  IF response[q] = "open"
  THEN /\ response' = [response EXCEPT ![q] = "ended"]
       /\ answer' = [answer EXCEPT ![q] = a]
  ELSE UNCHANGED <<response, answer>>

(* engine.query (and execute, for an update) resolves. *)
EvaluationResolves(q) ==
  /\ phase[q] = "evaluating"
  /\ \/ /\ headersSent(q)
        /\ WriteHeadThrows(q)
     \/ /\ ~headersSent(q) /\ kind[q] = "head"
        /\ phase' = [phase EXCEPT ![q] = "over"]
        /\ Respond(q, "result")
        /\ UNCHANGED mode
     \/ /\ ~headersSent(q) /\ kind[q] = "query"
        /\ phase' = [phase EXCEPT ![q] = "serializing"]
        /\ UNCHANGED <<mode, response, answer>>
  /\ UNCHANGED <<freshWorkerPerQuery, killed, inbox, channel, masterVars, crashes,
                 timer, requestVars>>

(* ... or rejects: a 400, and the handler returns. *)
EvaluationRejects(q) ==
  /\ phase[q] = "evaluating"
  /\ IF headersSent(q)
     THEN WriteHeadThrows(q)
     ELSE /\ phase' = [phase EXCEPT ![q] = "over"]
          /\ Respond(q, "error")
          /\ UNCHANGED mode
  /\ UNCHANGED <<freshWorkerPerQuery, killed, inbox, channel, masterVars, crashes,
                 timer, requestVars>>

(* resultToString resolves: the listeners are attached and data flows. *)
SerializationResolves(q) ==
  /\ phase[q] = "serializing"
  /\ phase' = [phase EXCEPT ![q] = "streaming"]
  /\ UNCHANGED <<freshWorkerPerQuery, processVars, channel, masterVars, crashes,
                 timer, requestVars, response, answer>>

(* ... or rejects: the 400 comes after writeHead(200), and so throws.      *)
SerializationRejects(q) ==
  /\ phase[q] = "serializing"
  /\ phase' = [phase EXCEPT ![q] = "unserializable"]
  /\ Uncaught(worker[q])
  /\ UNCHANGED <<freshWorkerPerQuery, killed, inbox, channel, masterVars, crashes,
                 timer, requestVars, response, answer>>

(* The result stream ends or fails. *)
ResultEnds(q) ==
  /\ phase[q] = "streaming" /\ response[q] = "open"
  /\ \E a \in {"result", "error"} : Respond(q, a)
  /\ UNCHANGED <<freshWorkerPerQuery, processVars, channel, masterVars, crashes,
                 timer, requestVars, phase>>

(* The ended response has been written out. *)
ResponseCloses(q) ==
  /\ response[q] = "ended"
  /\ Close(q, answer)
  /\ UNCHANGED <<freshWorkerPerQuery, killed, inbox, masterVars, crashes, timer,
                 requestVars>>

ClientDisconnects(q) ==
  /\ response[q] \in {"open", "ended"}
  /\ Close(q, [answer EXCEPT ![q] = "lost"])
  /\ UNCHANGED <<freshWorkerPerQuery, killed, inbox, masterVars, crashes, timer,
                 requestVars>>

-----------------------------------------------------------------------------
(* runMaster.                                                              *)

(* The messages of a worker, in order. *)
ReceiveMessage(w) ==
  /\ channel[w] # <<>>
  /\ channel' = [channel EXCEPT ![w] = Tail(@)]
  /\ LET m == Head(channel[w]) IN
     \/ /\ m.type = "listening"
        /\ watched' = watched \cup {w}
        /\ UNCHANGED timer
     \/ /\ m.type = "start"
        /\ timer' = [timer EXCEPT ![m.query] = "armed"]
        /\ UNCHANGED watched
     \/ /\ m.type = "end"
        /\ timer' = [timer EXCEPT ![m.query] = IF @ = "armed" THEN "cleared" ELSE @]
        /\ UNCHANGED watched
  /\ UNCHANGED <<freshWorkerPerQuery, processVars, forked, reaped, lost,
                 exitedAfterDisconnect, crashes, requestVars, queryVars>>

isConnected(w) == mode[w] \notin {"disconnected", "exited"}

(* The timer of a query fires: its worker is told to shut down. *)
TimeOut(q) ==
  /\ timer[q] = "armed"
  /\ timer' = [timer EXCEPT ![q] = "fired"]
  /\ inbox' = IF isConnected(worker[q])
              THEN [inbox EXCEPT ![worker[q]] = @ \cup {"shutdown"}]
              ELSE inbox
  /\ UNCHANGED <<freshWorkerPerQuery, mode, killed, channel, masterVars, crashes,
                 requestVars, queryVars>>

(* cluster.disconnect: every worker still in the cluster is told to leave. *)
disconnect ==
  LET there == {w \in 1..forked : w \notin reaped} IN
  /\ exitedAfterDisconnect' = exitedAfterDisconnect \cup there
  /\ inbox' = [w \in Workers |->
                 IF w \in there THEN inbox[w] \cup {"disconnect"} ELSE inbox[w]]

fork ==
  /\ forked < MaxWorkers
  /\ forked' = forked + 1
  /\ mode' = [mode EXCEPT ![forked + 1] = "starting"]

(* The exit event: a worker that died is replaced, unless it was killed:   *)
(* then the master goes down as well.                                      *)
respawnsUnlessKilled(w) == w \notin killed
respawns(w) == w \notin exitedAfterDisconnect /\ w \notin killed

WorkerExits(w) ==
  /\ mode[w] = "exited" /\ w \notin reaped
  /\ reaped' = reaped \cup {w}
  /\ IF w \notin watched
     THEN lost' = lost \cup {w} /\ UNCHANGED <<mode, inbox, forked, exitedAfterDisconnect>>
     ELSE /\ UNCHANGED lost
          /\ \/ /\ respawns(w)
                /\ fork
                /\ UNCHANGED <<inbox, exitedAfterDisconnect>>
             \/ /\ ~respawns(w) /\ w \notin exitedAfterDisconnect
                /\ disconnect
                /\ UNCHANGED <<mode, forked>>
             \/ /\ ~respawns(w) /\ w \in exitedAfterDisconnect
                /\ UNCHANGED <<mode, inbox, forked, exitedAfterDisconnect>>
  /\ UNCHANGED <<freshWorkerPerQuery, killed, channel, watched, crashes, timer,
                 requestVars, queryVars>>

Sigint ==
  /\ exitedAfterDisconnect = {}
  /\ disconnect
  /\ UNCHANGED <<freshWorkerPerQuery, mode, killed, channel, forked, watched, reaped,
                 lost, crashes, timer, requestVars, queryVars>>

-----------------------------------------------------------------------------
WorkerStep ==
  \E w \in Workers :
    \/ WorkerListens(w) \/ ReceiveShutdown(w) \/ ReceiveDisconnect(w)
    \/ LeaveCluster(w) \/ ExitWhenIdle(w) \/ TerminateWorker(w) \/ Crash(w)
    \/ \E q \in Queries : EndConnection(w, q) \/ Request(q, w)

HandlerStep ==
  \E q \in Queries :
    \/ BodyParsed(q) \/ BodyRejected(q)
    \/ EvaluationResolves(q) \/ EvaluationRejects(q)
    \/ SerializationResolves(q) \/ SerializationRejects(q)
    \/ ResultEnds(q) \/ ResponseCloses(q) \/ ClientDisconnects(q)

MasterStep ==
  \/ \E w \in Workers : ReceiveMessage(w) \/ WorkerExits(w)
  \/ \E q \in Queries : TimeOut(q)
  \/ Sigint

Next == WorkerStep \/ HandlerStep \/ MasterStep

Spec == Init /\ [][Next]_vars

(* Messages arrive, timers fire, bodies come in or break off and responses *)
(* are read or broken off.  Nothing is asked of the engine: it may hang.   *)
Fairness ==
  /\ \A w \in Workers :
       /\ WF_vars(WorkerListens(w))
       /\ WF_vars(ReceiveShutdown(w)) /\ WF_vars(ReceiveDisconnect(w))
       /\ WF_vars(LeaveCluster(w)) /\ WF_vars(ExitWhenIdle(w))
       /\ WF_vars(TerminateWorker(w))
       /\ WF_vars(\E q \in Queries : EndConnection(w, q))
       /\ WF_vars(ReceiveMessage(w)) /\ WF_vars(WorkerExits(w))
  /\ \A q \in Queries :
       /\ WF_vars(BodyParsed(q) \/ BodyRejected(q))
       /\ WF_vars(ResponseCloses(q)) /\ WF_vars(TimeOut(q))

FairSpec == Spec /\ Fairness

-----------------------------------------------------------------------------
Messages == {Listening} \cup {Start(q) : q \in Queries} \cup {End(q) : q \in Queries}

TypeOK ==
  /\ freshWorkerPerQuery \in BOOLEAN
  /\ mode \in [Workers -> Modes]
  /\ killed \subseteq Workers /\ inbox \in [Workers -> SUBSET {"shutdown", "disconnect"}]
  /\ channel \in [Workers -> Seq(Messages)]
  /\ forked \in PoolSize..MaxWorkers /\ crashes \in 0..MaxCrashes
  /\ watched \subseteq Workers /\ reaped \subseteq Workers /\ lost \subseteq reaped
  /\ exitedAfterDisconnect \subseteq Workers
  /\ timer \in [Queries -> {"none", "armed", "fired", "cleared"}]
  /\ worker \in [Queries -> Workers \cup {NoWorker}]
  /\ kind \in [Queries -> {"none", "query", "head", "description", "page"}]
  /\ phase \in [Queries -> Phases]
  /\ response \in [Queries -> {"none", "open", "ended", "closed"}]
  /\ answer \in [Queries -> {"none", "result", "error", "cut", "lost"}]

underWay(m, w) == \E i \in 1..Len(channel[w]) : channel[w][i] = m

isQuery(q) == kind[q] \in {"query", "head"}
ongoing(q) == phase[q] \in {"evaluating", "serializing", "streaming"}

(* No query of a serving worker escapes the time limit: the master has a   *)
(* timer for it or will set one, or has told the worker to shut down.      *)
TimersCoverQueries ==
  \A q \in Queries :
    LET w == worker[q] IN
    isQuery(q) /\ ongoing(q) /\ mode[w] \in {"listening", "stopping"} =>
      underWay(Start(q), w) \/ timer[q] = "armed" \/ "shutdown" \in inbox[w]

(* The timer of a query whose result was delivered does not stay behind:   *)
(* the message that clears it is on its way to the master.                 *)
CompletedQueriesAreReported ==
  \A q \in Queries :
    kind[q] = "query" /\ answer[q] = "result" /\ response[q] = "closed"
      /\ timer[q] = "armed" => underWay(End(q), worker[q])

(* When the master takes the cluster down, on SIGINT or because a worker   *)
(* was killed, no worker is forked any more, whatever crashes meanwhile.   *)
NoForkAfterDisconnect ==
  [][exitedAfterDisconnect # {} => forked' = forked]_vars

(* The time limit holds although the engine may never answer: the          *)
(* connection of a query is closed in the end.                             *)
EveryQueryIsBounded ==
  \A q \in Queries :
    (isQuery(q) /\ response[q] = "open") ~> (response[q] = "closed")

(* There is always a worker that serves again, whatever shutdowns, crashes *)
(* and uncaught errors happened, unless the master took the cluster down or*)
(* a worker died before the master listened to it.                         *)
ServiceRestored ==
  []<>(\/ \E w \in Workers : mode[w] = "listening"
       \/ exitedAfterDisconnect # {} \/ lost # {})

(* What no timer reaches: service descriptions, and the engine work of a   *)
(* query whose client left before its worker did.                          *)
unsupervised(q) ==
  ongoing(q) /\ (kind[q] = "description" \/ mode[worker[q]] = "disconnected")

(* After SIGINT every worker exits, timing out what hangs, except for work *)
(* that no timer reaches.                                                  *)
CleanTermination ==
  (exitedAfterDisconnect # {}) ~>
    (\A w \in 1..forked : mode[w] = "exited" \/ \E q \in of(w) : unsupervised(q))

=============================================================================
