------------------------ MODULE SparqlEndpoint_proof ------------------------
(* Proofs about SparqlEndpoint, for any queries and kinds of requests, any *)
(* size of the pool and any number of workers and crashes.                 *)
EXTENDS SparqlEndpoint, TLAPS

-----------------------------------------------------------------------------
(* The inductive invariant.                                                *)

(* The messages that a worker sent and the master has not handled. *)
Pending == [w \in Workers |-> {channel[w][i] : i \in 1..Len(channel[w])}]

(* Queries whose end, if their start is on its way, is on its way after it. *)
Concluded ==
  [w \in Workers |->
    {q \in Queries : \A i \in 1..Len(channel[w]) : channel[w][i] = Start(q) =>
                       \E j \in 1..Len(channel[w]) : j > i /\ channel[w][j] = End(q)}]

(* The workers are 1..forked. *)
WorkersForked == \A w \in Workers : w > forked => mode[w] = "none"

(* Only a worker that has listened was handed requests. *)
RequestsPlaced ==
  \A q \in Queries :
    IF phase[q] = "none"
    THEN /\ worker[q] = NoWorker
         /\ kind[q] = "none" /\ response[q] = "none" /\ answer[q] = "none"
    ELSE worker[q] \in Workers /\ mode[worker[q]] \notin {"none", "starting"}

(* A worker reports its own queries only, and their end when they are over. *)
MessagesOfOwn ==
  \A w \in Workers, q \in Queries :
    /\ Start(q) \in Pending[w] => worker[q] = w
    /\ End(q) \in Pending[w] => worker[q] = w /\ phase[q] = "over"

(* The result of a query is ended by its stream alone. *)
ResultsStreamed ==
  \A q \in Queries :
    kind[q] = "query" /\ answer[q] = "result" /\ response[q] = "ended" =>
      phase[q] = "streaming"

(* The report of a delivered query comes after its start. *)
DeliveriesReported ==
  \A q \in Queries :
    kind[q] = "query" /\ answer[q] = "result" /\ response[q] = "closed" =>
      /\ timer[q] = "armed" => End(q) \in Pending[worker[q]]
      /\ q \in Concluded[worker[q]]

(* TimersCoverQueries, in terms of Pending. *)
TimersSet ==
  \A q \in Queries :
    isQuery(q) /\ ongoing(q) /\ mode[worker[q]] \in {"listening", "stopping"} =>
      \/ Start(q) \in Pending[worker[q]]
      \/ timer[q] = "armed"
      \/ "shutdown" \in inbox[worker[q]]

(* Once the cluster goes down, every worker that is left was told to leave. *)
AllDisconnected ==
  exitedAfterDisconnect # {} => (1..forked) \ reaped \subseteq exitedAfterDisconnect

Inv ==
  /\ TypeOK /\ WorkersForked /\ RequestsPlaced /\ MessagesOfOwn
  /\ ResultsStreamed /\ DeliveriesReported /\ TimersSet /\ AllDisconnected

-----------------------------------------------------------------------------
(* Channels.                                                               *)

LEMMA MessageFacts ==
  /\ Listening \in Messages
  /\ \A q \in Queries :
       /\ Start(q) \in Messages /\ End(q) \in Messages
       /\ Listening # Start(q) /\ Listening # End(q)
       /\ \A p \in Queries :
            /\ Start(q) # End(p)
            /\ Start(q) = Start(p) => q = p
            /\ End(q) = End(p) => q = p
<1>1. \A q \in Queries : Start(q).type = "start" /\ End(q).type = "end"
                         /\ Start(q).query = q /\ End(q).query = q
  BY DEF Start, End
<1>2. Listening.type = "listening"
  BY DEF Listening
<1>3. \A q, p \in Queries : Start(q) # End(p)
  BY <1>1
<1>4. \A q \in Queries : Listening # Start(q) /\ Listening # End(q)
  BY <1>1, <1>2
<1>5. \A q, p \in Queries :
        (Start(q) = Start(p) => q = p) /\ (End(q) = End(p) => q = p)
  BY <1>1
<1> QED  BY <1>3, <1>4, <1>5 DEF Messages

LEMMA ChannelSame ==
  ASSUME channel' = channel
  PROVE  Pending' = Pending /\ Concluded' = Concluded
BY DEF Pending, Concluded

LEMMA ChannelAppend ==
  ASSUME channel \in [Workers -> Seq(Messages)],
         NEW w \in Workers, NEW m \in Messages,
         channel' = [channel EXCEPT ![w] = Append(@, m)]
  PROVE  /\ channel' \in [Workers -> Seq(Messages)]
         /\ Pending'[w] = Pending[w] \cup {m}
         /\ \A v \in Workers : v # w => Pending'[v] = Pending[v]
         /\ \A q \in Queries, v \in Workers :
              q \in Concluded[v] /\ m # Start(q) => q \in Concluded'[v]
         /\ \A q \in Queries : m = End(q) => q \in Concluded'[w]
<1> DEFINE s == channel[w]
           t == Append(s, m)
<1>1. s \in Seq(Messages) /\ channel'[w] = t /\ \A v \in Workers : v # w => channel'[v] = channel[v]
  OBVIOUS
<1>2. /\ t \in Seq(Messages) /\ Len(s) \in Nat /\ Len(t) = Len(s) + 1 /\ t[Len(s) + 1] = m
      /\ \A i \in 1..Len(s) : t[i] = s[i]
  BY <1>1
<1>3. channel' \in [Workers -> Seq(Messages)]
  BY <1>1, <1>2
<1> HIDE DEF t
<1>4. {t[i] : i \in 1..Len(t)} = {s[i] : i \in 1..Len(s)} \cup {m}
  <2>1. \A i \in 1..Len(t) : i \in 1..Len(s) \/ i = Len(s) + 1
    BY <1>2
  <2>2. \A i \in 1..Len(s) : i \in 1..Len(t)
    BY <1>2
  <2>3. Len(s) + 1 \in 1..Len(t)
    BY <1>2
  <2> QED  BY <1>2, <2>1, <2>2, <2>3
<1>5. /\ Pending'[w] = Pending[w] \cup {m}
      /\ \A v \in Workers : v # w => Pending'[v] = Pending[v]
  <2>1. Pending[w] = {s[i] : i \in 1..Len(s)} /\ Pending'[w] = {t[i] : i \in 1..Len(t)}
    BY <1>1 DEF Pending
  <2>2. \A v \in Workers : v # w => Pending'[v] = Pending[v]
    BY <1>1 DEF Pending
  <2> QED  BY <1>4, <2>1, <2>2
<1>6. \A q \in Queries, v \in Workers : v # w => (q \in Concluded[v] <=> q \in Concluded'[v])
  BY <1>1 DEF Concluded
<1>7. ASSUME NEW q \in Queries, (q \in Concluded[w] /\ m # Start(q)) \/ m = End(q)
      PROVE  q \in Concluded'[w]
  <2> SUFFICES ASSUME NEW i \in 1..Len(t), t[i] = Start(q)
               PROVE  \E j \in 1..Len(t) : j > i /\ t[j] = End(q)
    BY <1>1 DEF Concluded
  <2>1. m # Start(q)
    BY <1>7, MessageFacts
  <2>2. i \in 1..Len(s) /\ s[i] = Start(q)
    BY <1>2, <2>1
  <2>3. CASE m = End(q)
    BY <1>2, <2>2, <2>3
  <2>4. CASE q \in Concluded[w]
    <3>1. PICK j \in 1..Len(s) : j > i /\ s[j] = End(q)
      BY <2>2, <2>4 DEF Concluded
    <3> QED  BY <1>2, <3>1
  <2> QED  BY <1>7, <2>3, <2>4
<1> QED  BY <1>3, <1>5, <1>6, <1>7

LEMMA ChannelTail ==
  ASSUME channel \in [Workers -> Seq(Messages)],
         NEW w \in Workers, channel[w] # <<>>,
         channel' = [channel EXCEPT ![w] = Tail(@)]
  PROVE  /\ channel' \in [Workers -> Seq(Messages)]
         /\ Head(channel[w]) \in Messages /\ Head(channel[w]) \in Pending[w]
         /\ \A v \in Workers : v # w => Pending'[v] = Pending[v]
         /\ Pending'[w] \subseteq Pending[w]
         /\ Pending[w] \subseteq Pending'[w] \cup {Head(channel[w])}
         /\ \A v \in Workers : Concluded[v] \subseteq Concluded'[v]
         /\ \A q \in Concluded[w] : Head(channel[w]) = Start(q) => End(q) \in Pending'[w]
<1> DEFINE s == channel[w]
           t == Tail(s)
<1>1. s \in Seq(Messages) /\ s # <<>> /\ channel'[w] = t
      /\ \A v \in Workers : v # w => channel'[v] = channel[v]
  OBVIOUS
<1>2. /\ t \in Seq(Messages) /\ Len(t) \in Nat /\ Len(s) = Len(t) + 1
      /\ Head(s) \in Messages /\ Head(s) = s[1]
      /\ \A i \in 1..Len(t) : t[i] = s[i + 1]
  BY <1>1
<1>3. channel' \in [Workers -> Seq(Messages)]
  BY <1>1, <1>2
<1> HIDE DEF t
<1>4. /\ \A i \in 1..Len(t) : i + 1 \in 1..Len(s)
      /\ \A i \in 1..Len(s) : i = 1 \/ (i - 1 \in 1..Len(t) /\ t[i - 1] = s[i])
      /\ 1 \in 1..Len(s)
  <2>1. ASSUME NEW i \in 1..Len(s), i # 1
        PROVE  i - 1 \in 1..Len(t) /\ t[i - 1] = s[i]
    <3>1. i - 1 \in 1..Len(t) /\ (i - 1) + 1 = i
      BY <1>2, <2>1
    <3>2. t[i - 1] = s[(i - 1) + 1]
      BY <1>2, <3>1
    <3> QED  BY <3>1, <3>2
  <2> QED  BY <1>2, <2>1
<1>5. /\ Pending[w] = {s[i] : i \in 1..Len(s)} /\ Pending'[w] = {t[i] : i \in 1..Len(t)}
      /\ \A v \in Workers : v # w => Pending'[v] = Pending[v]
  BY <1>1 DEF Pending
<1>6. /\ Head(s) \in Pending[w]
      /\ Pending'[w] \subseteq Pending[w]
      /\ Pending[w] \subseteq Pending'[w] \cup {Head(s)}
  <2>1. \A i \in 1..Len(t) : t[i] \in Pending[w]
    BY <1>2, <1>4, <1>5
  <2>2. \A i \in 1..Len(s) : s[i] \in Pending'[w] \cup {Head(s)}
    BY <1>2, <1>4, <1>5
  <2> QED  BY <1>2, <1>4, <1>5, <2>1, <2>2
<1>7. ASSUME NEW v \in Workers, NEW q \in Concluded[v]
      PROVE  q \in Concluded'[v]
  <2>1. CASE v # w
    BY <1>1, <2>1, <1>7 DEF Concluded
  <2>2. CASE v = w
    <3>1. q \in Queries
      BY <1>7 DEF Concluded
    <3>2. ASSUME NEW i \in 1..Len(t), t[i] = Start(q)
          PROVE  \E j \in 1..Len(t) : j > i /\ t[j] = End(q)
      <4>1. i + 1 \in 1..Len(s) /\ s[i + 1] = Start(q)
        BY <1>2, <1>4, <3>2
      <4>2. PICK j \in 1..Len(s) : j > i + 1 /\ s[j] = End(q)
        BY <1>7, <2>2, <4>1 DEF Concluded
      <4>3. j - 1 \in 1..Len(t) /\ t[j - 1] = End(q) /\ j - 1 > i
        BY <1>2, <1>4, <4>2
      <4> QED  BY <4>3
    <3>3. \A i \in 1..Len(channel'[w]) : channel'[w][i] = Start(q) =>
            \E j \in 1..Len(channel'[w]) : j > i /\ channel'[w][j] = End(q)
      BY <1>1, <3>2
    <3> QED  BY <2>2, <3>1, <3>3 DEF Concluded
  <2> QED  BY <2>1, <2>2
<1>8. ASSUME NEW q \in Concluded[w], Head(s) = Start(q)
      PROVE  End(q) \in Pending'[w]
  <2>1. PICK j \in 1..Len(s) : j > 1 /\ s[j] = End(q)
    BY <1>2, <1>4, <1>8 DEF Concluded
  <2>2. j - 1 \in 1..Len(t) /\ t[j - 1] = End(q)
    BY <1>4, <2>1
  <2> QED  BY <1>5, <2>2
<1> QED  BY <1>2, <1>3, <1>5, <1>6, <1>7, <1>8

-----------------------------------------------------------------------------
(* Every step keeps the invariant.                                         *)

LEMMA ValueFacts ==
  /\ "none" \in Phases /\ "parsing" \in Phases /\ "evaluating" \in Phases
  /\ "serializing" \in Phases /\ "streaming" \in Phases /\ "over" \in Phases
  /\ "unserializable" \in Phases
  /\ "none" \in Modes /\ "starting" \in Modes /\ "listening" \in Modes
  /\ "stopping" \in Modes /\ "disconnected" \in Modes /\ "terminating" \in Modes
  /\ "exited" \in Modes
BY DEF Phases, Modes

LEMMA MessageKinds ==
  ASSUME TypeOK, NEW w \in Workers, channel[w] # <<>>
  PROVE  LET m == Head(channel[w]) IN
         \/ m = Listening /\ m.type = "listening"
         \/ m.type = "start" /\ m.query \in Queries /\ m = Start(m.query)
         \/ m.type = "end" /\ m.query \in Queries /\ m = End(m.query)
<1>1. Head(channel[w]) \in Messages
  BY DEF TypeOK
<1> QED  BY <1>1 DEF Messages, Listening, Start, End

LEMMA ChannelTyped == TypeOK => channel \in [Workers -> Seq(Messages)]
BY DEF TypeOK

LEMMA ForkedFacts ==
  ASSUME TypeOK
  PROVE  /\ 1..forked \subseteq Workers /\ forked \in Nat /\ PoolSize \in Nat /\ MaxWorkers \in Nat
         /\ \A w \in Workers : w \in Nat /\ (w \in 1..forked <=> w <= forked)
BY EndpointAssumption DEF TypeOK, Workers

(* What the close of a response does, for any new answers. *)
LEMMA Closing ==
  ASSUME TypeOK, NEW q \in Queries, NEW ans, Close(q, ans), worker[q] \in Workers,
         ans \in [Queries -> {"none", "result", "error", "cut", "lost"}]
  PROVE  /\ mode' \in [Workers -> Modes]
         /\ phase' \in [Queries -> Phases]
         /\ response' \in [Queries -> {"none", "open", "ended", "closed"}]
         /\ answer' \in [Queries -> {"none", "result", "error", "cut", "lost"}]
         /\ channel' \in [Workers -> Seq(Messages)]
         /\ IF phase[q] = "streaming" /\ kind[q] = "query"
            THEN channel' = [channel EXCEPT ![worker[q]] = Append(@, End(q))]
            ELSE channel' = channel
<1> DEFINE w == worker[q]
<1>1. channel[w] \in Seq(Messages)
  BY DEF TypeOK
<1>2. channel[w] \o <<>> = channel[w] /\ channel[w] \o <<End(q)>> = Append(channel[w], End(q))
  BY <1>1, MessageFacts
<1>3. IF phase[q] = "streaming" /\ kind[q] = "query"
      THEN channel' = [channel EXCEPT ![w] = Append(@, End(q))]
      ELSE channel' = channel
  <2>1. CASE phase[q] # "streaming"
    BY <2>1 DEF Close
  <2>2. CASE phase[q] = "streaming"
    <3>1. channel' = [channel EXCEPT ![w] = @ \o endMessage(q)]
      BY <2>2 DEF Close
    <3>2. CASE kind[q] = "query"
      BY <1>2, <2>2, <3>1, <3>2 DEF endMessage
    <3>3. CASE kind[q] # "query"
      BY <1>2, <2>2, <3>1, <3>3 DEF endMessage, TypeOK
    <3> QED  BY <3>2, <3>3
  <2> QED  BY <2>1, <2>2
<1>4. channel' \in [Workers -> Seq(Messages)]
  BY <1>3, MessageFacts, ChannelAppend DEF TypeOK
<1>5. mode' \in [Workers -> Modes]
  <2>1. mode' = mode \/ mode' = [mode EXCEPT ![w] = "exited"]
    BY DEF Close, ExitWith
  <2> QED  BY <2>1, ValueFacts DEF TypeOK
<1>8. phase' \in [Queries -> Phases]
  <2>1. \/ phase' = phase \/ phase' = [phase EXCEPT ![q] = "over"]
        \/ phase' = [p \in Queries |-> IF worker[p] = w THEN "over" ELSE phase[p]]
    BY DEF Close, ExitWith
  <2> QED  BY <2>1, ValueFacts DEF TypeOK
<1>6. response' \in [Queries -> {"none", "open", "ended", "closed"}]
  BY DEF Close, ExitWith, TypeOK
<1>7. answer' \in [Queries -> {"none", "result", "error", "cut", "lost"}]
  BY DEF Close, ExitWith, TypeOK
<1> QED  BY <1>3, <1>4, <1>5, <1>6, <1>7, <1>8

LEMMA TypeStep ==
  ASSUME TypeOK, RequestsPlaced, [Next]_vars
  PROVE  TypeOK'
<1>1. ASSUME NEW w \in Workers, WorkerListens(w)
      PROVE  TypeOK'
  <2>1. mode' \in [Workers -> Modes]
    BY <1>1, ValueFacts DEF WorkerListens, TypeOK
  <2>2. channel' \in [Workers -> Seq(Messages)]
    BY <1>1, MessageFacts, ChannelAppend DEF WorkerListens, TypeOK
  <2> QED  BY <1>1, <2>1, <2>2 DEF WorkerListens, masterVars, requestVars,
       queryVars, TypeOK
<1>2. ASSUME NEW w \in Workers, ReceiveShutdown(w)
      PROVE  TypeOK'
  BY <1>2, ValueFacts, EndpointAssumption DEF ReceiveShutdown, masterVars,
       requestVars, queryVars, TypeOK
<1>3. ASSUME NEW w \in Workers, ReceiveDisconnect(w)
      PROVE  TypeOK'
  BY <1>3, ValueFacts, EndpointAssumption DEF ReceiveDisconnect, masterVars,
       requestVars, queryVars, TypeOK
<1>4. ASSUME NEW w \in Workers, LeaveCluster(w)
      PROVE  TypeOK'
  BY <1>4, ValueFacts, EndpointAssumption DEF LeaveCluster, masterVars,
       requestVars, queryVars, TypeOK
<1>5. ASSUME NEW w \in Workers, ExitWhenIdle(w)
      PROVE  TypeOK'
  BY <1>5, ValueFacts, EndpointAssumption DEF ExitWhenIdle, ExitWith,
       masterVars, requestVars, TypeOK
<1>6. ASSUME NEW w \in Workers, TerminateWorker(w)
      PROVE  TypeOK'
  BY <1>6, ValueFacts, EndpointAssumption DEF TerminateWorker, ExitWith,
       masterVars, requestVars, TypeOK
<1>7. ASSUME NEW w \in Workers, Crash(w)
      PROVE  TypeOK'
  BY <1>7, ValueFacts, EndpointAssumption DEF Crash, ExitWith, alive,
       masterVars, requestVars, TypeOK
<1>8. ASSUME NEW w \in Workers, NEW q \in Queries, EndConnection(w, q)
      PROVE  TypeOK'
  BY <1>8, ValueFacts, EndpointAssumption DEF EndConnection, processVars,
       masterVars, requestVars, TypeOK
<1>9. ASSUME NEW q \in Queries, NEW w \in Workers, Request(q, w)
      PROVE  TypeOK'
  <2>1. channel' \in [Workers -> Seq(Messages)]
    <3>1. CASE UNCHANGED channel
      BY <3>1 DEF TypeOK
    <3>2. CASE channel' = [channel EXCEPT ![w] = Append(@, Start(q))]
      BY <3>2, MessageFacts, ChannelAppend DEF TypeOK
    <3> QED  BY <1>9, <3>1, <3>2 DEF Request, StartEvaluating
  <2>2. kind' \in [Queries -> {"none", "query", "head", "description", "page"}]
    BY <1>9, ValueFacts DEF Request, StartEvaluating, TypeOK
  <2>3. response' \in [Queries -> {"none", "open", "ended", "closed"}]
    BY <1>9, ValueFacts DEF Request, StartEvaluating, TypeOK
  <2>4. answer' \in [Queries -> {"none", "result", "error", "cut", "lost"}]
    BY <1>9, ValueFacts DEF Request, StartEvaluating, TypeOK
  <2>5. phase' \in [Queries -> Phases]
    <3>1. \E v \in {"evaluating", "parsing", "serializing", "over"} :
            phase' = [phase EXCEPT ![q] = v]
      BY <1>9 DEF Request, StartEvaluating
    <3> QED  BY <3>1, ValueFacts DEF TypeOK
  <2>6. worker' \in [Queries -> Workers \cup {NoWorker}]
    BY <1>9, ValueFacts DEF Request, StartEvaluating, TypeOK
  <2> QED  BY <1>9, <2>1, <2>2, <2>3, <2>4, <2>5, <2>6 DEF Request, processVars,
       masterVars, TypeOK
<1>10. ASSUME NEW q \in Queries, BodyParsed(q)
       PROVE  TypeOK'
  <2>1. channel' \in [Workers -> Seq(Messages)]
    <3>1. worker[q] \in Workers
      BY <1>10 DEF BodyParsed, RequestsPlaced
    <3> QED  BY <1>10, <3>1, MessageFacts, ChannelAppend DEF BodyParsed, StartEvaluating, TypeOK
  <2>2. phase' \in [Queries -> Phases]
    BY <1>10, ValueFacts DEF BodyParsed, StartEvaluating, TypeOK
  <2> QED  BY <1>10, <2>1, <2>2 DEF BodyParsed, processVars, masterVars,
       requestVars, TypeOK
<1>11. ASSUME NEW q \in Queries, BodyRejected(q)
       PROVE  TypeOK'
  BY <1>11, ValueFacts, EndpointAssumption DEF BodyRejected, Uncaught,
       masterVars, requestVars, TypeOK
<1>12. ASSUME NEW q \in Queries, EvaluationResolves(q)
       PROVE  TypeOK'
  <2>1. mode' \in [Workers -> Modes]
    BY <1>12, ValueFacts DEF EvaluationResolves, WriteHeadThrows, Uncaught,
         Respond, headersSent, TypeOK
  <2>2. phase' \in [Queries -> Phases]
    BY <1>12, ValueFacts DEF EvaluationResolves, WriteHeadThrows, Uncaught,
         Respond, headersSent, TypeOK
  <2>3. response' \in [Queries -> {"none", "open", "ended", "closed"}]
    BY <1>12, ValueFacts DEF EvaluationResolves, WriteHeadThrows, Uncaught,
         Respond, headersSent, TypeOK
  <2>4. answer' \in [Queries -> {"none", "result", "error", "cut", "lost"}]
    BY <1>12, ValueFacts DEF EvaluationResolves, WriteHeadThrows, Uncaught,
         Respond, headersSent, TypeOK
  <2> QED  BY <1>12, <2>1, <2>2, <2>3, <2>4 DEF EvaluationResolves, masterVars,
       requestVars, TypeOK
<1>13. ASSUME NEW q \in Queries, EvaluationRejects(q)
       PROVE  TypeOK'
  <2>1. mode' \in [Workers -> Modes]
    BY <1>13, ValueFacts DEF EvaluationRejects, WriteHeadThrows, Uncaught,
         Respond, headersSent, TypeOK
  <2>2. phase' \in [Queries -> Phases]
    BY <1>13, ValueFacts DEF EvaluationRejects, WriteHeadThrows, Uncaught,
         Respond, headersSent, TypeOK
  <2>3. response' \in [Queries -> {"none", "open", "ended", "closed"}]
    <3>1. response' = response \/ response' = [response EXCEPT ![q] = "ended"]
      BY <1>13 DEF EvaluationRejects, WriteHeadThrows, Respond
    <3> QED  BY <3>1 DEF TypeOK
  <2>4. answer' \in [Queries -> {"none", "result", "error", "cut", "lost"}]
    BY <1>13, ValueFacts DEF EvaluationRejects, WriteHeadThrows, Uncaught,
         Respond, headersSent, TypeOK
  <2> QED  BY <1>13, <2>1, <2>2, <2>3, <2>4 DEF EvaluationRejects, masterVars,
       requestVars, TypeOK
<1>14. ASSUME NEW q \in Queries, SerializationResolves(q)
       PROVE  TypeOK'
  BY <1>14, ValueFacts, EndpointAssumption DEF SerializationResolves,
       processVars, masterVars, requestVars, TypeOK
<1>15. ASSUME NEW q \in Queries, SerializationRejects(q)
       PROVE  TypeOK'
  BY <1>15, ValueFacts, EndpointAssumption DEF SerializationRejects, Uncaught,
       masterVars, requestVars, TypeOK
<1>16. ASSUME NEW q \in Queries, ResultEnds(q)
       PROVE  TypeOK'
  <2>1. response' \in [Queries -> {"none", "open", "ended", "closed"}]
    BY <1>16, ValueFacts DEF ResultEnds, Respond, TypeOK
  <2>2. answer' \in [Queries -> {"none", "result", "error", "cut", "lost"}]
    BY <1>16, ValueFacts DEF ResultEnds, Respond, TypeOK
  <2> QED  BY <1>16, <2>1, <2>2 DEF ResultEnds, processVars, masterVars,
       requestVars, TypeOK
<1>17. ASSUME NEW q \in Queries, ResponseCloses(q)
       PROVE  TypeOK'
  <2>1. worker[q] \in Workers
    BY <1>17 DEF ResponseCloses, RequestsPlaced
  <2> QED  BY <1>17, <2>1, Closing DEF ResponseCloses, processVars, masterVars,
       requestVars, TypeOK
<1>18. ASSUME NEW q \in Queries, ClientDisconnects(q)
       PROVE  TypeOK'
  <2>1. worker[q] \in Workers
    BY <1>18 DEF ClientDisconnects, RequestsPlaced
  <2> QED  BY <1>18, <2>1, Closing DEF ClientDisconnects, processVars,
       masterVars, requestVars, TypeOK
<1>19. ASSUME NEW w \in Workers, ReceiveMessage(w)
       PROVE  TypeOK'
  <2>1. channel' \in [Workers -> Seq(Messages)]
    BY <1>19, ChannelTail DEF ReceiveMessage, TypeOK
  <2>2. timer' \in [Queries -> {"none", "armed", "fired", "cleared"}]
    BY <1>19, ValueFacts DEF ReceiveMessage, TypeOK
  <2> QED  BY <1>19, <2>1, <2>2 DEF ReceiveMessage, processVars, requestVars,
       queryVars, TypeOK
<1>20. ASSUME NEW w \in Workers, WorkerExits(w)
       PROVE  TypeOK'
  <2>1. mode' \in [Workers -> Modes]
    BY <1>20, ValueFacts, ForkedFacts DEF WorkerExits, respawns, fork,
         disconnect, TypeOK
  <2>2. inbox' \in [Workers -> SUBSET {"shutdown", "disconnect"}]
    BY <1>20, ValueFacts, ForkedFacts DEF WorkerExits, respawns, fork,
         disconnect, TypeOK
  <2>3. exitedAfterDisconnect' \subseteq Workers
    BY <1>20, ValueFacts, ForkedFacts DEF WorkerExits, respawns, fork,
         disconnect, TypeOK
  <2>4. forked' \in PoolSize..MaxWorkers
    BY <1>20, ValueFacts, ForkedFacts DEF WorkerExits, respawns, fork,
         disconnect, TypeOK
  <2> QED  BY <1>20, <2>1, <2>2, <2>3, <2>4 DEF WorkerExits, requestVars,
       queryVars, TypeOK
<1>21. ASSUME NEW p \in Queries, TimeOut(p)
       PROVE  TypeOK'
  BY <1>21, ValueFacts, EndpointAssumption DEF TimeOut, isConnected,
       masterVars, requestVars, queryVars, TypeOK
<1>22. ASSUME Sigint
       PROVE  TypeOK'
  <2>1. inbox' \in [Workers -> SUBSET {"shutdown", "disconnect"}]
    BY <1>22, ValueFacts, ForkedFacts DEF Sigint, disconnect, TypeOK
  <2>2. exitedAfterDisconnect' \subseteq Workers
    BY <1>22, ValueFacts, ForkedFacts DEF Sigint, disconnect, TypeOK
  <2> QED  BY <1>22, <2>1, <2>2 DEF Sigint, requestVars, queryVars, TypeOK
<1>23. CASE UNCHANGED vars
  BY <1>23, ValueFacts, EndpointAssumption DEF vars, processVars, masterVars,
       requestVars, queryVars, TypeOK
<1> QED
  BY <1>1, <1>2, <1>3, <1>4, <1>5, <1>6, <1>7, <1>8, <1>9, <1>10, <1>11,
       <1>12, <1>13, <1>14, <1>15, <1>16, <1>17, <1>18, <1>19, <1>20, <1>21,
       <1>22, <1>23 DEF Next, WorkerStep, HandlerStep, MasterStep

LEMMA WorkersForkedStep ==
  ASSUME TypeOK, WorkersForked, RequestsPlaced, [Next]_vars
  PROVE  WorkersForked'
<1>1. ASSUME NEW w \in Workers, WorkerListens(w)
      PROVE  WorkersForked'
  BY <1>1, ForkedFacts DEF WorkerListens, masterVars, requestVars, queryVars,
       TypeOK, WorkersForked, RequestsPlaced
<1>2. ASSUME NEW w \in Workers, ReceiveShutdown(w)
      PROVE  WorkersForked'
  BY <1>2, ForkedFacts DEF ReceiveShutdown, masterVars, requestVars,
       queryVars, TypeOK, WorkersForked, RequestsPlaced
<1>3. ASSUME NEW w \in Workers, ReceiveDisconnect(w)
      PROVE  WorkersForked'
  BY <1>3, ForkedFacts DEF ReceiveDisconnect, masterVars, requestVars,
       queryVars, TypeOK, WorkersForked, RequestsPlaced
<1>4. ASSUME NEW w \in Workers, LeaveCluster(w)
      PROVE  WorkersForked'
  BY <1>4, ForkedFacts DEF LeaveCluster, masterVars, requestVars, queryVars,
       TypeOK, WorkersForked, RequestsPlaced
<1>5. ASSUME NEW w \in Workers, ExitWhenIdle(w)
      PROVE  WorkersForked'
  BY <1>5, ForkedFacts DEF ExitWhenIdle, ExitWith, masterVars, requestVars,
       TypeOK, WorkersForked, RequestsPlaced
<1>6. ASSUME NEW w \in Workers, TerminateWorker(w)
      PROVE  WorkersForked'
  BY <1>6, ForkedFacts DEF TerminateWorker, ExitWith, masterVars, requestVars,
       TypeOK, WorkersForked, RequestsPlaced
<1>7. ASSUME NEW w \in Workers, Crash(w)
      PROVE  WorkersForked'
  BY <1>7, ForkedFacts DEF Crash, ExitWith, alive, masterVars, requestVars,
       TypeOK, WorkersForked, RequestsPlaced
<1>8. ASSUME NEW w \in Workers, NEW q \in Queries, EndConnection(w, q)
      PROVE  WorkersForked'
  BY <1>8, ForkedFacts DEF EndConnection, processVars, masterVars,
       requestVars, TypeOK, WorkersForked, RequestsPlaced
<1>9. ASSUME NEW q \in Queries, NEW w \in Workers, Request(q, w)
      PROVE  WorkersForked'
  BY <1>9, ForkedFacts DEF Request, StartEvaluating, processVars, masterVars,
       TypeOK, WorkersForked, RequestsPlaced
<1>10. ASSUME NEW q \in Queries, BodyParsed(q)
       PROVE  WorkersForked'
  BY <1>10, ForkedFacts DEF BodyParsed, StartEvaluating, processVars,
       masterVars, requestVars, TypeOK, WorkersForked, RequestsPlaced
<1>11. ASSUME NEW q \in Queries, BodyRejected(q)
       PROVE  WorkersForked'
  BY <1>11, ForkedFacts DEF BodyRejected, Uncaught, masterVars, requestVars,
       TypeOK, WorkersForked, RequestsPlaced
<1>12. ASSUME NEW q \in Queries, EvaluationResolves(q)
       PROVE  WorkersForked'
  BY <1>12, ForkedFacts DEF EvaluationResolves, WriteHeadThrows, Uncaught,
       Respond, headersSent, masterVars, requestVars, TypeOK, WorkersForked,
       RequestsPlaced
<1>13. ASSUME NEW q \in Queries, EvaluationRejects(q)
       PROVE  WorkersForked'
  BY <1>13, ForkedFacts DEF EvaluationRejects, WriteHeadThrows, Uncaught,
       Respond, headersSent, masterVars, requestVars, TypeOK, WorkersForked,
       RequestsPlaced
<1>14. ASSUME NEW q \in Queries, SerializationResolves(q)
       PROVE  WorkersForked'
  BY <1>14, ForkedFacts DEF SerializationResolves, processVars, masterVars,
       requestVars, TypeOK, WorkersForked, RequestsPlaced
<1>15. ASSUME NEW q \in Queries, SerializationRejects(q)
       PROVE  WorkersForked'
  BY <1>15, ForkedFacts DEF SerializationRejects, Uncaught, masterVars,
       requestVars, TypeOK, WorkersForked, RequestsPlaced
<1>16. ASSUME NEW q \in Queries, ResultEnds(q)
       PROVE  WorkersForked'
  BY <1>16, ForkedFacts DEF ResultEnds, Respond, processVars, masterVars,
       requestVars, TypeOK, WorkersForked, RequestsPlaced
<1>17. ASSUME NEW q \in Queries, ResponseCloses(q)
       PROVE  WorkersForked'
  <2>1. worker[q] \in Workers /\ mode[worker[q]] # "none"
    BY <1>17 DEF ResponseCloses, RequestsPlaced
  <2>2. mode' = [mode EXCEPT ![worker[q]] = "exited"] \/ mode' = mode
    BY <1>17 DEF ResponseCloses, Close, ExitWith
  <2> QED  BY <1>17, <2>1, <2>2, ForkedFacts DEF ResponseCloses, masterVars, TypeOK, WorkersForked
<1>18. ASSUME NEW q \in Queries, ClientDisconnects(q)
       PROVE  WorkersForked'
  <2>1. worker[q] \in Workers /\ mode[worker[q]] # "none"
    BY <1>18 DEF ClientDisconnects, RequestsPlaced
  <2>2. mode' = [mode EXCEPT ![worker[q]] = "exited"] \/ mode' = mode
    BY <1>18 DEF ClientDisconnects, Close, ExitWith
  <2> QED  BY <1>18, <2>1, <2>2, ForkedFacts DEF ClientDisconnects, masterVars, TypeOK, WorkersForked
<1>19. ASSUME NEW w \in Workers, ReceiveMessage(w)
       PROVE  WorkersForked'
  BY <1>19, ForkedFacts DEF ReceiveMessage, processVars, requestVars,
       queryVars, TypeOK, WorkersForked, RequestsPlaced
<1>20. ASSUME NEW w \in Workers, WorkerExits(w)
       PROVE  WorkersForked'
  BY <1>20, ForkedFacts DEF WorkerExits, respawns, fork, disconnect,
       requestVars, queryVars, TypeOK, WorkersForked, RequestsPlaced
<1>21. ASSUME NEW p \in Queries, TimeOut(p)
       PROVE  WorkersForked'
  BY <1>21, ForkedFacts DEF TimeOut, isConnected, masterVars, requestVars,
       queryVars, TypeOK, WorkersForked, RequestsPlaced
<1>22. ASSUME Sigint
       PROVE  WorkersForked'
  BY <1>22, ForkedFacts DEF Sigint, disconnect, requestVars, queryVars,
       TypeOK, WorkersForked, RequestsPlaced
<1>23. CASE UNCHANGED vars
  BY <1>23, ForkedFacts DEF vars, processVars, masterVars, requestVars,
       queryVars, TypeOK, WorkersForked, RequestsPlaced
<1> QED
  BY <1>1, <1>2, <1>3, <1>4, <1>5, <1>6, <1>7, <1>8, <1>9, <1>10, <1>11,
       <1>12, <1>13, <1>14, <1>15, <1>16, <1>17, <1>18, <1>19, <1>20, <1>21,
       <1>22, <1>23 DEF Next, WorkerStep, HandlerStep, MasterStep

LEMMA RequestsPlacedStep ==
  ASSUME TypeOK, WorkersForked, RequestsPlaced, [Next]_vars
  PROVE  RequestsPlaced'
<1>1. ASSUME NEW w \in Workers, WorkerListens(w)
      PROVE  RequestsPlaced'
  BY <1>1, ForkedFacts, NoWorkerAssumption DEF WorkerListens, masterVars,
       requestVars, queryVars, TypeOK, WorkersForked, RequestsPlaced
<1>2. ASSUME NEW w \in Workers, ReceiveShutdown(w)
      PROVE  RequestsPlaced'
  BY <1>2, ForkedFacts, NoWorkerAssumption DEF ReceiveShutdown, masterVars,
       requestVars, queryVars, TypeOK, WorkersForked, RequestsPlaced
<1>3. ASSUME NEW w \in Workers, ReceiveDisconnect(w)
      PROVE  RequestsPlaced'
  BY <1>3, ForkedFacts, NoWorkerAssumption DEF ReceiveDisconnect, masterVars,
       requestVars, queryVars, TypeOK, WorkersForked, RequestsPlaced
<1>4. ASSUME NEW w \in Workers, LeaveCluster(w)
      PROVE  RequestsPlaced'
  BY <1>4, ForkedFacts, NoWorkerAssumption DEF LeaveCluster, masterVars,
       requestVars, queryVars, TypeOK, WorkersForked, RequestsPlaced
<1>5. ASSUME NEW w \in Workers, ExitWhenIdle(w)
      PROVE  RequestsPlaced'
  BY <1>5, ForkedFacts, NoWorkerAssumption DEF ExitWhenIdle, ExitWith,
       masterVars, requestVars, TypeOK, WorkersForked, RequestsPlaced
<1>6. ASSUME NEW w \in Workers, TerminateWorker(w)
      PROVE  RequestsPlaced'
  BY <1>6, ForkedFacts, NoWorkerAssumption DEF TerminateWorker, ExitWith,
       masterVars, requestVars, TypeOK, WorkersForked, RequestsPlaced
<1>7. ASSUME NEW w \in Workers, Crash(w)
      PROVE  RequestsPlaced'
  BY <1>7, ForkedFacts, NoWorkerAssumption DEF Crash, ExitWith, alive,
       masterVars, requestVars, TypeOK, WorkersForked, RequestsPlaced
<1>8. ASSUME NEW w \in Workers, NEW q \in Queries, EndConnection(w, q)
      PROVE  RequestsPlaced'
  BY <1>8, ForkedFacts, NoWorkerAssumption DEF EndConnection, processVars,
       masterVars, requestVars, TypeOK, WorkersForked, RequestsPlaced
<1>9. ASSUME NEW q \in Queries, NEW w \in Workers, Request(q, w)
      PROVE  RequestsPlaced'
  BY <1>9, ForkedFacts, NoWorkerAssumption DEF Request, StartEvaluating,
       processVars, masterVars, TypeOK, WorkersForked, RequestsPlaced
<1>10. ASSUME NEW q \in Queries, BodyParsed(q)
       PROVE  RequestsPlaced'
  BY <1>10, ForkedFacts, NoWorkerAssumption DEF BodyParsed, StartEvaluating,
       processVars, masterVars, requestVars, TypeOK, WorkersForked,
       RequestsPlaced
<1>11. ASSUME NEW q \in Queries, BodyRejected(q)
       PROVE  RequestsPlaced'
  BY <1>11, ForkedFacts, NoWorkerAssumption DEF BodyRejected, Uncaught,
       masterVars, requestVars, TypeOK, WorkersForked, RequestsPlaced
<1>12. ASSUME NEW q \in Queries, EvaluationResolves(q)
       PROVE  RequestsPlaced'
  BY <1>12, ForkedFacts, NoWorkerAssumption DEF EvaluationResolves,
       WriteHeadThrows, Uncaught, Respond, headersSent, masterVars,
       requestVars, TypeOK, WorkersForked, RequestsPlaced
<1>13. ASSUME NEW q \in Queries, EvaluationRejects(q)
       PROVE  RequestsPlaced'
  BY <1>13, ForkedFacts, NoWorkerAssumption DEF EvaluationRejects,
       WriteHeadThrows, Uncaught, Respond, headersSent, masterVars,
       requestVars, TypeOK, WorkersForked, RequestsPlaced
<1>14. ASSUME NEW q \in Queries, SerializationResolves(q)
       PROVE  RequestsPlaced'
  BY <1>14, ForkedFacts, NoWorkerAssumption DEF SerializationResolves,
       processVars, masterVars, requestVars, TypeOK, WorkersForked,
       RequestsPlaced
<1>15. ASSUME NEW q \in Queries, SerializationRejects(q)
       PROVE  RequestsPlaced'
  BY <1>15, ForkedFacts, NoWorkerAssumption DEF SerializationRejects,
       Uncaught, masterVars, requestVars, TypeOK, WorkersForked,
       RequestsPlaced
<1>16. ASSUME NEW q \in Queries, ResultEnds(q)
       PROVE  RequestsPlaced'
  BY <1>16, ForkedFacts, NoWorkerAssumption DEF ResultEnds, Respond,
       processVars, masterVars, requestVars, TypeOK, WorkersForked,
       RequestsPlaced
<1>17. ASSUME NEW q \in Queries, ResponseCloses(q)
       PROVE  RequestsPlaced'
  BY <1>17, ForkedFacts, NoWorkerAssumption DEF ResponseCloses, Close,
       ExitWith, masterVars, requestVars, TypeOK, WorkersForked,
       RequestsPlaced
<1>18. ASSUME NEW q \in Queries, ClientDisconnects(q)
       PROVE  RequestsPlaced'
  BY <1>18, ForkedFacts, NoWorkerAssumption DEF ClientDisconnects, Close,
       ExitWith, masterVars, requestVars, TypeOK, WorkersForked,
       RequestsPlaced
<1>19. ASSUME NEW w \in Workers, ReceiveMessage(w)
       PROVE  RequestsPlaced'
  BY <1>19, ForkedFacts, NoWorkerAssumption DEF ReceiveMessage, processVars,
       requestVars, queryVars, TypeOK, WorkersForked, RequestsPlaced
<1>20. ASSUME NEW w \in Workers, WorkerExits(w)
       PROVE  RequestsPlaced'
  BY <1>20, ForkedFacts, NoWorkerAssumption DEF WorkerExits, respawns, fork,
       disconnect, requestVars, queryVars, TypeOK, WorkersForked,
       RequestsPlaced
<1>21. ASSUME NEW p \in Queries, TimeOut(p)
       PROVE  RequestsPlaced'
  BY <1>21, ForkedFacts, NoWorkerAssumption DEF TimeOut, isConnected,
       masterVars, requestVars, queryVars, TypeOK, WorkersForked,
       RequestsPlaced
<1>22. ASSUME Sigint
       PROVE  RequestsPlaced'
  BY <1>22, ForkedFacts, NoWorkerAssumption DEF Sigint, disconnect,
       requestVars, queryVars, TypeOK, WorkersForked, RequestsPlaced
<1>23. CASE UNCHANGED vars
  BY <1>23, ForkedFacts, NoWorkerAssumption DEF vars, processVars, masterVars,
       requestVars, queryVars, TypeOK, WorkersForked, RequestsPlaced
<1> QED
  BY <1>1, <1>2, <1>3, <1>4, <1>5, <1>6, <1>7, <1>8, <1>9, <1>10, <1>11,
       <1>12, <1>13, <1>14, <1>15, <1>16, <1>17, <1>18, <1>19, <1>20, <1>21,
       <1>22, <1>23 DEF Next, WorkerStep, HandlerStep, MasterStep

LEMMA ResultsStreamedStep ==
  ASSUME TypeOK, RequestsPlaced, ResultsStreamed, [Next]_vars
  PROVE  ResultsStreamed'
<1>1. ASSUME NEW w \in Workers, WorkerListens(w)
      PROVE  ResultsStreamed'
  BY <1>1 DEF WorkerListens, masterVars, requestVars, queryVars, TypeOK,
       RequestsPlaced, ResultsStreamed
<1>2. ASSUME NEW w \in Workers, ReceiveShutdown(w)
      PROVE  ResultsStreamed'
  BY <1>2 DEF ReceiveShutdown, masterVars, requestVars, queryVars, TypeOK,
       RequestsPlaced, ResultsStreamed
<1>3. ASSUME NEW w \in Workers, ReceiveDisconnect(w)
      PROVE  ResultsStreamed'
  BY <1>3 DEF ReceiveDisconnect, masterVars, requestVars, queryVars, TypeOK,
       RequestsPlaced, ResultsStreamed
<1>4. ASSUME NEW w \in Workers, LeaveCluster(w)
      PROVE  ResultsStreamed'
  BY <1>4 DEF LeaveCluster, masterVars, requestVars, queryVars, TypeOK,
       RequestsPlaced, ResultsStreamed
<1>5. ASSUME NEW w \in Workers, ExitWhenIdle(w)
      PROVE  ResultsStreamed'
  BY <1>5 DEF ExitWhenIdle, ExitWith, masterVars, requestVars, TypeOK,
       RequestsPlaced, ResultsStreamed
<1>6. ASSUME NEW w \in Workers, TerminateWorker(w)
      PROVE  ResultsStreamed'
  BY <1>6 DEF TerminateWorker, ExitWith, masterVars, requestVars, TypeOK,
       RequestsPlaced, ResultsStreamed
<1>7. ASSUME NEW w \in Workers, Crash(w)
      PROVE  ResultsStreamed'
  BY <1>7 DEF Crash, ExitWith, alive, masterVars, requestVars, TypeOK,
       RequestsPlaced, ResultsStreamed
<1>8. ASSUME NEW w \in Workers, NEW q \in Queries, EndConnection(w, q)
      PROVE  ResultsStreamed'
  BY <1>8 DEF EndConnection, processVars, masterVars, requestVars, TypeOK,
       RequestsPlaced, ResultsStreamed
<1>9. ASSUME NEW q \in Queries, NEW w \in Workers, Request(q, w)
      PROVE  ResultsStreamed'
  BY <1>9 DEF Request, StartEvaluating, processVars, masterVars, TypeOK,
       RequestsPlaced, ResultsStreamed
<1>10. ASSUME NEW q \in Queries, BodyParsed(q)
       PROVE  ResultsStreamed'
  BY <1>10 DEF BodyParsed, StartEvaluating, processVars, masterVars,
       requestVars, TypeOK, RequestsPlaced, ResultsStreamed
<1>11. ASSUME NEW q \in Queries, BodyRejected(q)
       PROVE  ResultsStreamed'
  BY <1>11 DEF BodyRejected, Uncaught, masterVars, requestVars, TypeOK,
       RequestsPlaced, ResultsStreamed
<1>12. ASSUME NEW q \in Queries, EvaluationResolves(q)
       PROVE  ResultsStreamed'
  BY <1>12 DEF EvaluationResolves, WriteHeadThrows, Uncaught, Respond,
       headersSent, masterVars, requestVars, TypeOK, RequestsPlaced,
       ResultsStreamed
<1>13. ASSUME NEW q \in Queries, EvaluationRejects(q)
       PROVE  ResultsStreamed'
  BY <1>13 DEF EvaluationRejects, WriteHeadThrows, Uncaught, Respond,
       headersSent, masterVars, requestVars, TypeOK, RequestsPlaced,
       ResultsStreamed
<1>14. ASSUME NEW q \in Queries, SerializationResolves(q)
       PROVE  ResultsStreamed'
  BY <1>14 DEF SerializationResolves, processVars, masterVars, requestVars,
       TypeOK, RequestsPlaced, ResultsStreamed
<1>15. ASSUME NEW q \in Queries, SerializationRejects(q)
       PROVE  ResultsStreamed'
  BY <1>15 DEF SerializationRejects, Uncaught, masterVars, requestVars,
       TypeOK, RequestsPlaced, ResultsStreamed
<1>16. ASSUME NEW q \in Queries, ResultEnds(q)
       PROVE  ResultsStreamed'
  BY <1>16 DEF ResultEnds, Respond, processVars, masterVars, requestVars,
       TypeOK, RequestsPlaced, ResultsStreamed
<1>17. ASSUME NEW q \in Queries, ResponseCloses(q)
       PROVE  ResultsStreamed'
  BY <1>17 DEF ResponseCloses, Close, ExitWith, masterVars, requestVars,
       TypeOK, RequestsPlaced, ResultsStreamed
<1>18. ASSUME NEW q \in Queries, ClientDisconnects(q)
       PROVE  ResultsStreamed'
  <2>1. CASE phase[q] # "streaming"
    BY <1>18, <2>1 DEF ClientDisconnects, Close, requestVars, TypeOK, ResultsStreamed
  <2>2. CASE phase[q] = "streaming" /\ freshWorkerPerQuery
    BY <1>18, <2>2 DEF ClientDisconnects, Close, ExitWith, requestVars, TypeOK, ResultsStreamed
  <2>3. CASE phase[q] = "streaming" /\ ~freshWorkerPerQuery
    BY <1>18, <2>3 DEF ClientDisconnects, Close, requestVars, TypeOK, ResultsStreamed
  <2> QED  BY <2>1, <2>2, <2>3
<1>19. ASSUME NEW w \in Workers, ReceiveMessage(w)
       PROVE  ResultsStreamed'
  BY <1>19 DEF ReceiveMessage, processVars, requestVars, queryVars, TypeOK,
       RequestsPlaced, ResultsStreamed
<1>20. ASSUME NEW w \in Workers, WorkerExits(w)
       PROVE  ResultsStreamed'
  BY <1>20 DEF WorkerExits, respawns, fork, disconnect, requestVars,
       queryVars, TypeOK, RequestsPlaced, ResultsStreamed
<1>21. ASSUME NEW p \in Queries, TimeOut(p)
       PROVE  ResultsStreamed'
  BY <1>21 DEF TimeOut, isConnected, masterVars, requestVars, queryVars,
       TypeOK, RequestsPlaced, ResultsStreamed
<1>22. ASSUME Sigint
       PROVE  ResultsStreamed'
  BY <1>22 DEF Sigint, disconnect, requestVars, queryVars, TypeOK,
       RequestsPlaced, ResultsStreamed
<1>23. CASE UNCHANGED vars
  BY <1>23 DEF vars, processVars, masterVars, requestVars, queryVars, TypeOK,
       RequestsPlaced, ResultsStreamed
<1> QED
  BY <1>1, <1>2, <1>3, <1>4, <1>5, <1>6, <1>7, <1>8, <1>9, <1>10, <1>11,
       <1>12, <1>13, <1>14, <1>15, <1>16, <1>17, <1>18, <1>19, <1>20, <1>21,
       <1>22, <1>23 DEF Next, WorkerStep, HandlerStep, MasterStep

LEMMA AllDisconnectedStep ==
  ASSUME TypeOK, WorkersForked, AllDisconnected, [Next]_vars
  PROVE  AllDisconnected'
<1>1. ASSUME NEW w \in Workers, WorkerListens(w)
      PROVE  AllDisconnected'
  BY <1>1, ForkedFacts DEF WorkerListens, masterVars, requestVars, queryVars,
       TypeOK, WorkersForked, AllDisconnected
<1>2. ASSUME NEW w \in Workers, ReceiveShutdown(w)
      PROVE  AllDisconnected'
  BY <1>2, ForkedFacts DEF ReceiveShutdown, masterVars, requestVars,
       queryVars, TypeOK, WorkersForked, AllDisconnected
<1>3. ASSUME NEW w \in Workers, ReceiveDisconnect(w)
      PROVE  AllDisconnected'
  BY <1>3, ForkedFacts DEF ReceiveDisconnect, masterVars, requestVars,
       queryVars, TypeOK, WorkersForked, AllDisconnected
<1>4. ASSUME NEW w \in Workers, LeaveCluster(w)
      PROVE  AllDisconnected'
  BY <1>4, ForkedFacts DEF LeaveCluster, masterVars, requestVars, queryVars,
       TypeOK, WorkersForked, AllDisconnected
<1>5. ASSUME NEW w \in Workers, ExitWhenIdle(w)
      PROVE  AllDisconnected'
  BY <1>5, ForkedFacts DEF ExitWhenIdle, ExitWith, masterVars, requestVars,
       TypeOK, WorkersForked, AllDisconnected
<1>6. ASSUME NEW w \in Workers, TerminateWorker(w)
      PROVE  AllDisconnected'
  BY <1>6, ForkedFacts DEF TerminateWorker, ExitWith, masterVars, requestVars,
       TypeOK, WorkersForked, AllDisconnected
<1>7. ASSUME NEW w \in Workers, Crash(w)
      PROVE  AllDisconnected'
  BY <1>7, ForkedFacts DEF Crash, ExitWith, alive, masterVars, requestVars,
       TypeOK, WorkersForked, AllDisconnected
<1>8. ASSUME NEW w \in Workers, NEW q \in Queries, EndConnection(w, q)
      PROVE  AllDisconnected'
  BY <1>8, ForkedFacts DEF EndConnection, processVars, masterVars,
       requestVars, TypeOK, WorkersForked, AllDisconnected
<1>9. ASSUME NEW q \in Queries, NEW w \in Workers, Request(q, w)
      PROVE  AllDisconnected'
  BY <1>9, ForkedFacts DEF Request, StartEvaluating, processVars, masterVars,
       TypeOK, WorkersForked, AllDisconnected
<1>10. ASSUME NEW q \in Queries, BodyParsed(q)
       PROVE  AllDisconnected'
  BY <1>10, ForkedFacts DEF BodyParsed, StartEvaluating, processVars,
       masterVars, requestVars, TypeOK, WorkersForked, AllDisconnected
<1>11. ASSUME NEW q \in Queries, BodyRejected(q)
       PROVE  AllDisconnected'
  BY <1>11, ForkedFacts DEF BodyRejected, Uncaught, masterVars, requestVars,
       TypeOK, WorkersForked, AllDisconnected
<1>12. ASSUME NEW q \in Queries, EvaluationResolves(q)
       PROVE  AllDisconnected'
  BY <1>12, ForkedFacts DEF EvaluationResolves, WriteHeadThrows, Uncaught,
       Respond, headersSent, masterVars, requestVars, TypeOK, WorkersForked,
       AllDisconnected
<1>13. ASSUME NEW q \in Queries, EvaluationRejects(q)
       PROVE  AllDisconnected'
  BY <1>13, ForkedFacts DEF EvaluationRejects, WriteHeadThrows, Uncaught,
       Respond, headersSent, masterVars, requestVars, TypeOK, WorkersForked,
       AllDisconnected
<1>14. ASSUME NEW q \in Queries, SerializationResolves(q)
       PROVE  AllDisconnected'
  BY <1>14, ForkedFacts DEF SerializationResolves, processVars, masterVars,
       requestVars, TypeOK, WorkersForked, AllDisconnected
<1>15. ASSUME NEW q \in Queries, SerializationRejects(q)
       PROVE  AllDisconnected'
  BY <1>15, ForkedFacts DEF SerializationRejects, Uncaught, masterVars,
       requestVars, TypeOK, WorkersForked, AllDisconnected
<1>16. ASSUME NEW q \in Queries, ResultEnds(q)
       PROVE  AllDisconnected'
  BY <1>16, ForkedFacts DEF ResultEnds, Respond, processVars, masterVars,
       requestVars, TypeOK, WorkersForked, AllDisconnected
<1>17. ASSUME NEW q \in Queries, ResponseCloses(q)
       PROVE  AllDisconnected'
  BY <1>17, ForkedFacts DEF ResponseCloses, Close, ExitWith, masterVars,
       requestVars, TypeOK, WorkersForked, AllDisconnected
<1>18. ASSUME NEW q \in Queries, ClientDisconnects(q)
       PROVE  AllDisconnected'
  BY <1>18, ForkedFacts DEF ClientDisconnects, Close, ExitWith, masterVars,
       requestVars, TypeOK, WorkersForked, AllDisconnected
<1>19. ASSUME NEW w \in Workers, ReceiveMessage(w)
       PROVE  AllDisconnected'
  BY <1>19, ForkedFacts DEF ReceiveMessage, processVars, requestVars,
       queryVars, TypeOK, WorkersForked, AllDisconnected
<1>20. ASSUME NEW w \in Workers, WorkerExits(w)
       PROVE  AllDisconnected'
  BY <1>20, ForkedFacts DEF WorkerExits, respawns, fork, disconnect,
       requestVars, queryVars, TypeOK, WorkersForked, AllDisconnected
<1>21. ASSUME NEW p \in Queries, TimeOut(p)
       PROVE  AllDisconnected'
  BY <1>21, ForkedFacts DEF TimeOut, isConnected, masterVars, requestVars,
       queryVars, TypeOK, WorkersForked, AllDisconnected
<1>22. ASSUME Sigint
       PROVE  AllDisconnected'
  BY <1>22, ForkedFacts DEF Sigint, disconnect, requestVars, queryVars,
       TypeOK, WorkersForked, AllDisconnected
<1>23. CASE UNCHANGED vars
  BY <1>23, ForkedFacts DEF vars, processVars, masterVars, requestVars,
       queryVars, TypeOK, WorkersForked, AllDisconnected
<1> QED
  BY <1>1, <1>2, <1>3, <1>4, <1>5, <1>6, <1>7, <1>8, <1>9, <1>10, <1>11,
       <1>12, <1>13, <1>14, <1>15, <1>16, <1>17, <1>18, <1>19, <1>20, <1>21,
       <1>22, <1>23 DEF Next, WorkerStep, HandlerStep, MasterStep

LEMMA MessagesOfOwnStep ==
  ASSUME TypeOK, RequestsPlaced, MessagesOfOwn, [Next]_vars
  PROVE  MessagesOfOwn'
<1>1. ASSUME NEW w \in Workers, WorkerListens(w)
      PROVE  MessagesOfOwn'
  <2>1. channel' = [channel EXCEPT ![w] = Append(@, Listening)] /\ UNCHANGED <<worker, phase>>
    BY <1>1 DEF WorkerListens, requestVars, queryVars
  <2>2. /\ Pending'[w] = Pending[w] \cup {Listening}
        /\ \A v \in Workers : v # w => Pending'[v] = Pending[v]
    BY <2>1, ChannelTyped, MessageFacts, ChannelAppend
  <2> QED  BY <2>1, <2>2, MessageFacts DEF MessagesOfOwn
<1>2. ASSUME NEW w \in Workers, ReceiveShutdown(w)
      PROVE  MessagesOfOwn'
  BY <1>2, ChannelSame DEF ReceiveShutdown, masterVars, requestVars,
       queryVars, TypeOK, RequestsPlaced, MessagesOfOwn
<1>3. ASSUME NEW w \in Workers, ReceiveDisconnect(w)
      PROVE  MessagesOfOwn'
  BY <1>3, ChannelSame DEF ReceiveDisconnect, masterVars, requestVars,
       queryVars, TypeOK, RequestsPlaced, MessagesOfOwn
<1>4. ASSUME NEW w \in Workers, LeaveCluster(w)
      PROVE  MessagesOfOwn'
  BY <1>4, ChannelSame DEF LeaveCluster, masterVars, requestVars, queryVars,
       TypeOK, RequestsPlaced, MessagesOfOwn
<1>5. ASSUME NEW w \in Workers, ExitWhenIdle(w)
      PROVE  MessagesOfOwn'
  BY <1>5, ChannelSame DEF ExitWhenIdle, ExitWith, masterVars, requestVars,
       TypeOK, RequestsPlaced, MessagesOfOwn
<1>6. ASSUME NEW w \in Workers, TerminateWorker(w)
      PROVE  MessagesOfOwn'
  BY <1>6, ChannelSame DEF TerminateWorker, ExitWith, masterVars, requestVars,
       TypeOK, RequestsPlaced, MessagesOfOwn
<1>7. ASSUME NEW w \in Workers, Crash(w)
      PROVE  MessagesOfOwn'
  BY <1>7, ChannelSame DEF Crash, ExitWith, alive, masterVars, requestVars,
       TypeOK, RequestsPlaced, MessagesOfOwn
<1>8. ASSUME NEW w \in Workers, NEW q \in Queries, EndConnection(w, q)
      PROVE  MessagesOfOwn'
  BY <1>8, ChannelSame DEF EndConnection, processVars, masterVars,
       requestVars, TypeOK, RequestsPlaced, MessagesOfOwn
<1>9. ASSUME NEW q \in Queries, NEW w \in Workers, Request(q, w)
      PROVE  MessagesOfOwn'
  <2>1. worker[q] = NoWorker /\ phase[q] = "none"
    BY <1>9 DEF Request, RequestsPlaced
  <2>2. worker'[q] = w /\ \A p \in Queries : p # q => worker'[p] = worker[p] /\ phase'[p] = phase[p]
    BY <1>9 DEF Request, StartEvaluating, TypeOK
  <2>3. \A v \in Workers : Start(q) \notin Pending[v] /\ End(q) \notin Pending[v]
    BY <2>1, NoWorkerAssumption DEF MessagesOfOwn
  <2>4. CASE UNCHANGED channel
    BY <2>2, <2>3, <2>4, ChannelSame DEF MessagesOfOwn
  <2>5. CASE channel' = [channel EXCEPT ![w] = Append(@, Start(q))]
    <3>1. /\ Pending'[w] = Pending[w] \cup {Start(q)}
          /\ \A v \in Workers : v # w => Pending'[v] = Pending[v]
      BY <2>5, ChannelTyped, MessageFacts, ChannelAppend
    <3> QED  BY <2>2, <2>3, <3>1, MessageFacts DEF MessagesOfOwn
  <2> QED  BY <1>9, <2>4, <2>5 DEF Request, StartEvaluating
<1>10. ASSUME NEW q \in Queries, BodyParsed(q)
       PROVE  MessagesOfOwn'
  <2>1. worker[q] \in Workers /\ phase[q] = "parsing" /\ worker' = worker
    BY <1>10 DEF BodyParsed, RequestsPlaced, requestVars
  <2>2. channel' = [channel EXCEPT ![worker[q]] = Append(@, Start(q))]
    BY <1>10 DEF BodyParsed, StartEvaluating
  <2>3. \A p \in Queries : p # q => phase'[p] = phase[p]
    BY <1>10 DEF BodyParsed, StartEvaluating, TypeOK
  <2>4. /\ Pending'[worker[q]] = Pending[worker[q]] \cup {Start(q)}
        /\ \A v \in Workers : v # worker[q] => Pending'[v] = Pending[v]
    BY <2>1, <2>2, ChannelTyped, MessageFacts, ChannelAppend
  <2> QED  BY <2>1, <2>3, <2>4, MessageFacts DEF MessagesOfOwn
<1>11. ASSUME NEW q \in Queries, BodyRejected(q)
       PROVE  MessagesOfOwn'
  BY <1>11, ChannelSame DEF BodyRejected, Uncaught, masterVars, requestVars,
       TypeOK, RequestsPlaced, MessagesOfOwn
<1>12. ASSUME NEW q \in Queries, EvaluationResolves(q)
       PROVE  MessagesOfOwn'
  BY <1>12, ChannelSame DEF EvaluationResolves, WriteHeadThrows, Uncaught,
       Respond, headersSent, masterVars, requestVars, TypeOK, RequestsPlaced,
       MessagesOfOwn
<1>13. ASSUME NEW q \in Queries, EvaluationRejects(q)
       PROVE  MessagesOfOwn'
  BY <1>13, ChannelSame DEF EvaluationRejects, WriteHeadThrows, Uncaught,
       Respond, headersSent, masterVars, requestVars, TypeOK, RequestsPlaced,
       MessagesOfOwn
<1>14. ASSUME NEW q \in Queries, SerializationResolves(q)
       PROVE  MessagesOfOwn'
  BY <1>14, ChannelSame DEF SerializationResolves, processVars, masterVars,
       requestVars, TypeOK, RequestsPlaced, MessagesOfOwn
<1>15. ASSUME NEW q \in Queries, SerializationRejects(q)
       PROVE  MessagesOfOwn'
  BY <1>15, ChannelSame DEF SerializationRejects, Uncaught, masterVars,
       requestVars, TypeOK, RequestsPlaced, MessagesOfOwn
<1>16. ASSUME NEW q \in Queries, ResultEnds(q)
       PROVE  MessagesOfOwn'
  BY <1>16, ChannelSame DEF ResultEnds, Respond, processVars, masterVars,
       requestVars, TypeOK, RequestsPlaced, MessagesOfOwn
<1>17. ASSUME NEW q \in Queries, ResponseCloses(q)
       PROVE  MessagesOfOwn'
  <2> DEFINE ans == answer
  <2>1. worker[q] \in Workers /\ worker' = worker /\ Close(q, ans)
    BY <1>17 DEF ResponseCloses, RequestsPlaced, requestVars
  <2>2. ans \in [Queries -> {"none", "result", "error", "cut", "lost"}]
    BY DEF TypeOK
  <2>3. IF phase[q] = "streaming" /\ kind[q] = "query"
        THEN channel' = [channel EXCEPT ![worker[q]] = Append(@, End(q))]
        ELSE channel' = channel
    BY <2>1, <2>2, Closing
  <2>4. /\ phase[q] = "streaming" => phase'[q] = "over"
        /\ \A p \in Queries : phase[p] = "over" => phase'[p] = "over"
    BY <2>1 DEF Close, ExitWith, TypeOK
  <2>5. CASE phase[q] = "streaming" /\ kind[q] = "query"
    <3>1. channel' = [channel EXCEPT ![worker[q]] = Append(@, End(q))]
      BY <2>3, <2>5
    <3>2. /\ Pending'[worker[q]] = Pending[worker[q]] \cup {End(q)}
          /\ \A v \in Workers : v # worker[q] => Pending'[v] = Pending[v]
      BY <2>1, <3>1, ChannelTyped, MessageFacts, ChannelAppend
    <3> QED  BY <2>1, <2>4, <2>5, <3>2, MessageFacts DEF MessagesOfOwn
  <2>6. CASE ~(phase[q] = "streaming" /\ kind[q] = "query")
    BY <2>1, <2>3, <2>4, <2>6, ChannelSame DEF MessagesOfOwn
  <2> QED  BY <2>5, <2>6
<1>18. ASSUME NEW q \in Queries, ClientDisconnects(q)
       PROVE  MessagesOfOwn'
  <2> DEFINE ans == [answer EXCEPT ![q] = "lost"]
  <2>1. worker[q] \in Workers /\ worker' = worker /\ Close(q, ans)
    BY <1>18 DEF ClientDisconnects, RequestsPlaced, requestVars
  <2>2. ans \in [Queries -> {"none", "result", "error", "cut", "lost"}]
    BY DEF TypeOK
  <2>3. IF phase[q] = "streaming" /\ kind[q] = "query"
        THEN channel' = [channel EXCEPT ![worker[q]] = Append(@, End(q))]
        ELSE channel' = channel
    BY <2>1, <2>2, Closing
  <2>4. /\ phase[q] = "streaming" => phase'[q] = "over"
        /\ \A p \in Queries : phase[p] = "over" => phase'[p] = "over"
    BY <2>1 DEF Close, ExitWith, TypeOK
  <2>5. CASE phase[q] = "streaming" /\ kind[q] = "query"
    <3>1. channel' = [channel EXCEPT ![worker[q]] = Append(@, End(q))]
      BY <2>3, <2>5
    <3>2. /\ Pending'[worker[q]] = Pending[worker[q]] \cup {End(q)}
          /\ \A v \in Workers : v # worker[q] => Pending'[v] = Pending[v]
      BY <2>1, <3>1, ChannelTyped, MessageFacts, ChannelAppend
    <3> QED  BY <2>1, <2>4, <2>5, <3>2, MessageFacts DEF MessagesOfOwn
  <2>6. CASE ~(phase[q] = "streaming" /\ kind[q] = "query")
    BY <2>1, <2>3, <2>4, <2>6, ChannelSame DEF MessagesOfOwn
  <2> QED  BY <2>5, <2>6
<1>19. ASSUME NEW w \in Workers, ReceiveMessage(w)
       PROVE  MessagesOfOwn'
  <2>1. channel[w] # <<>> /\ channel' = [channel EXCEPT ![w] = Tail(@)] /\ UNCHANGED <<worker, phase>>
    BY <1>19 DEF ReceiveMessage, requestVars, queryVars
  <2>2. \A v \in Workers : Pending'[v] \subseteq Pending[v]
    BY <2>1, ChannelTail DEF TypeOK
  <2> QED  BY <2>1, <2>2 DEF MessagesOfOwn
<1>20. ASSUME NEW w \in Workers, WorkerExits(w)
       PROVE  MessagesOfOwn'
  BY <1>20, ChannelSame DEF WorkerExits, respawns, fork, disconnect,
       requestVars, queryVars, TypeOK, RequestsPlaced, MessagesOfOwn
<1>21. ASSUME NEW p \in Queries, TimeOut(p)
       PROVE  MessagesOfOwn'
  BY <1>21, ChannelSame DEF TimeOut, isConnected, masterVars, requestVars,
       queryVars, TypeOK, RequestsPlaced, MessagesOfOwn
<1>22. ASSUME Sigint
       PROVE  MessagesOfOwn'
  BY <1>22, ChannelSame DEF Sigint, disconnect, requestVars, queryVars,
       TypeOK, RequestsPlaced, MessagesOfOwn
<1>23. CASE UNCHANGED vars
  BY <1>23, ChannelSame DEF vars, processVars, masterVars, requestVars,
       queryVars, TypeOK, RequestsPlaced, MessagesOfOwn
<1> QED
  BY <1>1, <1>2, <1>3, <1>4, <1>5, <1>6, <1>7, <1>8, <1>9, <1>10, <1>11,
       <1>12, <1>13, <1>14, <1>15, <1>16, <1>17, <1>18, <1>19, <1>20, <1>21,
       <1>22, <1>23 DEF Next, WorkerStep, HandlerStep, MasterStep

LEMMA DeliveriesReportedStep ==
  ASSUME TypeOK, RequestsPlaced, MessagesOfOwn, ResultsStreamed, DeliveriesReported, [Next]_vars
  PROVE  DeliveriesReported'
<1>1. ASSUME NEW w \in Workers, WorkerListens(w)
      PROVE  DeliveriesReported'
  <2> SUFFICES ASSUME NEW p \in Queries,
                      kind'[p] = "query", answer'[p] = "result", response'[p] = "closed"
               PROVE  /\ timer'[p] = "armed" => End(p) \in Pending'[worker'[p]]
                      /\ p \in Concluded'[worker'[p]]
    BY DEF DeliveriesReported
  <2>1. /\ kind[p] = "query" => worker[p] \in Workers
        /\ kind[p] = "query" /\ answer[p] = "result" /\ response[p] = "closed" =>
             /\ timer[p] = "armed" => End(p) \in Pending[worker[p]]
             /\ p \in Concluded[worker[p]]
    BY DEF RequestsPlaced, DeliveriesReported
  <2>2. /\ channel' = [channel EXCEPT ![w] = Append(@, Listening)]
        /\ UNCHANGED <<worker, kind, timer, response, answer>>
    BY <1>1 DEF WorkerListens, requestVars, queryVars
  <2>3. /\ Pending'[w] = Pending[w] \cup {Listening}
        /\ \A v \in Workers : v # w => Pending'[v] = Pending[v]
        /\ \A r \in Queries, v \in Workers :
             r \in Concluded[v] /\ Listening # Start(r) => r \in Concluded'[v]
    BY <2>2, ChannelTyped, MessageFacts, ChannelAppend
  <2> QED  BY <2>1, <2>2, <2>3, MessageFacts
<1>2. ASSUME NEW w \in Workers, ReceiveShutdown(w)
      PROVE  DeliveriesReported'
  BY <1>2, ChannelSame DEF ReceiveShutdown, masterVars, requestVars,
       queryVars, TypeOK, RequestsPlaced, DeliveriesReported
<1>3. ASSUME NEW w \in Workers, ReceiveDisconnect(w)
      PROVE  DeliveriesReported'
  BY <1>3, ChannelSame DEF ReceiveDisconnect, masterVars, requestVars,
       queryVars, TypeOK, RequestsPlaced, DeliveriesReported
<1>4. ASSUME NEW w \in Workers, LeaveCluster(w)
      PROVE  DeliveriesReported'
  BY <1>4, ChannelSame DEF LeaveCluster, masterVars, requestVars, queryVars,
       TypeOK, RequestsPlaced, DeliveriesReported
<1>5. ASSUME NEW w \in Workers, ExitWhenIdle(w)
      PROVE  DeliveriesReported'
  BY <1>5, ChannelSame DEF ExitWhenIdle, ExitWith, masterVars, requestVars,
       TypeOK, RequestsPlaced, DeliveriesReported
<1>6. ASSUME NEW w \in Workers, TerminateWorker(w)
      PROVE  DeliveriesReported'
  BY <1>6, ChannelSame DEF TerminateWorker, ExitWith, masterVars, requestVars,
       TypeOK, RequestsPlaced, DeliveriesReported
<1>7. ASSUME NEW w \in Workers, Crash(w)
      PROVE  DeliveriesReported'
  BY <1>7, ChannelSame DEF Crash, ExitWith, alive, masterVars, requestVars,
       TypeOK, RequestsPlaced, DeliveriesReported
<1>8. ASSUME NEW w \in Workers, NEW q \in Queries, EndConnection(w, q)
      PROVE  DeliveriesReported'
  BY <1>8, ChannelSame DEF EndConnection, processVars, masterVars,
       requestVars, TypeOK, RequestsPlaced, DeliveriesReported
<1>9. ASSUME NEW q \in Queries, NEW w \in Workers, Request(q, w)
      PROVE  DeliveriesReported'
  <2> SUFFICES ASSUME NEW p \in Queries,
                      kind'[p] = "query", answer'[p] = "result", response'[p] = "closed"
               PROVE  /\ timer'[p] = "armed" => End(p) \in Pending'[worker'[p]]
                      /\ p \in Concluded'[worker'[p]]
    BY DEF DeliveriesReported
  <2>1. /\ kind[p] = "query" => worker[p] \in Workers
        /\ kind[p] = "query" /\ answer[p] = "result" /\ response[p] = "closed" =>
             /\ timer[p] = "armed" => End(p) \in Pending[worker[p]]
             /\ p \in Concluded[worker[p]]
    BY DEF RequestsPlaced, DeliveriesReported
  <2>2. /\ timer' = timer /\ response'[q] # "closed"
        /\ \A r \in Queries : r # q =>
             /\ worker'[r] = worker[r] /\ kind'[r] = kind[r]
             /\ response'[r] = response[r] /\ answer'[r] = answer[r]
    BY <1>9 DEF Request, TypeOK
  <2>3. CASE UNCHANGED channel
    BY <2>1, <2>2, <2>3, ChannelSame
  <2>4. CASE channel' = [channel EXCEPT ![w] = Append(@, Start(q))]
    <3>1. /\ Pending'[w] = Pending[w] \cup {Start(q)}
          /\ \A v \in Workers : v # w => Pending'[v] = Pending[v]
          /\ \A r \in Queries, v \in Workers :
               r \in Concluded[v] /\ Start(q) # Start(r) => r \in Concluded'[v]
      BY <2>4, ChannelTyped, MessageFacts, ChannelAppend
    <3> QED  BY <2>1, <2>2, <3>1, MessageFacts
  <2> QED  BY <1>9, <2>3, <2>4 DEF Request, StartEvaluating
<1>10. ASSUME NEW q \in Queries, BodyParsed(q)
       PROVE  DeliveriesReported'
  <2> SUFFICES ASSUME NEW p \in Queries,
                      kind'[p] = "query", answer'[p] = "result", response'[p] = "closed"
               PROVE  /\ timer'[p] = "armed" => End(p) \in Pending'[worker'[p]]
                      /\ p \in Concluded'[worker'[p]]
    BY DEF DeliveriesReported
  <2>1. /\ kind[p] = "query" => worker[p] \in Workers
        /\ kind[p] = "query" /\ answer[p] = "result" /\ response[p] = "closed" =>
             /\ timer[p] = "armed" => End(p) \in Pending[worker[p]]
             /\ p \in Concluded[worker[p]]
    BY DEF RequestsPlaced, DeliveriesReported
  <2>2. /\ worker[q] \in Workers /\ response[q] # "closed"
        /\ UNCHANGED <<worker, kind, timer, response, answer>>
    BY <1>10 DEF BodyParsed, RequestsPlaced, requestVars
  <2>3. channel' = [channel EXCEPT ![worker[q]] = Append(@, Start(q))]
    BY <1>10 DEF BodyParsed, StartEvaluating
  <2>4. /\ Pending'[worker[q]] = Pending[worker[q]] \cup {Start(q)}
        /\ \A v \in Workers : v # worker[q] => Pending'[v] = Pending[v]
        /\ \A r \in Queries, v \in Workers :
             r \in Concluded[v] /\ Start(q) # Start(r) => r \in Concluded'[v]
    BY <2>2, <2>3, ChannelTyped, MessageFacts, ChannelAppend
  <2> QED  BY <2>1, <2>2, <2>4, MessageFacts
<1>11. ASSUME NEW q \in Queries, BodyRejected(q)
       PROVE  DeliveriesReported'
  BY <1>11, ChannelSame DEF BodyRejected, Uncaught, masterVars, requestVars,
       TypeOK, RequestsPlaced, DeliveriesReported
<1>12. ASSUME NEW q \in Queries, EvaluationResolves(q)
       PROVE  DeliveriesReported'
  BY <1>12, ChannelSame DEF EvaluationResolves, WriteHeadThrows, Uncaught,
       Respond, headersSent, masterVars, requestVars, TypeOK, RequestsPlaced,
       DeliveriesReported
<1>13. ASSUME NEW q \in Queries, EvaluationRejects(q)
       PROVE  DeliveriesReported'
  BY <1>13, ChannelSame DEF EvaluationRejects, WriteHeadThrows, Uncaught,
       Respond, headersSent, masterVars, requestVars, TypeOK, RequestsPlaced,
       DeliveriesReported
<1>14. ASSUME NEW q \in Queries, SerializationResolves(q)
       PROVE  DeliveriesReported'
  BY <1>14, ChannelSame DEF SerializationResolves, processVars, masterVars,
       requestVars, TypeOK, RequestsPlaced, DeliveriesReported
<1>15. ASSUME NEW q \in Queries, SerializationRejects(q)
       PROVE  DeliveriesReported'
  BY <1>15, ChannelSame DEF SerializationRejects, Uncaught, masterVars,
       requestVars, TypeOK, RequestsPlaced, DeliveriesReported
<1>16. ASSUME NEW q \in Queries, ResultEnds(q)
       PROVE  DeliveriesReported'
  BY <1>16, ChannelSame DEF ResultEnds, Respond, processVars, masterVars,
       requestVars, TypeOK, RequestsPlaced, DeliveriesReported
<1>17. ASSUME NEW q \in Queries, ResponseCloses(q)
       PROVE  DeliveriesReported'
  <2> DEFINE ans == answer
  <2> SUFFICES ASSUME NEW p \in Queries,
                      kind'[p] = "query", answer'[p] = "result", response'[p] = "closed"
               PROVE  /\ timer'[p] = "armed" => End(p) \in Pending'[worker'[p]]
                      /\ p \in Concluded'[worker'[p]]
    BY DEF DeliveriesReported
  <2>0. /\ kind[p] = "query" => worker[p] \in Workers
        /\ kind[p] = "query" /\ answer[p] = "result" /\ response[p] = "closed" =>
             /\ timer[p] = "armed" => End(p) \in Pending[worker[p]]
             /\ p \in Concluded[worker[p]]
    BY DEF RequestsPlaced, DeliveriesReported
  <2>1. /\ worker[q] \in Workers /\ response[q] # "closed" /\ Close(q, ans)
        /\ UNCHANGED <<worker, kind, timer>>
    BY <1>17 DEF ResponseCloses, RequestsPlaced, requestVars
  <2>2. ans \in [Queries -> {"none", "result", "error", "cut", "lost"}]
    BY DEF TypeOK
  <2>3. IF phase[q] = "streaming" /\ kind[q] = "query"
        THEN channel' = [channel EXCEPT ![worker[q]] = Append(@, End(q))]
        ELSE channel' = channel
    BY <2>1, <2>2, Closing
  <2>4. /\ answer'[q] = ans[q]
        /\ \A r \in Queries : r # q /\ answer'[r] = "result" /\ response'[r] = "closed" =>
             answer[r] = "result" /\ response[r] = "closed"
    <3>1. CASE phase[q] = "streaming" /\ freshWorkerPerQuery
      BY <2>1, <3>1 DEF Close, ExitWith, TypeOK
    <3>2. CASE ~(phase[q] = "streaming" /\ freshWorkerPerQuery)
      BY <2>1, <3>2 DEF Close, TypeOK
    <3> QED  BY <3>1, <3>2
  <2>5. kind[q] = "query" /\ answer'[q] = "result" => phase[q] = "streaming"
    BY <1>17, <2>1, <2>4 DEF ResponseCloses, ResultsStreamed, TypeOK
  <2>6. CASE phase[q] = "streaming" /\ kind[q] = "query"
    <3>1. channel' = [channel EXCEPT ![worker[q]] = Append(@, End(q))]
      BY <2>3, <2>6
    <3>2. /\ Pending'[worker[q]] = Pending[worker[q]] \cup {End(q)}
          /\ \A v \in Workers : v # worker[q] => Pending'[v] = Pending[v]
          /\ \A r \in Queries, v \in Workers :
               r \in Concluded[v] /\ End(q) # Start(r) => r \in Concluded'[v]
      BY <2>1, <3>1, ChannelTyped, MessageFacts, ChannelAppend
    <3>3. q \in Concluded'[worker[q]]
      BY <2>1, <3>1, MessageFacts, ChannelAppend DEF TypeOK
    <3> QED  BY <2>0, <2>1, <2>4, <3>2, <3>3, MessageFacts
  <2>7. CASE ~(phase[q] = "streaming" /\ kind[q] = "query")
    BY <2>0, <2>1, <2>3, <2>4, <2>5, <2>7, ChannelSame
  <2> QED  BY <2>6, <2>7
<1>18. ASSUME NEW q \in Queries, ClientDisconnects(q)
       PROVE  DeliveriesReported'
  <2> DEFINE ans == [answer EXCEPT ![q] = "lost"]
  <2> SUFFICES ASSUME NEW p \in Queries,
                      kind'[p] = "query", answer'[p] = "result", response'[p] = "closed"
               PROVE  /\ timer'[p] = "armed" => End(p) \in Pending'[worker'[p]]
                      /\ p \in Concluded'[worker'[p]]
    BY DEF DeliveriesReported
  <2>0. /\ kind[p] = "query" => worker[p] \in Workers
        /\ kind[p] = "query" /\ answer[p] = "result" /\ response[p] = "closed" =>
             /\ timer[p] = "armed" => End(p) \in Pending[worker[p]]
             /\ p \in Concluded[worker[p]]
    BY DEF RequestsPlaced, DeliveriesReported
  <2>1. /\ worker[q] \in Workers /\ response[q] # "closed" /\ Close(q, ans)
        /\ UNCHANGED <<worker, kind, timer>>
    BY <1>18 DEF ClientDisconnects, RequestsPlaced, requestVars
  <2>2. ans \in [Queries -> {"none", "result", "error", "cut", "lost"}]
    BY DEF TypeOK
  <2>3. IF phase[q] = "streaming" /\ kind[q] = "query"
        THEN channel' = [channel EXCEPT ![worker[q]] = Append(@, End(q))]
        ELSE channel' = channel
    BY <2>1, <2>2, Closing
  <2>4. /\ answer'[q] = ans[q]
        /\ \A r \in Queries : r # q /\ answer'[r] = "result" /\ response'[r] = "closed" =>
             answer[r] = "result" /\ response[r] = "closed"
    <3>1. CASE phase[q] = "streaming" /\ freshWorkerPerQuery
      BY <2>1, <3>1 DEF Close, ExitWith, TypeOK
    <3>2. CASE ~(phase[q] = "streaming" /\ freshWorkerPerQuery)
      BY <2>1, <3>2 DEF Close, TypeOK
    <3> QED  BY <3>1, <3>2
  <2>5. kind[q] = "query" /\ answer'[q] = "result" => phase[q] = "streaming"
    BY <1>18, <2>1, <2>4 DEF ClientDisconnects, ResultsStreamed, TypeOK
  <2>6. CASE phase[q] = "streaming" /\ kind[q] = "query"
    <3>1. channel' = [channel EXCEPT ![worker[q]] = Append(@, End(q))]
      BY <2>3, <2>6
    <3>2. /\ Pending'[worker[q]] = Pending[worker[q]] \cup {End(q)}
          /\ \A v \in Workers : v # worker[q] => Pending'[v] = Pending[v]
          /\ \A r \in Queries, v \in Workers :
               r \in Concluded[v] /\ End(q) # Start(r) => r \in Concluded'[v]
      BY <2>1, <3>1, ChannelTyped, MessageFacts, ChannelAppend
    <3>3. q \in Concluded'[worker[q]]
      BY <2>1, <3>1, MessageFacts, ChannelAppend DEF TypeOK
    <3> QED  BY <2>0, <2>1, <2>4, <3>2, <3>3, MessageFacts
  <2>7. CASE ~(phase[q] = "streaming" /\ kind[q] = "query")
    BY <2>0, <2>1, <2>3, <2>4, <2>5, <2>7, ChannelSame
  <2> QED  BY <2>6, <2>7
<1>19. ASSUME NEW w \in Workers, ReceiveMessage(w)
       PROVE  DeliveriesReported'
  <2> SUFFICES ASSUME NEW p \in Queries,
                      kind'[p] = "query", answer'[p] = "result", response'[p] = "closed"
               PROVE  /\ timer'[p] = "armed" => End(p) \in Pending'[worker'[p]]
                      /\ p \in Concluded'[worker'[p]]
    BY DEF DeliveriesReported
  <2>1. /\ kind[p] = "query" => worker[p] \in Workers
        /\ kind[p] = "query" /\ answer[p] = "result" /\ response[p] = "closed" =>
             /\ timer[p] = "armed" => End(p) \in Pending[worker[p]]
             /\ p \in Concluded[worker[p]]
    BY DEF RequestsPlaced, DeliveriesReported
  <2>2. /\ channel[w] # <<>> /\ channel' = [channel EXCEPT ![w] = Tail(@)]
        /\ UNCHANGED <<worker, kind, response, answer>>
    BY <1>19 DEF ReceiveMessage, requestVars, queryVars
  <2> DEFINE m == Head(channel[w])
  <2>3. /\ m \in Pending[w]
        /\ \A v \in Workers : Concluded[v] \subseteq Concluded'[v]
        /\ \A v \in Workers : v # w => Pending'[v] = Pending[v]
        /\ Pending[w] \subseteq Pending'[w] \cup {m}
        /\ \A r \in Concluded[w] : m = Start(r) => End(r) \in Pending'[w]
    BY <2>2, ChannelTail DEF TypeOK
  <2> HIDE DEF m
  <2>5. ASSUME timer'[p] = "armed"
        PROVE  m = Start(p) \/ (timer[p] = "armed" /\ m # End(p))
    <3>1. /\ m.type = "listening" => timer' = timer
          /\ m.type = "start" => timer' = [timer EXCEPT ![m.query] = "armed"]
          /\ m.type = "end" => timer' = [timer EXCEPT ![m.query] =
                                        IF @ = "armed" THEN "cleared" ELSE @]
      BY <1>19 DEF ReceiveMessage, m
    <3>2. \/ m = Listening /\ m.type = "listening"
          \/ m.type = "start" /\ m.query \in Queries /\ m = Start(m.query)
          \/ m.type = "end" /\ m.query \in Queries /\ m = End(m.query)
      BY <2>2, MessageKinds DEF m
    <3>3. CASE m = Listening /\ m.type = "listening"
      BY <2>5, <3>1, <3>3, MessageFacts
    <3>4. CASE m.type = "start" /\ m.query \in Queries /\ m = Start(m.query)
      BY <2>5, <3>1, <3>4, MessageFacts DEF TypeOK
    <3>5. CASE m.type = "end" /\ m.query \in Queries /\ m = End(m.query)
      BY <2>5, <3>1, <3>5, MessageFacts DEF TypeOK
    <3> QED  BY <3>2, <3>3, <3>4, <3>5
  <2>6. m = Start(p) => worker[p] = w
    BY <2>3 DEF MessagesOfOwn
  <2> QED  BY <2>1, <2>2, <2>3, <2>5, <2>6
<1>20. ASSUME NEW w \in Workers, WorkerExits(w)
       PROVE  DeliveriesReported'
  BY <1>20, ChannelSame DEF WorkerExits, respawns, fork, disconnect,
       requestVars, queryVars, TypeOK, RequestsPlaced, DeliveriesReported
<1>21. ASSUME NEW p \in Queries, TimeOut(p)
       PROVE  DeliveriesReported'
  BY <1>21, ChannelSame DEF TimeOut, isConnected, masterVars, requestVars,
       queryVars, TypeOK, RequestsPlaced, DeliveriesReported
<1>22. ASSUME Sigint
       PROVE  DeliveriesReported'
  BY <1>22, ChannelSame DEF Sigint, disconnect, requestVars, queryVars,
       TypeOK, RequestsPlaced, DeliveriesReported
<1>23. CASE UNCHANGED vars
  BY <1>23, ChannelSame DEF vars, processVars, masterVars, requestVars,
       queryVars, TypeOK, RequestsPlaced, DeliveriesReported
<1> QED
  BY <1>1, <1>2, <1>3, <1>4, <1>5, <1>6, <1>7, <1>8, <1>9, <1>10, <1>11,
       <1>12, <1>13, <1>14, <1>15, <1>16, <1>17, <1>18, <1>19, <1>20, <1>21,
       <1>22, <1>23 DEF Next, WorkerStep, HandlerStep, MasterStep

LEMMA TimersSetStep ==
  ASSUME TypeOK, RequestsPlaced, MessagesOfOwn, TimersSet, [Next]_vars
  PROVE  TimersSet'
<1>1. ASSUME NEW w \in Workers, WorkerListens(w)
      PROVE  TimersSet'
  <2> SUFFICES ASSUME NEW p \in Queries, isQuery(p)', ongoing(p)',
                      mode'[worker'[p]] \in {"listening", "stopping"}
               PROVE  \/ Start(p) \in Pending'[worker'[p]]
                      \/ timer'[p] = "armed"
                      \/ "shutdown" \in inbox'[worker'[p]]
    BY DEF TimersSet
  <2>1. /\ isQuery(p) => worker[p] \in Workers
        /\ isQuery(p) /\ ongoing(p) /\ mode[worker[p]] \in {"listening", "stopping"} =>
             \/ Start(p) \in Pending[worker[p]]
             \/ timer[p] = "armed"
             \/ "shutdown" \in inbox[worker[p]]
    BY DEF isQuery, RequestsPlaced, TimersSet
  <2>2. channel' = [channel EXCEPT ![w] = Append(@, Listening)]
    BY <1>1 DEF WorkerListens
  <2>3. /\ Pending'[w] = Pending[w] \cup {Listening}
        /\ \A v \in Workers : v # w => Pending'[v] = Pending[v]
    BY <2>2, ChannelTyped, MessageFacts, ChannelAppend
  <2>4. /\ UNCHANGED <<worker, kind, phase, timer, inbox>>
        /\ \A v \in Workers : v # w => mode'[v] = mode[v]
    BY <1>1 DEF WorkerListens, requestVars, queryVars, TypeOK
  <2>5. worker[p] # w
    BY <1>1, <2>4 DEF WorkerListens, ongoing, RequestsPlaced
  <2> QED  BY <2>1, <2>3, <2>4, <2>5 DEF isQuery, ongoing
<1>2. ASSUME NEW w \in Workers, ReceiveShutdown(w)
      PROVE  TimersSet'
  BY <1>2, ChannelSame DEF ReceiveShutdown, masterVars, requestVars,
       queryVars, TypeOK, RequestsPlaced, TimersSet, isQuery, ongoing
<1>3. ASSUME NEW w \in Workers, ReceiveDisconnect(w)
      PROVE  TimersSet'
  BY <1>3, ChannelSame DEF ReceiveDisconnect, masterVars, requestVars,
       queryVars, TypeOK, RequestsPlaced, TimersSet, isQuery, ongoing
<1>4. ASSUME NEW w \in Workers, LeaveCluster(w)
      PROVE  TimersSet'
  BY <1>4, ChannelSame DEF LeaveCluster, masterVars, requestVars, queryVars,
       TypeOK, RequestsPlaced, TimersSet, isQuery, ongoing
<1>5. ASSUME NEW w \in Workers, ExitWhenIdle(w)
      PROVE  TimersSet'
  BY <1>5, ChannelSame DEF ExitWhenIdle, ExitWith, masterVars, requestVars,
       TypeOK, RequestsPlaced, TimersSet, isQuery, ongoing
<1>6. ASSUME NEW w \in Workers, TerminateWorker(w)
      PROVE  TimersSet'
  BY <1>6, ChannelSame DEF TerminateWorker, ExitWith, masterVars, requestVars,
       TypeOK, RequestsPlaced, TimersSet, isQuery, ongoing
<1>7. ASSUME NEW w \in Workers, Crash(w)
      PROVE  TimersSet'
  BY <1>7, ChannelSame DEF Crash, ExitWith, alive, masterVars, requestVars,
       TypeOK, RequestsPlaced, TimersSet, isQuery, ongoing
<1>8. ASSUME NEW w \in Workers, NEW q \in Queries, EndConnection(w, q)
      PROVE  TimersSet'
  BY <1>8, ChannelSame DEF EndConnection, processVars, masterVars,
       requestVars, TypeOK, RequestsPlaced, TimersSet, isQuery, ongoing
<1>9. ASSUME NEW q \in Queries, NEW w \in Workers, Request(q, w)
      PROVE  TimersSet'
  <2> SUFFICES ASSUME NEW p \in Queries, isQuery(p)', ongoing(p)',
                      mode'[worker'[p]] \in {"listening", "stopping"}
               PROVE  \/ Start(p) \in Pending'[worker'[p]]
                      \/ timer'[p] = "armed"
                      \/ "shutdown" \in inbox'[worker'[p]]
    BY DEF TimersSet
  <2>1. /\ isQuery(p) => worker[p] \in Workers
        /\ isQuery(p) /\ ongoing(p) /\ mode[worker[p]] \in {"listening", "stopping"} =>
             \/ Start(p) \in Pending[worker[p]]
             \/ timer[p] = "armed"
             \/ "shutdown" \in inbox[worker[p]]
    BY DEF isQuery, RequestsPlaced, TimersSet
  <2>2. /\ UNCHANGED <<timer, mode, inbox>> /\ worker'[q] = w
        /\ \A r \in Queries : r # q =>
             worker'[r] = worker[r] /\ kind'[r] = kind[r] /\ phase'[r] = phase[r]
    BY <1>9 DEF Request, StartEvaluating, processVars, TypeOK
  <2>3. CASE channel' = [channel EXCEPT ![w] = Append(@, Start(q))]
    <3>1. /\ Pending'[w] = Pending[w] \cup {Start(q)}
          /\ \A v \in Workers : v # w => Pending'[v] = Pending[v]
      BY <2>3, ChannelTyped, MessageFacts, ChannelAppend
    <3> QED  BY <2>1, <2>2, <3>1 DEF isQuery, ongoing
  <2>4. CASE channel' = channel /\ (p = q => ~isQuery(p)' \/ ~ongoing(p)')
    BY <2>1, <2>2, <2>4, ChannelSame DEF isQuery, ongoing
  <2>5. \/ channel' = [channel EXCEPT ![w] = Append(@, Start(q))]
        \/ channel' = channel /\ (~isQuery(q)' \/ ~ongoing(q)')
    BY <1>9 DEF Request, StartEvaluating, isQuery, ongoing, TypeOK
  <2> QED  BY <2>3, <2>4, <2>5
<1>10. ASSUME NEW q \in Queries, BodyParsed(q)
       PROVE  TimersSet'
  <2> SUFFICES ASSUME NEW p \in Queries, isQuery(p)', ongoing(p)',
                      mode'[worker'[p]] \in {"listening", "stopping"}
               PROVE  \/ Start(p) \in Pending'[worker'[p]]
                      \/ timer'[p] = "armed"
                      \/ "shutdown" \in inbox'[worker'[p]]
    BY DEF TimersSet
  <2>1. /\ isQuery(p) => worker[p] \in Workers
        /\ isQuery(p) /\ ongoing(p) /\ mode[worker[p]] \in {"listening", "stopping"} =>
             \/ Start(p) \in Pending[worker[p]]
             \/ timer[p] = "armed"
             \/ "shutdown" \in inbox[worker[p]]
    BY DEF isQuery, RequestsPlaced, TimersSet
  <2>2. /\ worker[q] \in Workers /\ phase[q] = "parsing"
        /\ UNCHANGED <<worker, kind, timer, mode, inbox>>
        /\ \A r \in Queries : r # q => phase'[r] = phase[r]
    BY <1>10 DEF BodyParsed, StartEvaluating, RequestsPlaced, requestVars, processVars, TypeOK
  <2>3. channel' = [channel EXCEPT ![worker[q]] = Append(@, Start(q))]
    BY <1>10 DEF BodyParsed, StartEvaluating
  <2>4. /\ Pending'[worker[q]] = Pending[worker[q]] \cup {Start(q)}
        /\ \A v \in Workers : v # worker[q] => Pending'[v] = Pending[v]
    BY <2>2, <2>3, ChannelTyped, MessageFacts, ChannelAppend
  <2> QED  BY <2>1, <2>2, <2>4 DEF isQuery, ongoing
<1>11. ASSUME NEW q \in Queries, BodyRejected(q)
       PROVE  TimersSet'
  BY <1>11, ChannelSame DEF BodyRejected, Uncaught, masterVars, requestVars,
       TypeOK, RequestsPlaced, TimersSet, isQuery, ongoing
<1>12. ASSUME NEW q \in Queries, EvaluationResolves(q)
       PROVE  TimersSet'
  BY <1>12, ChannelSame DEF EvaluationResolves, WriteHeadThrows, Uncaught,
       Respond, headersSent, masterVars, requestVars, TypeOK, RequestsPlaced,
       TimersSet, isQuery, ongoing
<1>13. ASSUME NEW q \in Queries, EvaluationRejects(q)
       PROVE  TimersSet'
  BY <1>13, ChannelSame DEF EvaluationRejects, WriteHeadThrows, Uncaught,
       Respond, headersSent, masterVars, requestVars, TypeOK, RequestsPlaced,
       TimersSet, isQuery, ongoing
<1>14. ASSUME NEW q \in Queries, SerializationResolves(q)
       PROVE  TimersSet'
  BY <1>14, ChannelSame DEF SerializationResolves, processVars, masterVars,
       requestVars, TypeOK, RequestsPlaced, TimersSet, isQuery, ongoing
<1>15. ASSUME NEW q \in Queries, SerializationRejects(q)
       PROVE  TimersSet'
  BY <1>15, ChannelSame DEF SerializationRejects, Uncaught, masterVars,
       requestVars, TypeOK, RequestsPlaced, TimersSet, isQuery, ongoing
<1>16. ASSUME NEW q \in Queries, ResultEnds(q)
       PROVE  TimersSet'
  BY <1>16, ChannelSame DEF ResultEnds, Respond, processVars, masterVars,
       requestVars, TypeOK, RequestsPlaced, TimersSet, isQuery, ongoing
<1>17. ASSUME NEW q \in Queries, ResponseCloses(q)
       PROVE  TimersSet'
  <2> DEFINE ans == answer
  <2> SUFFICES ASSUME NEW p \in Queries, isQuery(p)', ongoing(p)',
                      mode'[worker'[p]] \in {"listening", "stopping"}
               PROVE  \/ Start(p) \in Pending'[worker'[p]]
                      \/ timer'[p] = "armed"
                      \/ "shutdown" \in inbox'[worker'[p]]
    BY DEF TimersSet
  <2>0. /\ isQuery(p) => worker[p] \in Workers
        /\ isQuery(p) /\ ongoing(p) /\ mode[worker[p]] \in {"listening", "stopping"} =>
             \/ Start(p) \in Pending[worker[p]]
             \/ timer[p] = "armed"
             \/ "shutdown" \in inbox[worker[p]]
    BY DEF isQuery, RequestsPlaced, TimersSet
  <2>1. /\ worker[q] \in Workers /\ Close(q, ans)
        /\ UNCHANGED <<worker, kind, timer, inbox>>
    BY <1>17 DEF ResponseCloses, RequestsPlaced, requestVars
  <2>2. ans \in [Queries -> {"none", "result", "error", "cut", "lost"}]
    BY DEF TypeOK
  <2>3. IF phase[q] = "streaming" /\ kind[q] = "query"
        THEN channel' = [channel EXCEPT ![worker[q]] = Append(@, End(q))]
        ELSE channel' = channel
    BY <2>1, <2>2, Closing
  <2>4. /\ ongoing(p)' => ongoing(p)
        /\ mode'[worker'[p]] \in {"listening", "stopping"} => mode'[worker'[p]] = mode[worker[p]]
    <3>1. CASE phase[q] = "streaming" /\ freshWorkerPerQuery
      BY <2>0, <2>1, <3>1 DEF Close, ExitWith, isQuery, ongoing, TypeOK
    <3>2. CASE ~(phase[q] = "streaming" /\ freshWorkerPerQuery)
      BY <2>0, <2>1, <3>2 DEF Close, isQuery, ongoing, TypeOK
    <3> QED  BY <3>1, <3>2
  <2>5. CASE phase[q] = "streaming" /\ kind[q] = "query"
    <3>1. channel' = [channel EXCEPT ![worker[q]] = Append(@, End(q))]
      BY <2>3, <2>5
    <3>2. /\ Pending'[worker[q]] = Pending[worker[q]] \cup {End(q)}
          /\ \A v \in Workers : v # worker[q] => Pending'[v] = Pending[v]
      BY <2>1, <3>1, ChannelTyped, MessageFacts, ChannelAppend
    <3> QED  BY <2>0, <2>1, <2>4, <3>2 DEF isQuery
  <2>6. CASE ~(phase[q] = "streaming" /\ kind[q] = "query")
    BY <2>0, <2>1, <2>3, <2>4, <2>6, ChannelSame DEF isQuery
  <2> QED  BY <2>5, <2>6
<1>18. ASSUME NEW q \in Queries, ClientDisconnects(q)
       PROVE  TimersSet'
  <2> DEFINE ans == [answer EXCEPT ![q] = "lost"]
  <2> SUFFICES ASSUME NEW p \in Queries, isQuery(p)', ongoing(p)',
                      mode'[worker'[p]] \in {"listening", "stopping"}
               PROVE  \/ Start(p) \in Pending'[worker'[p]]
                      \/ timer'[p] = "armed"
                      \/ "shutdown" \in inbox'[worker'[p]]
    BY DEF TimersSet
  <2>0. /\ isQuery(p) => worker[p] \in Workers
        /\ isQuery(p) /\ ongoing(p) /\ mode[worker[p]] \in {"listening", "stopping"} =>
             \/ Start(p) \in Pending[worker[p]]
             \/ timer[p] = "armed"
             \/ "shutdown" \in inbox[worker[p]]
    BY DEF isQuery, RequestsPlaced, TimersSet
  <2>1. /\ worker[q] \in Workers /\ Close(q, ans)
        /\ UNCHANGED <<worker, kind, timer, inbox>>
    BY <1>18 DEF ClientDisconnects, RequestsPlaced, requestVars
  <2>2. ans \in [Queries -> {"none", "result", "error", "cut", "lost"}]
    BY DEF TypeOK
  <2>3. IF phase[q] = "streaming" /\ kind[q] = "query"
        THEN channel' = [channel EXCEPT ![worker[q]] = Append(@, End(q))]
        ELSE channel' = channel
    BY <2>1, <2>2, Closing
  <2>4. /\ ongoing(p)' => ongoing(p)
        /\ mode'[worker'[p]] \in {"listening", "stopping"} => mode'[worker'[p]] = mode[worker[p]]
    <3>1. CASE phase[q] = "streaming" /\ freshWorkerPerQuery
      BY <2>0, <2>1, <3>1 DEF Close, ExitWith, isQuery, ongoing, TypeOK
    <3>2. CASE ~(phase[q] = "streaming" /\ freshWorkerPerQuery)
      BY <2>0, <2>1, <3>2 DEF Close, isQuery, ongoing, TypeOK
    <3> QED  BY <3>1, <3>2
  <2>5. CASE phase[q] = "streaming" /\ kind[q] = "query"
    <3>1. channel' = [channel EXCEPT ![worker[q]] = Append(@, End(q))]
      BY <2>3, <2>5
    <3>2. /\ Pending'[worker[q]] = Pending[worker[q]] \cup {End(q)}
          /\ \A v \in Workers : v # worker[q] => Pending'[v] = Pending[v]
      BY <2>1, <3>1, ChannelTyped, MessageFacts, ChannelAppend
    <3> QED  BY <2>0, <2>1, <2>4, <3>2 DEF isQuery
  <2>6. CASE ~(phase[q] = "streaming" /\ kind[q] = "query")
    BY <2>0, <2>1, <2>3, <2>4, <2>6, ChannelSame DEF isQuery
  <2> QED  BY <2>5, <2>6
<1>19. ASSUME NEW w \in Workers, ReceiveMessage(w)
       PROVE  TimersSet'
  <2> SUFFICES ASSUME NEW p \in Queries, isQuery(p)', ongoing(p)',
                      mode'[worker'[p]] \in {"listening", "stopping"}
               PROVE  \/ Start(p) \in Pending'[worker'[p]]
                      \/ timer'[p] = "armed"
                      \/ "shutdown" \in inbox'[worker'[p]]
    BY DEF TimersSet
  <2>1. /\ isQuery(p) => worker[p] \in Workers
        /\ isQuery(p) /\ ongoing(p) /\ mode[worker[p]] \in {"listening", "stopping"} =>
             \/ Start(p) \in Pending[worker[p]]
             \/ timer[p] = "armed"
             \/ "shutdown" \in inbox[worker[p]]
    BY DEF isQuery, RequestsPlaced, TimersSet
  <2>2. /\ channel[w] # <<>> /\ channel' = [channel EXCEPT ![w] = Tail(@)]
        /\ UNCHANGED <<worker, kind, phase, mode, inbox>>
    BY <1>19 DEF ReceiveMessage, requestVars, queryVars, processVars
  <2> DEFINE m == Head(channel[w])
  <2>3. /\ m \in Pending[w]
        /\ \A v \in Workers : v # w => Pending'[v] = Pending[v]
        /\ Pending[w] \subseteq Pending'[w] \cup {m}
    BY <2>2, ChannelTail DEF TypeOK
  <2>4. /\ m = Start(p) => timer'[p] = "armed"
        /\ timer[p] = "armed" /\ m # End(p) => timer'[p] = "armed"
    <3>1. /\ m.type = "listening" => timer' = timer
          /\ m.type = "start" => timer' = [timer EXCEPT ![m.query] = "armed"]
          /\ m.type = "end" => timer' = [timer EXCEPT ![m.query] =
                                        IF @ = "armed" THEN "cleared" ELSE @]
      BY <1>19 DEF ReceiveMessage
    <3>2. \/ m = Listening /\ m.type = "listening"
          \/ m.type = "start" /\ m.query \in Queries /\ m = Start(m.query)
          \/ m.type = "end" /\ m.query \in Queries /\ m = End(m.query)
      BY <2>2, MessageKinds
    <3> HIDE DEF m
    <3>3. CASE m = Listening /\ m.type = "listening"
      BY <3>1, <3>3, MessageFacts
    <3>4. CASE m.type = "start" /\ m.query \in Queries /\ m = Start(m.query)
      BY <3>1, <3>4, MessageFacts DEF TypeOK
    <3>5. CASE m.type = "end" /\ m.query \in Queries /\ m = End(m.query)
      BY <3>1, <3>5, MessageFacts DEF TypeOK
    <3> QED  BY <3>2, <3>3, <3>4, <3>5
  <2> HIDE DEF m
  <2>5. m # End(p)
    BY <2>2, <2>3 DEF MessagesOfOwn, ongoing
  <2> QED  BY <2>1, <2>2, <2>3, <2>4, <2>5 DEF isQuery, ongoing
<1>20. ASSUME NEW w \in Workers, WorkerExits(w)
       PROVE  TimersSet'
  <2> SUFFICES ASSUME NEW p \in Queries, isQuery(p)', ongoing(p)',
                      mode'[worker'[p]] \in {"listening", "stopping"}
               PROVE  \/ Start(p) \in Pending'[worker'[p]]
                      \/ timer'[p] = "armed"
                      \/ "shutdown" \in inbox'[worker'[p]]
    BY DEF TimersSet
  <2>1. /\ isQuery(p) => worker[p] \in Workers
        /\ isQuery(p) /\ ongoing(p) /\ mode[worker[p]] \in {"listening", "stopping"} =>
             \/ Start(p) \in Pending[worker[p]]
             \/ timer[p] = "armed"
             \/ "shutdown" \in inbox[worker[p]]
    BY DEF isQuery, RequestsPlaced, TimersSet
  <2>2. UNCHANGED <<channel, worker, kind, phase, timer>>
    BY <1>20 DEF WorkerExits, requestVars, queryVars
  <2>3. \A v \in Workers : mode'[v] \in {"listening", "stopping"} => mode'[v] = mode[v]
    BY <1>20 DEF WorkerExits, fork, disconnect, TypeOK
  <2>4. \A v \in Workers : "shutdown" \in inbox[v] => "shutdown" \in inbox'[v]
    <3>1. inbox' = inbox \/ \A v \in Workers : inbox'[v] \in {inbox[v], inbox[v] \cup {"disconnect"}}
      BY <1>20 DEF WorkerExits, disconnect
    <3> QED  BY <3>1
  <2> QED  BY <2>1, <2>2, <2>3, <2>4, ChannelSame DEF isQuery, ongoing
<1>21. ASSUME NEW p \in Queries, TimeOut(p)
       PROVE  TimersSet'
  BY <1>21, ChannelSame DEF TimeOut, isConnected, masterVars, requestVars,
       queryVars, TypeOK, RequestsPlaced, TimersSet, isQuery, ongoing
<1>22. ASSUME Sigint
       PROVE  TimersSet'
  BY <1>22, ChannelSame DEF Sigint, disconnect, requestVars, queryVars,
       TypeOK, RequestsPlaced, TimersSet, isQuery, ongoing
<1>23. CASE UNCHANGED vars
  BY <1>23, ChannelSame DEF vars, processVars, masterVars, requestVars,
       queryVars, TypeOK, RequestsPlaced, TimersSet, isQuery, ongoing
<1> QED
  BY <1>1, <1>2, <1>3, <1>4, <1>5, <1>6, <1>7, <1>8, <1>9, <1>10, <1>11,
       <1>12, <1>13, <1>14, <1>15, <1>16, <1>17, <1>18, <1>19, <1>20, <1>21,
       <1>22, <1>23 DEF Next, WorkerStep, HandlerStep, MasterStep

-----------------------------------------------------------------------------
(* The theorems.                                                           *)

LEMMA InitInv == Init => Inv
<1> SUFFICES ASSUME Init PROVE Inv
  OBVIOUS
<1>1. TypeOK
  <2>1. forked = PoolSize /\ PoolSize \in PoolSize..MaxWorkers
    BY EndpointAssumption DEF Init, forkedAtStart
  <2>2. mode \in [Workers -> Modes]
    BY ValueFacts DEF Init
  <2>3. channel \in [Workers -> Seq(Messages)]
    BY DEF Init
  <2> QED  BY <2>1, <2>2, <2>3, EndpointAssumption, ValueFacts DEF Init, TypeOK
<1>2. \A w \in Workers : Pending[w] = {}
  BY DEF Init, Pending
<1>3. WorkersForked
  BY ForkedFacts, <1>1 DEF Init, WorkersForked, forkedAtStart
<1>4. RequestsPlaced /\ ResultsStreamed /\ DeliveriesReported /\ AllDisconnected
  BY DEF Init, RequestsPlaced, ResultsStreamed, DeliveriesReported, AllDisconnected
<1>5. MessagesOfOwn
  BY <1>2 DEF MessagesOfOwn
<1>6. TimersSet
  BY DEF Init, TimersSet, isQuery
<1> QED  BY <1>1, <1>3, <1>4, <1>5, <1>6 DEF Inv

LEMMA NextInv == Inv /\ [Next]_vars => Inv'
BY TypeStep, WorkersForkedStep, RequestsPlacedStep, MessagesOfOwnStep, ResultsStreamedStep,
   DeliveriesReportedStep, TimersSetStep, AllDisconnectedStep DEF Inv

LEMMA InvHolds == Spec => []Inv
BY InitInv, NextInv, PTL DEF Spec

(* Type correctness, whatever crashes, times out or is shut down. *)
THEOREM TypeCorrect == Spec => []TypeOK
<1>1. Inv => TypeOK
  BY DEF Inv
<1> QED  BY <1>1, InvHolds, PTL

LEMMA PendingMessages ==
  \A w \in Workers : \A m : underWay(m, w) <=> m \in Pending[w]
BY DEF underWay, Pending

(* No query of a serving worker escapes the time limit: the master has a   *)
(* timer for it, will set one, or has told the worker to shut down.        *)
THEOREM NoQueryEscapes == Spec => []TimersCoverQueries
<1>1. Inv => TimersCoverQueries
  <2> SUFFICES ASSUME Inv, NEW q \in Queries, isQuery(q), ongoing(q),
                      mode[worker[q]] \in {"listening", "stopping"}
               PROVE  \/ underWay(Start(q), worker[q]) \/ timer[q] = "armed"
                      \/ "shutdown" \in inbox[worker[q]]
    BY DEF TimersCoverQueries
  <2>1. worker[q] \in Workers
    BY DEF Inv, RequestsPlaced, isQuery
  <2> QED  BY <2>1, PendingMessages DEF Inv, TimersSet
<1> QED  BY <1>1, InvHolds, PTL

(* The end of a query that was delivered reaches the master after its      *)
(* start: no timer stays behind.                                           *)
THEOREM NoTimerStaysBehind == Spec => []CompletedQueriesAreReported
<1>1. Inv => CompletedQueriesAreReported
  <2> SUFFICES ASSUME Inv, NEW q \in Queries, kind[q] = "query", answer[q] = "result",
                      response[q] = "closed", timer[q] = "armed"
               PROVE  underWay(End(q), worker[q])
    BY DEF CompletedQueriesAreReported
  <2>1. worker[q] \in Workers
    BY DEF Inv, RequestsPlaced
  <2> QED  BY <2>1, PendingMessages DEF Inv, DeliveriesReported
<1> QED  BY <1>1, InvHolds, PTL

(* A worker that exits although it was told to leave is not replaced, and  *)
(* all that are left were told so: nothing is forked in a cluster that goes*)
(* down, however many workers crash.                                       *)
THEOREM NothingForkedAfterDisconnect == Spec => NoForkAfterDisconnect
<1>1. ASSUME Inv, [Next]_vars
      PROVE  [exitedAfterDisconnect # {} => forked' = forked]_vars
  <2> SUFFICES ASSUME Next, exitedAfterDisconnect # {}
               PROVE  forked' = forked
    BY <1>1
  <2>1. ASSUME NEW w \in Workers, WorkerExits(w)
        PROVE  forked' = forked
    <3>1. w \in (1..forked) \ reaped
      BY <1>1, <2>1, ForkedFacts DEF Inv, WorkersForked, WorkerExits
    <3>2. w \in exitedAfterDisconnect
      BY <1>1, <3>1 DEF Inv, AllDisconnected
    <3> QED  BY <2>1, <3>2 DEF WorkerExits, respawns, disconnect
  <2>2. ASSUME ~\E w \in Workers : WorkerExits(w)
        PROVE  forked' = forked
    <3>1. CASE WorkerStep
      BY <3>1 DEF WorkerStep, masterVars, WorkerListens, ReceiveShutdown, ReceiveDisconnect,
         LeaveCluster, ExitWhenIdle, TerminateWorker, Crash, EndConnection, Request
    <3>2. CASE HandlerStep
      BY <3>2 DEF HandlerStep, masterVars, BodyParsed, BodyRejected, EvaluationResolves,
         EvaluationRejects, SerializationResolves, SerializationRejects, ResultEnds,
         ResponseCloses, ClientDisconnects
    <3>3. CASE MasterStep
      BY <2>2, <3>3 DEF MasterStep, masterVars, ReceiveMessage, TimeOut, Sigint
    <3> QED  BY <3>1, <3>2, <3>3 DEF Next
  <2> QED  BY <2>1, <2>2
<1> QED  BY <1>1, InvHolds, PTL DEF Spec, NoForkAfterDisconnect

=============================================================================
