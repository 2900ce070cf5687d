-------------------------- MODULE HttpClient_proof --------------------------
(* A repeated request waits for the date its host asked for last, and the  *)
(* requests to a host that is rate limited are spread: for any hosts and   *)
(* requests, delays, limits and numbers of invalidations.                  *)
EXTENDS HttpClient, TLAPS

Phases == {"new", "sleeping", "sending", "queued", "sent", "done", "failed"}

Requests ==
  [phase : Phases, attempt : Nat \ {0}, wake : Nat, elapsed : Nat, delay : Nat,
   generation : Generations]
Data == [latest : Int, limited : BOOLEAN, interval : Nat \cup {None}]
Timers == [host : Host, wake : Nat]

TypeOK ==
  /\ requests \in [Request -> Requests]
  /\ activeDelays \in [Host -> Int] /\ asked \in [Host -> Int]
  /\ timers \in SUBSET Timers
  /\ hostData \in [Host \X Generations -> Data]
  /\ generation \in [Host -> Generations] /\ invalidations \in Generations

\* The date a host asked for is its delay until it has come, and no timer of the
\* host cleans it up before.
DateIsKept ==
  \A h \in Host : asked[h] > 0 =>
    /\ activeDelays[h] = asked[h] /\ asked[h] <= MaxTimeout
    /\ \A t \in timers : t.host = h => t.wake >= asked[h]

\* What the limiter made a request wait does not count as the time of its answer.
AnswerTakesTime ==
  \A r \in Request :
    /\ requests[r].phase = "queued" => requests[r].elapsed + requests[r].wake >= requests[r].delay
    /\ requests[r].phase = "sent" => requests[r].elapsed >= requests[r].delay

\* A request only waits for a host that is limited at an interval, and the time
\* reserved last at its host is not before its own.
TimeIsReserved ==
  \A q \in Request : requests[q].phase = "queued" /\ requests[q].wake > 0 =>
    LET data == hostData[HostOfGeneration(q)]
    IN /\ data.limited /\ data.interval # None
       /\ ~AllowOverlap => data.latest >= requests[q].wake

IInv == TypeOK /\ DateIsKept /\ AnswerTakesTime /\ TimeIsReserved

-----------------------------------------------------------------------------
(* Numbers.                                                                *)
LEMMA ConstantTypes ==
  /\ RetryCount \in Nat \ {0} /\ CorrectionDivisor \in Nat \ {0} /\ MaxTimeout \in Nat \ {0}
  /\ RetryDelayFallback \in Nat /\ RetryDelayLimit \in Nat /\ FailureMultiplier \in Nat
  /\ MaxDuration \in Nat /\ MaxInvalidations \in Nat /\ MaxInterval \in Nat
  /\ RetryAfters \subseteq Int /\ AllowOverlap \in BOOLEAN /\ LimitByDefault \in BOOLEAN
  /\ HostOf \in [Request -> Host]
BY HttpAssumption DEF MaxInterval

LEMMA ProductOfNaturals ==
  ASSUME NEW a \in Nat, NEW b \in Nat, a <= b, NEW d \in Nat \ {0}
  PROVE  d * a \in Nat /\ a <= d * a /\ d * a <= d * b
OBVIOUS

\* Rounding keeps the bounds that are whole numbers.
LEMMA RoundBounds ==
  ASSUME NEW n \in Int, NEW d \in Nat \ {0}, NEW a \in Nat, n >= -a
  PROVE  Round(n, d) \in Int /\ Round(n, d) >= -a
<1> DEFINE m == 2 * n + d
           k == 2 * d
           q == m \div k
<1>1. m \in Int /\ k \in Nat \ {0} /\ m >= -2 * a + d
  OBVIOUS
<1>2. q \in Int /\ m < k * (q + 1)
  <2> HIDE DEF m, k
  <2> QED  BY <1>1
<1>3. ASSUME q < -a PROVE FALSE
  <2> HIDE DEF q, m
  <2>1. -(q + 1) \in Nat /\ a <= -(q + 1)
    BY <1>2, <1>3
  <2>2. k * a <= k * (-(q + 1)) /\ k * a \in Nat
    BY <1>1, <2>1, ProductOfNaturals
  <2>3. k * (-(q + 1)) = -(k * (q + 1))
    BY <1>1, <1>2
  <2>4. k * a = 2 * (d * a) /\ d * a >= a /\ d * a \in Nat
    BY ProductOfNaturals
  <2>5. m < -(2 * (d * a))
    <3> HIDE DEF k
    <3>1. k * (q + 1) \in Int
      BY <1>1, <1>2
    <3> QED  BY <1>1, <1>2, <2>2, <2>3, <2>4, <3>1
  <2> QED  BY <1>1, <2>4, <2>5
<1>4. q >= -a
  <2> HIDE DEF q
  <2> QED  BY <1>2, <1>3
<1> QED  BY <1>2, <1>4 DEF Round

LEMMA TimeoutFacts ==
  ASSUME NEW ms \in Int
  PROVE  /\ Timeout(ms) \in Nat
         /\ ms > 0 /\ ms <= MaxTimeout => Timeout(ms) = ms
BY ConstantTypes DEF Timeout, AtLeast

LEMMA AttemptFacts ==
  ASSUME NEW attempt \in Nat \ {0}, NEW delay \in Int, NEW exceeds \in BOOLEAN
  PROVE  LET next == Attempt(attempt, delay, exceeds)
         IN /\ next \in Requests /\ next.attempt = attempt
            /\ next.phase \in {"failed", "sleeping", "sending"}
            /\ ~exceeds /\ delay > 0 /\ attempt > 1 =>
                 next.phase = "sleeping" /\ next.wake = Timeout(delay)
            /\ exceeds => next.phase = "failed"
<1>2. 0 \in Generations
  BY ConstantTypes DEF Generations
<1> DEFINE phase == IF exceeds THEN "failed"
                    ELSE IF delay > 0 /\ attempt > 1 THEN "sleeping" ELSE "sending"
           wake == IF ~exceeds /\ delay > 0 /\ attempt > 1 THEN Timeout(delay) ELSE 0
<1>3. phase \in {"failed", "sleeping", "sending"} /\ phase \in Phases
  BY DEF Phases
<1>4. wake \in Nat
  BY TimeoutFacts
<1>5. Attempt(attempt, delay, exceeds) =
        [phase |-> phase, attempt |-> attempt, wake |-> wake, elapsed |-> 0, delay |-> 0,
         generation |-> 0]
  <2>1. Attempt(attempt, delay, exceeds) =
          [NewRequest EXCEPT !.attempt = attempt, !.phase = phase, !.wake = wake]
    BY DEF Attempt
  <2> HIDE DEF phase, wake
  <2> QED  BY <2>1 DEF NewRequest
<1>6. Attempt(attempt, delay, exceeds) \in Requests
  <2> HIDE DEF phase, wake
  <2> QED  BY <1>2, <1>3, <1>4, <1>5 DEF Requests
<1> QED  BY <1>3, <1>5, <1>6

-----------------------------------------------------------------------------
LEMMA InitInv == Init => IInv
<1> SUFFICES ASSUME Init PROVE IInv
  OBVIOUS
<1>1. 0 \in Generations
  BY ConstantTypes DEF Generations
<1>2. NewRequest \in Requests /\ NewRequest.phase = "new"
  BY <1>1 DEF NewRequest, Requests, Phases
<1>3. NewData \in Data
  BY ConstantTypes DEF NewData, Data
<1>4. None \in Int /\ ~(None > 0)
  BY DEF None
<1>5. TypeOK
  BY <1>1, <1>2, <1>3, <1>4 DEF Init, TypeOK
<1>6. DateIsKept /\ AnswerTakesTime /\ TimeIsReserved
  BY <1>2, <1>4 DEF Init, DateIsKept, AnswerTakesTime, TimeIsReserved
<1> QED  BY <1>5, <1>6 DEF IInv

\* A request that is not at the limiter steps, and the limiter does not change.
LEMMA RequestKeeps ==
  ASSUME TypeOK, AnswerTakesTime, TimeIsReserved, NEW r \in Request, NEW next \in Requests,
         requests' = [requests EXCEPT ![r] = next],
         next.phase \notin {"queued", "sent"}, UNCHANGED hostData
  PROVE  requests' \in [Request -> Requests] /\ AnswerTakesTime' /\ TimeIsReserved'
<1>1. /\ requests' \in [Request -> Requests] /\ requests'[r] = next
      /\ \A q \in Request \ {r} : requests'[q] = requests[q]
  BY DEF TypeOK
<1>2. AnswerTakesTime'
  BY <1>1 DEF AnswerTakesTime
<1>3. TimeIsReserved'
  BY <1>1 DEF TimeIsReserved, HostOfGeneration
<1> QED  BY <1>1, <1>2, <1>3

LEMMA BeginKeeps ==
  ASSUME IInv, NEW r \in Request, Begin(r)
  PROVE  IInv'
<1> DEFINE delay == retryDelay(activeDelays, r)
           exceeds == exceedsLimit(activeDelays, r)
           next == Attempt(1, delay, exceeds)
<1>1. delay \in Int /\ exceeds \in BOOLEAN
  BY ConstantTypes DEF IInv, TypeOK, retryDelay, exceedsLimit
<1>2. requests' = [requests EXCEPT ![r] = next] /\ UNCHANGED <<activeDelays, timers, asked, hostData, generation, invalidations>>
  BY DEF Begin
<1> HIDE DEF delay, exceeds
<1>3. next \in Requests /\ next.phase \in {"failed", "sleeping", "sending"}
  BY <1>1, AttemptFacts
<1> HIDE DEF next
<1>4. requests' \in [Request -> Requests] /\ AnswerTakesTime' /\ TimeIsReserved'
  BY <1>2, <1>3, RequestKeeps DEF IInv
<1>5. TypeOK' /\ DateIsKept'
  BY <1>2, <1>4 DEF IInv, TypeOK, DateIsKept
<1> QED  BY <1>4, <1>5 DEF IInv

LEMMA WakeKeeps ==
  ASSUME IInv, NEW r \in Request, Wake(r)
  PROVE  IInv'
<1> DEFINE next == [requests[r] EXCEPT !.phase = "sending", !.wake = 0]
<1>1. requests[r] \in Requests /\ requests \in [Request -> Requests]
  BY DEF IInv, TypeOK
<1>2. /\ requests' = [requests EXCEPT ![r] = next]
      /\ next \in Requests /\ next.phase = "sending"
  BY <1>1 DEF Wake, Requests, Phases
<1> HIDE DEF next
<1>3. requests' \in [Request -> Requests] /\ AnswerTakesTime' /\ TimeIsReserved'
  BY <1>2, RequestKeeps DEF IInv, Wake
<1>4. TypeOK' /\ DateIsKept'
  BY <1>3 DEF IInv, TypeOK, DateIsKept, Wake
<1> QED  BY <1>3, <1>4 DEF IInv

LEMMA limitDelayFacts ==
  ASSUME NEW data \in Data
  PROVE  /\ limitDelay(data) \in Nat
         /\ limitDelay(data) > 0 => data.limited /\ data.interval # None
         /\ data.limited /\ data.interval # None =>
              limitDelay(data) >= data.latest /\ limitDelay(data) >= data.latest + data.interval
<1>1. data.latest \in Int /\ (data.interval # None => data.interval \in Nat)
  BY DEF Data
<1> QED  BY <1>1 DEF limitDelay, AtLeast

LEMMA LimitKeeps ==
  ASSUME IInv, NEW r \in Request, Limit(r)
  PROVE  IInv'
<1> DEFINE hg == <<HostOf[r], generation[HostOf[r]]>>
           delay == limitDelay(hostData[hg])
           phase == IF delay > 0 THEN "queued" ELSE "sent"
           next == [requests[r] EXCEPT
                      !.phase = phase, !.wake = delay,
                      !.delay = delay, !.elapsed = 0, !.generation = generation[HostOf[r]]]
           data == [hostData[hg] EXCEPT !.latest = reserved(delay)]
<1> USE DEF IInv
<1>1. /\ requests[r] \in Requests /\ requests \in [Request -> Requests]
      /\ generation[HostOf[r]] \in Generations /\ hg \in Host \X Generations
      /\ hostData \in [Host \X Generations -> Data] /\ hostData[hg] \in Data
  BY ConstantTypes DEF TypeOK
<1>2. /\ hostData' = [hostData EXCEPT ![hg] = data] /\ requests' = [requests EXCEPT ![r] = next]
      /\ UNCHANGED <<activeDelays, timers, asked, generation, invalidations>>
  BY <1>1 DEF Limit
<1>3. /\ delay \in Nat
      /\ delay > 0 => hostData[hg].limited /\ hostData[hg].interval # None
      /\ hostData[hg].limited /\ hostData[hg].interval # None => delay >= hostData[hg].latest
  BY <1>1, limitDelayFacts
<1> HIDE DEF delay, hg
<1>4. /\ next \in Requests /\ next.phase = phase
      /\ next.wake = delay /\ next.delay = delay /\ next.elapsed = 0
      /\ next.generation = generation[HostOf[r]]
  <2> DEFINE old == requests[r]
             g == generation[HostOf[r]]
             waits == [old EXCEPT !.phase = phase, !.wake = delay, !.delay = delay]
  <2>1. phase \in Phases
    BY DEF Phases
  <2> HIDE DEF phase
  <2>2. old \in Requests /\ g \in Generations
    BY <1>1
  <2> HIDE DEF old, g
  <2>3. waits \in Requests /\ waits.phase = phase /\ waits.wake = delay /\ waits.delay = delay
    BY <1>3, <2>1, <2>2 DEF Requests
  <2>4. [old EXCEPT !.phase = phase, !.wake = delay, !.delay = delay, !.elapsed = 0,
                    !.generation = g]
          = [waits EXCEPT !.elapsed = 0, !.generation = g]
    OBVIOUS
  <2> HIDE DEF waits
  <2>5. next = [waits EXCEPT !.elapsed = 0, !.generation = g]
    BY <2>4 DEF old, g
  <2> HIDE DEF next
  <2> QED  BY <2>2, <2>3, <2>5 DEF Requests, g
<1>5. reserved(delay) \in Nat /\ (~AllowOverlap => reserved(delay) = delay)
  BY <1>3 DEF reserved
<1>6. /\ data \in Data /\ data.latest = reserved(delay) /\ data.limited = hostData[hg].limited
      /\ data.interval = hostData[hg].interval
  <2> DEFINE old == hostData[hg]
  <2>1. old \in Data
    BY <1>1
  <2> HIDE DEF old
  <2>2. [old EXCEPT !.latest = reserved(delay)]
          = [latest |-> reserved(delay), limited |-> old.limited, interval |-> old.interval]
    BY <2>1 DEF Data
  <2>3. old.limited \in BOOLEAN /\ old.interval \in Nat \cup {None}
    BY <2>1 DEF Data
  <2>4. data = [latest |-> reserved(delay), limited |-> old.limited, interval |-> old.interval]
    BY <2>2 DEF old
  <2>5. data \in Data
    <3> HIDE DEF data
    <3> QED  BY <1>5, <2>3, <2>4 DEF Data
  <2> HIDE DEF data
  <2> QED  BY <2>4, <2>5 DEF old
<1> HIDE DEF next, data, phase
<1>7. /\ requests' \in [Request -> Requests] /\ requests'[r] = next
      /\ \A q \in Request \ {r} : requests'[q] = requests[q]
  BY <1>1, <1>2, <1>4
<1>8. /\ hostData' \in [Host \X Generations -> Data] /\ hostData'[hg] = data
      /\ \A other \in Host \X Generations \ {hg} : hostData'[other] = hostData[other]
  BY <1>1, <1>2, <1>6
<1>9. TypeOK' /\ DateIsKept'
  BY <1>2, <1>7, <1>8 DEF TypeOK, DateIsKept
<1>10. AnswerTakesTime'
  BY <1>3, <1>4, <1>7 DEF AnswerTakesTime, phase
<1>11. TimeIsReserved'
  <2> SUFFICES ASSUME NEW q \in Request, requests'[q].phase = "queued", requests'[q].wake > 0
               PROVE  LET at == hostData'[<<HostOf[q], requests'[q].generation>>]
                      IN /\ at.limited /\ at.interval # None
                         /\ ~AllowOverlap => at.latest >= requests'[q].wake
    BY DEF TimeIsReserved, HostOfGeneration
  <2>1. CASE q = r
    <3>1. requests'[q] = next /\ <<HostOf[q], requests'[q].generation>> = hg
      BY <1>4, <1>7, <2>1 DEF hg
    <3>2. hostData[hg].limited /\ hostData[hg].interval # None
      BY <1>3, <1>4, <3>1
    <3>3. data.limited /\ data.interval # None
      BY <1>6, <3>2
    <3>4. ~AllowOverlap => data.latest >= requests'[q].wake
      BY <1>3, <1>4, <1>5, <1>6, <3>1
    <3> QED  BY <1>8, <3>1, <3>3, <3>4
  <2>2. CASE q # r
    <3> DEFINE at == <<HostOf[q], requests[q].generation>>
    <3>1. requests'[q] = requests[q] /\ at \in Host \X Generations /\ requests[q].wake \in Nat
      BY <1>1, <1>7, <2>2, ConstantTypes DEF Requests
    <3>2. /\ hostData[at].limited /\ hostData[at].interval # None
          /\ ~AllowOverlap => hostData[at].latest >= requests[q].wake
      BY <3>1 DEF TimeIsReserved, HostOfGeneration
    <3>3. CASE at # hg
      BY <1>8, <3>1, <3>2, <3>3
    <3>4. CASE at = hg
      <4>1. hostData[hg].latest \in Int
        BY <1>1 DEF Data
      <4>2. ~AllowOverlap => delay >= requests[q].wake
        BY <1>3, <3>1, <3>2, <3>4, <4>1
      <4>3. <<HostOf[q], requests'[q].generation>> = hg
        BY <3>1, <3>4
      <4>4. data.limited /\ data.interval # None
        BY <1>6, <3>2, <3>4
      <4> QED  BY <1>5, <1>6, <1>8, <3>1, <4>2, <4>3, <4>4
    <3> QED  BY <3>3, <3>4
  <2> QED  BY <2>1, <2>2
<1> QED  BY <1>9, <1>10, <1>11

LEMMA ReleaseKeeps ==
  ASSUME IInv, NEW r \in Request, Release(r)
  PROVE  IInv'
<1> DEFINE next == [requests[r] EXCEPT !.phase = "sent", !.wake = 0]
<1>1. requests[r] \in Requests /\ requests \in [Request -> Requests]
  BY DEF IInv, TypeOK
<1>2. /\ requests' = [requests EXCEPT ![r] = next]
      /\ next \in Requests /\ next.phase = "sent"
      /\ next.elapsed = requests[r].elapsed /\ next.delay = requests[r].delay
  BY <1>1 DEF Release, Requests, Phases
<1>3. requests[r].elapsed >= requests[r].delay
  <2>1. /\ requests[r].elapsed \in Nat /\ requests[r].wake \in Nat /\ requests[r].delay \in Nat
    BY <1>1 DEF Requests
  <2> QED  BY <2>1 DEF IInv, AnswerTakesTime, Release
<1> HIDE DEF next
<1>4. /\ requests' \in [Request -> Requests] /\ requests'[r] = next
      /\ \A q \in Request \ {r} : requests'[q] = requests[q]
  BY <1>1, <1>2
<1>5. AnswerTakesTime'
  BY <1>2, <1>3, <1>4 DEF IInv, AnswerTakesTime
<1>6. TimeIsReserved'
  BY <1>2, <1>4 DEF IInv, TimeIsReserved, HostOfGeneration, Release
<1>7. TypeOK' /\ DateIsKept'
  BY <1>4 DEF IInv, TypeOK, DateIsKept, Release
<1> QED  BY <1>5, <1>6, <1>7 DEF IInv

\* What a response teaches the limiter never ends a limit.
LEMMA RegisteredFacts ==
  ASSUME IInv, NEW r \in Request, requests[r].phase = "sent", NEW data \in Data, NEW status
  PROVE  LET registered == Registered(data, r, status)
         IN /\ registered \in Data /\ registered.latest = data.latest
            /\ data.limited => registered.limited
            /\ registered.interval \in Nat
<1> DEFINE factor == IF status = "ok" THEN 1 ELSE FailureMultiplier
           duration == factor * (requests[r].elapsed - requests[r].delay)
           interval == IF data.interval < 0 THEN Round(duration, CorrectionDivisor)
                       ELSE data.interval + Round(duration - data.interval, CorrectionDivisor)
           limited == data.limited \/ (~(status = "ok") /\ status # "404")
<1>1. requests[r].elapsed - requests[r].delay \in Nat
  BY DEF IInv, TypeOK, Requests, AnswerTakesTime
<1>2. duration \in Nat
  <2>1. factor \in Nat
    BY ConstantTypes
  <2> HIDE DEF factor
  <2> QED  BY <1>1, <2>1
<1>3. data.interval \in Nat \cup {None} /\ data.limited \in BOOLEAN /\ data.latest \in Int
  BY DEF Data
<1> HIDE DEF duration
<1>4. interval \in Nat
  <2>1. CASE data.interval < 0
    <3>1. Round(duration, CorrectionDivisor) \in Int /\ Round(duration, CorrectionDivisor) >= -0
      BY <1>2, ConstantTypes, RoundBounds
    <3> QED  BY <2>1, <3>1
  <2>2. CASE ~(data.interval < 0)
    <3> DEFINE change == Round(duration - data.interval, CorrectionDivisor)
    <3>1. data.interval \in Nat
      BY <1>3, <2>2 DEF None
    <3>2. duration - data.interval \in Int /\ duration - data.interval >= -data.interval
      BY <1>2, <3>1
    <3>3. change \in Int /\ change >= -data.interval
      BY <3>1, <3>2, ConstantTypes, RoundBounds
    <3> HIDE DEF change
    <3>4. interval = data.interval + change
      BY <2>2 DEF change
    <3> QED  BY <3>1, <3>3, <3>4
  <2> QED  BY <2>1, <2>2
<1>5. Registered(data, r, status) = [data EXCEPT !.interval = interval, !.limited = limited]
  BY DEF Registered, duration
<1>6. limited \in BOOLEAN /\ (data.limited => limited)
  BY <1>3
<1> HIDE DEF interval, limited
<1>7. /\ Registered(data, r, status) \in Data
      /\ Registered(data, r, status).latest = data.latest
      /\ Registered(data, r, status).limited = limited
      /\ Registered(data, r, status).interval = interval
  BY <1>3, <1>4, <1>5, <1>6 DEF Data
<1> QED  BY <1>4, <1>6, <1>7

\* The limiter registers what became of a request, which leaves it.
LEMMA RegisteredKeeps ==
  ASSUME IInv, NEW r \in Request, requests[r].phase = "sent", NEW status,
         hostData' = [hostData EXCEPT ![HostOfGeneration(r)] = Registered(@, r, status)],
         NEW next \in Requests, requests' = [requests EXCEPT ![r] = next],
         next.phase \notin {"queued", "sent"}
  PROVE  /\ requests' \in [Request -> Requests]
         /\ hostData' \in [Host \X Generations -> Data]
         /\ AnswerTakesTime' /\ TimeIsReserved'
<1> DEFINE hg == HostOfGeneration(r)
           data == Registered(hostData[hg], r, status)
<1>1. /\ requests \in [Request -> Requests] /\ requests[r] \in Requests
      /\ hostData \in [Host \X Generations -> Data]
  BY DEF IInv, TypeOK
<1>2. hg \in Host \X Generations
  BY <1>1, ConstantTypes DEF HostOfGeneration, Requests
<1>3. /\ data \in Data /\ data.latest = hostData[hg].latest
      /\ hostData[hg].limited => data.limited
      /\ data.interval # None
  <2>1. hostData[hg] \in Data
    BY <1>1, <1>2
  <2>2. None \notin Nat
    BY DEF None
  <2> QED  BY <2>1, <2>2, RegisteredFacts
<1>4. hostData' = [hostData EXCEPT ![hg] = data]
  BY <1>1, <1>2
<1> HIDE DEF hg, data
<1>5. /\ requests' \in [Request -> Requests] /\ requests'[r] = next
      /\ \A q \in Request \ {r} : requests'[q] = requests[q]
  BY <1>1
<1>6. /\ hostData' \in [Host \X Generations -> Data]
      /\ \A at \in Host \X Generations :
           /\ hostData'[at].latest = hostData[at].latest
           /\ hostData[at].limited => hostData'[at].limited
           /\ hostData[at].interval # None => hostData'[at].interval # None
  <2>1. hostData' \in [Host \X Generations -> Data]
    BY <1>1, <1>2, <1>3, <1>4
  <2>2. \A at \in Host \X Generations : hostData'[at] = IF at = hg THEN data ELSE hostData[at]
    BY <1>1, <1>2, <1>4
  <2> QED  BY <1>3, <2>1, <2>2
<1>7. AnswerTakesTime'
  BY <1>5 DEF IInv, AnswerTakesTime
<1>8. TimeIsReserved'
  <2> SUFFICES ASSUME NEW q \in Request, requests'[q].phase = "queued", requests'[q].wake > 0
               PROVE  LET at == hostData'[<<HostOf[q], requests'[q].generation>>]
                      IN /\ at.limited /\ at.interval # None
                         /\ ~AllowOverlap => at.latest >= requests'[q].wake
    BY DEF TimeIsReserved, HostOfGeneration
  <2>1. requests'[q] = requests[q]
    BY <1>5
  <2>2. <<HostOf[q], requests[q].generation>> \in Host \X Generations
    BY <1>1, ConstantTypes DEF Requests
  <2> QED  BY <1>6, <2>1, <2>2 DEF IInv, TimeIsReserved, HostOfGeneration
<1> QED  BY <1>5, <1>6, <1>7, <1>8

-----------------------------------------------------------------------------
\* A date that a timer can reach is kept until it has come.
LEMMA ObservesHeaderKeeps ==
  ASSUME TypeOK, DateIsKept, NEW r \in Request, NEW status,
         NEW delay \in RetryAfters \cup {None}, ObservesHeader(r, status, delay)
  PROVE  /\ activeDelays' \in [Host -> Int] /\ asked' \in [Host -> Int]
         /\ timers' \in SUBSET Timers /\ DateIsKept'
<1> DEFINE h == HostOf[r]
<1>1. h \in Host /\ delay \in Int
  BY ConstantTypes DEF None
<1>2. CASE UNCHANGED <<activeDelays, timers, asked>>
  BY <1>2 DEF TypeOK, DateIsKept
<1>3. CASE /\ activeDelays' = [activeDelays EXCEPT ![h] = delay]
           /\ timers' = clearedTimers(h) \cup {[host |-> h, wake |-> Timeout(delay)]}
           /\ asked' = [asked EXCEPT ![h] = IF delay > MaxTimeout THEN None ELSE delay]
  <2> HIDE DEF h
  <2>1. Timeout(delay) \in Nat /\ (delay > 0 /\ delay <= MaxTimeout => Timeout(delay) = delay)
    BY <1>1, TimeoutFacts
  <2> DEFINE timer == [host |-> h, wake |-> Timeout(delay)]
             date == IF delay > MaxTimeout THEN None ELSE delay
  <2>2. timer \in Timers /\ timer.host = h /\ timer.wake = Timeout(delay)
    BY <1>1, <2>1 DEF Timers
  <2>3. /\ date \in Int
        /\ date > 0 => date = delay /\ delay <= MaxTimeout
    BY <1>1, ConstantTypes DEF None
  <2> HIDE DEF timer, date
  <2>4. timers' = clearedTimers(h) \cup {timer} /\ asked' = [asked EXCEPT ![h] = date]
    BY <1>3 DEF timer, date
  <2>5. clearedTimers(h) \subseteq timers /\ \A t \in clearedTimers(h) : t.host # h
    BY DEF clearedTimers
  <2>6. /\ activeDelays' \in [Host -> Int] /\ asked' \in [Host -> Int]
        /\ activeDelays'[h] = delay /\ asked'[h] = date
        /\ \A g \in Host \ {h} : activeDelays'[g] = activeDelays[g] /\ asked'[g] = asked[g]
    BY <1>1, <1>3, <2>3, <2>4 DEF TypeOK
  <2>7. timers' \in SUBSET Timers
    BY <2>2, <2>4, <2>5 DEF TypeOK
  <2>8. ASSUME NEW g \in Host, asked'[g] > 0
        PROVE  /\ activeDelays'[g] = asked'[g] /\ asked'[g] <= MaxTimeout
               /\ \A t \in timers' : t.host = g => t.wake >= asked'[g]
    <3>1. CASE g = h
      <4>1. asked'[g] = delay /\ Timeout(delay) = delay /\ delay <= MaxTimeout
        BY <1>1, <2>1, <2>3, <2>6, <2>8, <3>1
      <4>2. \A t \in timers' : t.host = g => t = timer
        BY <2>4, <2>5, <3>1
      <4> QED  BY <1>1, <2>2, <2>6, <3>1, <4>1, <4>2
    <3>2. CASE g # h
      <4>1. activeDelays'[g] = activeDelays[g] /\ asked'[g] = asked[g]
        BY <2>6, <3>2
      <4>2. \A t \in timers' : t.host = g => t \in timers
        BY <2>2, <2>4, <2>5, <3>2
      <4> QED  BY <2>8, <4>1, <4>2 DEF DateIsKept
    <3> QED  BY <3>1, <3>2
  <2> QED  BY <2>6, <2>7, <2>8 DEF DateIsKept
<1> QED  BY <1>2, <1>3 DEF ObservesHeader

LEMMA EndedFacts ==
  ASSUME TypeOK, NEW r \in Request, NEW phase \in {"done", "failed"}
  PROVE  /\ Ended(r, phase) \in Requests /\ Ended(r, phase).phase = phase
         /\ Ended(r, phase).attempt = requests[r].attempt
<1>1. 0 \in Generations /\ requests[r].attempt \in Nat \ {0} /\ phase \in Phases
  BY ConstantTypes DEF TypeOK, Requests, Generations, Phases
<1> QED  BY <1>1 DEF Ended, NewRequest, Requests

\* What a request is after its response: at the head of the loop again, or ended.
LEMMA RespondStep ==
  ASSUME IInv, NEW r \in Request, NEW status \in Statuses,
         NEW delay \in RetryAfters \cup {None}, Respond(r, status, delay)
  PROVE  \E next \in Requests :
           /\ requests' = [requests EXCEPT ![r] = next]
           /\ next.phase \notin {"queued", "sent"}
           /\ next.attempt > requests[r].attempt =>
                LET date == retryDelay(activeDelays', r)
                IN /\ ObservesHeader(r, status, delay)
                   /\ date > 0 => next.phase = "failed"
                                  \/ (next.phase = "sleeping" /\ next.wake = Timeout(date))
<1> USE DEF IInv
<1>1. requests[r].attempt \in Nat \ {0}
  BY DEF TypeOK, Requests
<1>2. CASE requests' = [requests EXCEPT ![r] = Ended(r, "done")]
  <2> DEFINE next == Ended(r, "done")
  <2>1. next \in Requests /\ next.phase = "done" /\ next.attempt = requests[r].attempt
    BY EndedFacts
  <2> HIDE DEF next
  <2>2. requests' = [requests EXCEPT ![r] = next]
    BY <1>2 DEF next
  <2>3. ~(next.attempt > requests[r].attempt)
    BY <1>1, <2>1
  <2> QED  BY <2>1, <2>2, <2>3
<1>3. CASE requests' = [requests EXCEPT ![r] = Ended(r, "failed")]
  <2> DEFINE next == Ended(r, "failed")
  <2>1. next \in Requests /\ next.phase = "failed" /\ next.attempt = requests[r].attempt
    BY EndedFacts
  <2> HIDE DEF next
  <2>2. requests' = [requests EXCEPT ![r] = next]
    BY <1>3 DEF next
  <2>3. ~(next.attempt > requests[r].attempt)
    BY <1>1, <2>1
  <2> QED  BY <2>1, <2>2, <2>3
<1>4. CASE /\ ObservesHeader(r, status, delay)
           /\ requests' = [requests EXCEPT ![r] =
                Attempt(nextAttempt(r), retryDelay(activeDelays', r),
                        exceedsLimit(activeDelays', r))]
  <2> DEFINE date == retryDelay(activeDelays', r)
             exceeds == exceedsLimit(activeDelays', r)
             next == Attempt(nextAttempt(r), date, exceeds)
  <2>1. activeDelays' \in [Host -> Int]
    BY <1>4, ObservesHeaderKeeps
  <2>2. date \in Int /\ exceeds \in BOOLEAN
    BY <2>1, ConstantTypes DEF retryDelay, exceedsLimit
  <2>3. nextAttempt(r) \in Nat \ {0} /\ nextAttempt(r) > 1
    BY <1>1 DEF nextAttempt
  <2> HIDE DEF date, exceeds
  <2>4. /\ next \in Requests /\ next.phase \in {"failed", "sleeping", "sending"}
        /\ ~exceeds /\ date > 0 => next.phase = "sleeping" /\ next.wake = Timeout(date)
        /\ exceeds => next.phase = "failed"
    BY <2>2, <2>3, AttemptFacts
  <2>5. requests' = [requests EXCEPT ![r] = next]
    BY <1>4 DEF date, exceeds
  <2> HIDE DEF next
  <2>6. date > 0 => next.phase = "failed" \/ (next.phase = "sleeping" /\ next.wake = Timeout(date))
    BY <2>4
  <2> QED  BY <1>4, <2>4, <2>5, <2>6 DEF date
<1> QED  BY <1>2, <1>3, <1>4 DEF Respond

LEMMA RespondKeeps ==
  ASSUME IInv, NEW r \in Request, NEW status \in Statuses,
         NEW delay \in RetryAfters \cup {None}, Respond(r, status, delay)
  PROVE  IInv'
<1> USE DEF IInv
<1>1. PICK next \in Requests : /\ requests' = [requests EXCEPT ![r] = next]
                               /\ next.phase \notin {"queued", "sent"}
  BY RespondStep
<1>2. /\ requests' \in [Request -> Requests]
      /\ hostData' \in [Host \X Generations -> Data]
      /\ AnswerTakesTime' /\ TimeIsReserved'
  BY <1>1, RegisteredKeeps DEF Respond
<1>3. /\ activeDelays' \in [Host -> Int] /\ asked' \in [Host -> Int]
      /\ timers' \in SUBSET Timers /\ DateIsKept'
  <2>1. CASE UNCHANGED <<activeDelays, timers, asked>>
    BY <2>1 DEF TypeOK, DateIsKept
  <2>2. CASE ObservesHeader(r, status, delay)
    BY <2>2, ObservesHeaderKeeps
  <2> QED  BY <2>1, <2>2 DEF Respond
<1>4. TypeOK'
  BY <1>2, <1>3 DEF TypeOK, Respond
<1> QED  BY <1>2, <1>3, <1>4

LEMMA RejectKeeps ==
  ASSUME IInv, NEW r \in Request, Reject(r)
  PROVE  IInv'
<1> USE DEF IInv
<1> DEFINE next == Ended(r, "failed")
<1>1. next \in Requests /\ next.phase = "failed"
  BY EndedFacts
<1>2. requests' = [requests EXCEPT ![r] = next]
  BY DEF Reject
<1> HIDE DEF next
<1>3. /\ requests' \in [Request -> Requests]
      /\ hostData' \in [Host \X Generations -> Data]
      /\ AnswerTakesTime' /\ TimeIsReserved'
  BY <1>1, <1>2, RegisteredKeeps DEF Reject
<1>4. TypeOK' /\ DateIsKept'
  BY <1>3 DEF TypeOK, DateIsKept, Reject
<1> QED  BY <1>3, <1>4

LEMMA CleanUpKeeps ==
  ASSUME IInv, NEW t \in timers, CleanUp(t)
  PROVE  IInv'
<1> USE DEF IInv
<1>1. t \in Timers /\ t.host \in Host /\ t.wake \in Nat /\ t.wake <= 0
  BY DEF TypeOK, Timers, CleanUp
<1>2. /\ activeDelays' = [activeDelays EXCEPT ![t.host] = None] /\ timers' = timers \ {t}
      /\ UNCHANGED <<requests, asked, hostData, generation, invalidations>>
  BY DEF CleanUp
<1>3. TypeOK'
  BY <1>1, <1>2 DEF TypeOK, None
<1>4. asked[t.host] \in Int /\ ~(asked[t.host] > 0)
  BY <1>1 DEF TypeOK, DateIsKept
<1>5. DateIsKept'
  BY <1>1, <1>2, <1>4 DEF DateIsKept, TypeOK
<1>6. AnswerTakesTime' /\ TimeIsReserved'
  BY <1>2 DEF AnswerTakesTime, TimeIsReserved, HostOfGeneration
<1> QED  BY <1>3, <1>5, <1>6

LEMMA InvalidateKeeps ==
  ASSUME IInv, NEW hs \in SUBSET Host, Invalidate(hs)
  PROVE  IInv'
<1> USE DEF IInv
<1>1. invalidations' \in Generations
  BY ConstantTypes DEF Invalidate, TypeOK, Generations
<1>2. TypeOK'
  BY <1>1 DEF Invalidate, TypeOK, None
<1>3. DateIsKept'
  <2>1. ~(None > 0)
    BY DEF None
  <2> QED  BY <2>1 DEF Invalidate, DateIsKept
<1>4. AnswerTakesTime' /\ TimeIsReserved'
  BY DEF Invalidate, AnswerTakesTime, TimeIsReserved, HostOfGeneration
<1> QED  BY <1>2, <1>3, <1>4

LEMMA StutterKeeps ==
  ASSUME IInv, UNCHANGED vars
  PROVE  IInv'
BY DEF IInv, vars, TypeOK, DateIsKept, AnswerTakesTime, TimeIsReserved, HostOfGeneration

LEMMA TickKeeps ==
  ASSUME IInv, Tick
  PROVE  IInv'
<1> USE DEF IInv
<1>1. \A r \in Request :
        LET old == requests[r]
            new == requests'[r]
        IN /\ new \in Requests /\ new.phase = old.phase /\ new.delay = old.delay
           /\ new.generation = old.generation
           /\ new.wake = AtLeast(old.wake - 1, 0)
           /\ new.elapsed = IF old.phase \in {"queued", "sent"}
                            THEN AtMost(old.elapsed + 1, old.delay + MaxDuration)
                            ELSE old.elapsed
  <2> SUFFICES ASSUME NEW r \in Request
               PROVE  LET old == requests[r]
                          new == requests'[r]
                      IN /\ new \in Requests /\ new.phase = old.phase /\ new.delay = old.delay
                         /\ new.generation = old.generation
                         /\ new.wake = AtLeast(old.wake - 1, 0)
                         /\ new.elapsed = IF old.phase \in {"queued", "sent"}
                                          THEN AtMost(old.elapsed + 1, old.delay + MaxDuration)
                                          ELSE old.elapsed
    OBVIOUS
  <2> DEFINE old == requests[r]
             wake == AtLeast(old.wake - 1, 0)
             elapsed == IF old.phase \in {"queued", "sent"}
                        THEN AtMost(old.elapsed + 1, old.delay + MaxDuration) ELSE old.elapsed
  <2>1. requests'[r] = [old EXCEPT !.wake = wake, !.elapsed = elapsed]
    BY DEF Tick
  <2>2. old \in Requests
    BY DEF TypeOK
  <2> HIDE DEF old
  <2>3. old.wake \in Nat /\ old.elapsed \in Nat /\ old.delay \in Nat
    BY <2>2 DEF Requests
  <2>4. wake \in Nat /\ elapsed \in Nat
    BY <2>3, ConstantTypes DEF AtLeast, AtMost
  <2> HIDE DEF wake, elapsed
  <2>5. LET new == [old EXCEPT !.wake = wake, !.elapsed = elapsed]
        IN /\ new \in Requests /\ new.phase = old.phase /\ new.delay = old.delay
           /\ new.generation = old.generation /\ new.wake = wake /\ new.elapsed = elapsed
    BY <2>2, <2>4 DEF Requests
  <2> QED  BY <2>1, <2>5 DEF old, wake, elapsed
<1>2. requests' \in [Request -> Requests]
  <2>1. requests' = [r \in Request |-> requests'[r]]
    BY DEF Tick
  <2> QED  BY <1>1, <2>1
<1>3. \A hg \in Host \X Generations :
        LET old == hostData[hg]
            new == hostData'[hg]
        IN /\ new \in Data /\ new.limited = old.limited /\ new.interval = old.interval
           /\ new.latest >= old.latest - 1
  <2> SUFFICES ASSUME NEW hg \in Host \X Generations
               PROVE  LET old == hostData[hg]
                          new == hostData'[hg]
                      IN /\ new \in Data /\ new.limited = old.limited
                         /\ new.interval = old.interval /\ new.latest >= old.latest - 1
    OBVIOUS
  <2> DEFINE old == hostData[hg]
             latest == AtLeast(old.latest - 1, -MaxInterval)
  <2>1. hostData'[hg] = [old EXCEPT !.latest = latest] /\ old \in Data
    BY DEF Tick, TypeOK
  <2> HIDE DEF old
  <2>2. old.latest \in Int
    BY <2>1 DEF Data
  <2>3. latest \in Int /\ latest >= old.latest - 1
    BY <2>2, ConstantTypes DEF AtLeast
  <2> HIDE DEF latest
  <2> QED  BY <2>1, <2>3 DEF Data, old
<1>4. hostData' \in [Host \X Generations -> Data]
  <2>1. hostData' = [hg \in Host \X Generations |-> hostData'[hg]]
    BY DEF Tick, TypeOK
  <2> QED  BY <1>3, <2>1
<1>5. \A h \in Host : /\ activeDelays'[h] = Earlier(activeDelays[h], 0)
                      /\ asked'[h] = Earlier(asked[h], 0)
                      /\ activeDelays[h] \in Int /\ asked[h] \in Int
  BY DEF Tick, TypeOK
<1>6. activeDelays' \in [Host -> Int] /\ asked' \in [Host -> Int]
  <2>1. \A time \in Int : Earlier(time, 0) \in Int
    BY DEF Earlier, AtLeast, None
  <2>2. \A h \in Host : activeDelays'[h] \in Int /\ asked'[h] \in Int
    BY <1>5, <2>1
  <2>3. /\ activeDelays' = [h \in Host |-> activeDelays'[h]]
        /\ asked' = [h \in Host |-> asked'[h]]
    BY DEF Tick
  <2> QED  BY <2>2, <2>3
<1>7. \A t \in timers : t.wake \in Nat /\ AtLeast(t.wake - 1, 0) \in Nat
  BY DEF TypeOK, Timers, AtLeast
<1>8. \A late \in timers' : \E t \in timers :
        late = [t EXCEPT !.wake = AtLeast(t.wake - 1, 0)]
  BY DEF Tick
<1>9. \A late \in timers' : \E t \in timers :
        late \in Timers /\ late.host = t.host /\ late.wake >= t.wake - 1
  <2> SUFFICES ASSUME NEW late \in timers'
               PROVE  \E t \in timers :
                        late \in Timers /\ late.host = t.host /\ late.wake >= t.wake - 1
    OBVIOUS
  <2>1. PICK t \in timers : late = [t EXCEPT !.wake = AtLeast(t.wake - 1, 0)]
    BY <1>8
  <2> DEFINE wake == AtLeast(t.wake - 1, 0)
  <2>2. t \in Timers /\ t.wake \in Nat /\ wake \in Nat /\ wake >= t.wake - 1
    BY <1>7 DEF TypeOK, AtLeast
  <2> HIDE DEF wake
  <2>3. late = [t EXCEPT !.wake = wake]
    BY <2>1 DEF wake
  <2>4. late \in Timers /\ late.host = t.host /\ late.wake = wake
    BY <2>2, <2>3 DEF Timers
  <2> QED  BY <2>2, <2>4
<1>10. TypeOK'
  <2>1. timers' \in SUBSET Timers
    BY <1>9
  <2> QED  BY <1>2, <1>4, <1>6, <2>1 DEF TypeOK, Tick
<1>11. DateIsKept'
  <2> SUFFICES ASSUME NEW h \in Host, asked'[h] > 0
               PROVE  /\ activeDelays'[h] = asked'[h] /\ asked'[h] <= MaxTimeout
                      /\ \A t \in timers' : t.host = h => t.wake >= asked'[h]
    BY DEF DateIsKept
  <2>1. asked[h] > 1 /\ asked'[h] = asked[h] - 1
    BY <1>5 DEF Earlier, AtLeast, None
  <2>2. /\ activeDelays[h] = asked[h] /\ asked[h] <= MaxTimeout
        /\ \A t \in timers : t.host = h => t.wake >= asked[h]
    BY <1>5, <2>1 DEF DateIsKept
  <2>3. activeDelays'[h] = asked'[h]
    BY <1>5, <2>2
  <2>4. asked'[h] <= MaxTimeout
    BY <1>5, <2>1, <2>2, ConstantTypes
  <2>5. ASSUME NEW late \in timers', late.host = h PROVE late.wake >= asked'[h]
    <3>1. PICK t \in timers : late \in Timers /\ late.host = t.host /\ late.wake >= t.wake - 1
      BY <1>9
    <3>2. t.wake >= asked[h] /\ t.wake \in Nat /\ late.wake \in Nat
      BY <1>7, <2>2, <2>5, <3>1 DEF Timers
    <3> QED  BY <1>5, <2>1, <3>1, <3>2
  <2> QED  BY <2>3, <2>4, <2>5
<1>12. AnswerTakesTime'
  <2> SUFFICES ASSUME NEW r \in Request
               PROVE  LET new == requests'[r]
                      IN /\ new.phase = "queued" => new.elapsed + new.wake >= new.delay
                         /\ new.phase = "sent" => new.elapsed >= new.delay
    BY DEF AnswerTakesTime
  <2>1. /\ requests[r].wake \in Nat /\ requests[r].elapsed \in Nat /\ requests[r].delay \in Nat
    BY DEF TypeOK, Requests
  <2> QED  BY <1>1, <2>1, ConstantTypes DEF AnswerTakesTime, AtLeast, AtMost
<1>13. TimeIsReserved'
  <2> SUFFICES ASSUME NEW q \in Request, requests'[q].phase = "queued", requests'[q].wake > 0
               PROVE  LET at == hostData'[<<HostOf[q], requests'[q].generation>>]
                      IN /\ at.limited /\ at.interval # None
                         /\ ~AllowOverlap => at.latest >= requests'[q].wake
    BY DEF TimeIsReserved, HostOfGeneration
  <2> DEFINE hg == <<HostOf[q], requests[q].generation>>
  <2>1. /\ requests[q].wake \in Nat /\ hg \in Host \X Generations
        /\ hostData[hg] \in Data /\ hostData'[hg] \in Data
    BY <1>3, ConstantTypes DEF TypeOK, Requests
  <2>2. /\ requests[q].phase = "queued" /\ requests[q].wake > 0
        /\ requests'[q].wake = requests[q].wake - 1
        /\ requests'[q].generation = requests[q].generation
    BY <1>1, <2>1 DEF AtLeast
  <2>3. /\ hostData[hg].limited /\ hostData[hg].interval # None
        /\ ~AllowOverlap => hostData[hg].latest >= requests[q].wake
    BY <2>2 DEF TimeIsReserved, HostOfGeneration
  <2>4. /\ hostData'[hg].limited = hostData[hg].limited
        /\ hostData'[hg].interval = hostData[hg].interval
        /\ hostData'[hg].latest >= hostData[hg].latest - 1
        /\ hostData[hg].latest \in Int /\ hostData'[hg].latest \in Int
    BY <1>3, <2>1 DEF Data
  <2> HIDE DEF hg
  <2>5. ~AllowOverlap => hostData'[hg].latest >= requests'[q].wake
    BY <2>1, <2>2, <2>3, <2>4
  <2> QED  BY <2>2, <2>3, <2>4, <2>5 DEF hg
<1> QED  BY <1>10, <1>11, <1>12, <1>13

LEMMA StepInv == IInv /\ [Next]_vars => IInv'
<1> SUFFICES ASSUME IInv, [Next]_vars PROVE IInv'
  OBVIOUS
<1>1. ASSUME NEW r \in Request, Begin(r) PROVE IInv'
  BY <1>1, BeginKeeps
<1>2. ASSUME NEW r \in Request, Step(r) PROVE IInv'
  BY <1>2, WakeKeeps, LimitKeeps, ReleaseKeeps, RejectKeeps, RespondKeeps DEF Step
<1>3. ASSUME NEW t \in timers, CleanUp(t) PROVE IInv'
  BY <1>3, CleanUpKeeps
<1>4. ASSUME NEW hs \in {{h} : h \in Host} \cup {Host}, Invalidate(hs) PROVE IInv'
  BY <1>4, InvalidateKeeps
<1>5. CASE Tick
  BY <1>5, TickKeeps
<1>6. CASE UNCHANGED vars
  BY <1>6, StutterKeeps
<1> QED  BY <1>1, <1>2, <1>3, <1>4, <1>5, <1>6 DEF Next

LEMMA InvHolds == Spec => []IInv
BY InitInv, StepInv, PTL DEF Spec

\* The requests, the delays of hosts with their timers and the records of the rate
\* limiter stay what the code takes them for: among others, no number of answers
\* makes an interval negative (registerCompletedRequest).
THEOREM TypeCorrect == Spec => []TypeOK
<1>1. IInv => TypeOK
  BY DEF IInv
<1> QED  BY <1>1, InvHolds, PTL

-----------------------------------------------------------------------------
\* Which step begins another attempt: only that of a response.
LEMMA AttemptsRise ==
  ASSUME IInv, [Next]_vars, NEW r \in Request,
         requests'[r].attempt > requests[r].attempt
  PROVE  \E status \in Statuses, delay \in RetryAfters \cup {None} : Respond(r, status, delay)
<1> USE DEF IInv
<1>1. /\ requests \in [Request -> Requests] /\ requests[r] \in Requests
      /\ requests[r].attempt \in Nat \ {0}
  BY DEF TypeOK, Requests
<1>2. requests'[r] # requests[r] /\ requests'[r].attempt # requests[r].attempt
  BY <1>1
<1>3. ASSUME NEW q \in Request, Begin(q) PROVE FALSE
  <2>1. q = r
    BY <1>1, <1>2, <1>3 DEF Begin
  <2>2. requests'[r].attempt = 1
    BY <1>1, <1>3, <2>1 DEF Begin, Attempt, NewRequest
  <2> QED  BY <1>1, <2>2
<1>4. ASSUME NEW q \in Request, Step(q)
      PROVE  \E status \in Statuses, delay \in RetryAfters \cup {None} : Respond(r, status, delay)
  <2>1. CASE Wake(q)
    BY <1>1, <1>2, <2>1 DEF Wake, Requests
  <2>2. CASE Limit(q)
    BY <1>1, <1>2, <2>2 DEF Limit, Requests
  <2>3. CASE Release(q)
    BY <1>1, <1>2, <2>3 DEF Release, Requests
  <2>4. CASE Reject(q)
    <3>1. q = r /\ requests'[r] = Ended(r, "failed")
      BY <1>1, <1>2, <2>4 DEF Reject
    <3> QED  BY <1>2, <3>1, EndedFacts
  <2>5. ASSUME NEW status \in Statuses, NEW delay \in RetryAfters \cup {None},
               Respond(q, status, delay)
        PROVE  q = r
    <3>1. PICK next \in Requests : requests' = [requests EXCEPT ![q] = next]
      BY <2>5, RespondStep
    <3> QED  BY <1>1, <1>2, <3>1
  <2> QED  BY <1>4, <2>1, <2>2, <2>3, <2>4, <2>5 DEF Step
<1>5. ASSUME NEW t \in timers, CleanUp(t) PROVE FALSE
  BY <1>2, <1>5 DEF CleanUp
<1>6. ASSUME NEW hs \in {{h} : h \in Host} \cup {Host}, Invalidate(hs) PROVE FALSE
  BY <1>2, <1>6 DEF Invalidate
<1>7. CASE Tick
  <2> DEFINE old == requests[r]
  <2>1. requests'[r] = [old EXCEPT
          !.wake = AtLeast(old.wake - 1, 0),
          !.elapsed = IF old.phase \in {"queued", "sent"}
                      THEN AtMost(old.elapsed + 1, old.delay + MaxDuration) ELSE old.elapsed]
    BY <1>7 DEF Tick
  <2> HIDE DEF old
  <2>2. requests'[r].attempt = old.attempt
    BY <1>1, <2>1 DEF Requests, old
  <2> QED  BY <1>2, <2>2 DEF old
<1>8. CASE UNCHANGED vars
  BY <1>2, <1>8 DEF vars
<1> QED  BY <1>3, <1>4, <1>5, <1>6, <1>7, <1>8 DEF Next

\* A request that is repeated waits at least until the date that its host asked
\* for last, for any number of requests that replace that date and its clean-up
\* timer meanwhile (ActorHttpRetry.run).
THEOREM RetryHonoursHostCorrect == Spec => RetryHonoursHost
<1>1. ASSUME IInv, [Next]_vars
      PROVE  \A r \in Request :
               LET date == asked'[HostOf[r]]
               IN requests'[r].attempt > requests[r].attempt /\ date > 0 =>
                    requests'[r].phase = "failed"
                    \/ (requests'[r].phase = "sleeping" /\ requests'[r].wake >= date)
  <2> SUFFICES ASSUME NEW r \in Request, requests'[r].attempt > requests[r].attempt,
                      asked'[HostOf[r]] > 0
               PROVE  requests'[r].phase = "failed"
                      \/ (requests'[r].phase = "sleeping"
                          /\ requests'[r].wake >= asked'[HostOf[r]])
    OBVIOUS
  <2>1. PICK status \in Statuses, delay \in RetryAfters \cup {None} : Respond(r, status, delay)
    BY <1>1, AttemptsRise
  <2>2. PICK next \in Requests :
          /\ requests' = [requests EXCEPT ![r] = next]
          /\ next.attempt > requests[r].attempt =>
               LET date == retryDelay(activeDelays', r)
               IN date > 0 => next.phase = "failed"
                              \/ (next.phase = "sleeping" /\ next.wake = Timeout(date))
    BY <1>1, <2>1, RespondStep
  <2>3. requests'[r] = next
    BY <1>1, <2>2 DEF IInv, TypeOK
  <2>4. IInv'
    BY <1>1, StepInv
  <2> DEFINE date == asked'[HostOf[r]]
  <2>5. /\ HostOf[r] \in Host /\ date \in Int /\ date <= MaxTimeout
        /\ activeDelays'[HostOf[r]] = date
    BY <2>4, ConstantTypes DEF IInv, TypeOK, DateIsKept
  <2>6. retryDelay(activeDelays', r) = date
    BY <2>5 DEF retryDelay, None
  <2>7. Timeout(date) = date
    BY <2>5, TimeoutFacts
  <2> HIDE DEF date
  <2>8. next.phase = "failed" \/ (next.phase = "sleeping" /\ next.wake = date)
    BY <2>2, <2>3, <2>6, <2>7 DEF date
  <2> QED  BY <2>3, <2>5, <2>8 DEF date
<1> QED  BY <1>1, InvHolds, PTL DEF Spec, RetryHonoursHost

\* Unless overlap is allowed, a request to a host that is rate limited leaves at
\* least the present interval of its host after each request that waits already,
\* for any number of requests and however the interval changed (ActorHttpLimitRate.run).
THEOREM BurstsAreSpreadCorrect == Spec => BurstsAreSpread
<1>1. ASSUME IInv
      PROVE  \A r, q \in Request :
               ~AllowOverlap /\ r # q /\ Limit(r) /\ requests[q].phase = "queued"
               /\ requests[q].wake > 0
               /\ HostOfGeneration(q) = <<HostOf[r], generation[HostOf[r]]>> =>
                 requests'[r].delay >= requests[q].wake + hostData[HostOfGeneration(q)].interval
  <2> SUFFICES ASSUME NEW r \in Request, NEW q \in Request,
                      ~AllowOverlap, r # q, Limit(r), requests[q].phase = "queued",
                      requests[q].wake > 0,
                      HostOfGeneration(q) = <<HostOf[r], generation[HostOf[r]]>>
               PROVE  requests'[r].delay
                        >= requests[q].wake + hostData[HostOfGeneration(q)].interval
    OBVIOUS
  <2> DEFINE hg == HostOfGeneration(q)
             data == hostData[hg]
  <2>1. hg \in Host \X Generations /\ data \in Data
    BY <1>1, ConstantTypes DEF IInv, TypeOK, HostOfGeneration
  <2>2. data.limited /\ data.interval # None /\ data.latest >= requests[q].wake
    BY <1>1 DEF IInv, TimeIsReserved
  <2>3. /\ requests[r] \in Requests
        /\ requests'[r].delay = limitDelay(hostData[<<HostOf[r], generation[HostOf[r]]>>])
    BY <1>1 DEF IInv, TypeOK, Requests, Limit
  <2>4. requests'[r].delay = limitDelay(data)
    BY <2>3
  <2> HIDE DEF data
  <2>5. limitDelay(data) >= data.latest + data.interval /\ limitDelay(data) \in Nat
    BY <2>1, <2>2, limitDelayFacts
  <2>6. data.latest \in Int /\ data.interval \in Nat /\ requests[q].wake \in Nat
    BY <1>1, <2>1, <2>2 DEF Data, IInv, TypeOK, Requests
  <2> QED  BY <2>2, <2>4, <2>5, <2>6 DEF data
<1> QED  BY <1>1, InvHolds, PTL DEF Spec, BurstsAreSpread

=============================================================================
