----------------------------- MODULE HttpClient -----------------------------
(***************************************************************************)
(* The HTTP requests of an engine: ActorHttpRetry                          *)
(* (packages/actor-http-retry) repeats requests that may succeed later and *)
(* keeps the delays that hosts ask for, ActorHttpLimitRate                 *)
(* (packages/actor-http-limit-rate), which it calls, spaces the requests   *)
(* to a host that is slow to answer, and an invalidation makes both        *)
(* forget what they know of a host.                                        *)
(*                                                                         *)
(* Points in time are kept relative to the present, so that the passing of *)
(* time (Tick) moves them all towards the past, where they stop to matter  *)
(* and to change.                                                          *)
(***************************************************************************)
EXTENDS Integers, FiniteSets, Sequences

CONSTANTS
  Request, Host, HostOf,
  RetryCount, RetryDelayFallback, RetryDelayLimit,   \* limit 0: none
  ForcedStatuses,          \* httpRetryStatusCodes
  RetryAfters,             \* the delays a Retry-After header may ask for
  LimitByDefault, AllowOverlap,
  CorrectionDivisor,       \* correctionMultiplier is 1 / CorrectionDivisor
  FailureMultiplier,
  MaxTimeout,              \* the longest delay of setTimeout: 2^31 - 1 ms
  MaxDuration,             \* bound: longer answers count as so long
  MaxInvalidations         \* bound on the number of invalidations

ASSUME HttpAssumption ==
  /\ HostOf \in [Request -> Host]
  /\ {RetryCount, CorrectionDivisor, MaxTimeout} \subseteq Nat \ {0}
  /\ {RetryDelayFallback, RetryDelayLimit, FailureMultiplier, MaxDuration,
      MaxInvalidations} \subseteq Nat
  /\ RetryAfters \subseteq Int
  /\ {LimitByDefault, AllowOverlap} \subseteq BOOLEAN

VARIABLES
  requests,        \* how far each request is
  activeDelays,    \* per host, the time its last Retry-After date is away
  timers,          \* the clean-up timers of activeDelays
  asked,           \* history: the last date a host asked for, if a timer can reach it
  hostData,        \* the records of the rate limiter: per host and generation
  generation,      \* which record of a host its map entry holds
  invalidations

vars == <<requests, activeDelays, timers, asked, hostData, generation, invalidations>>

None == -1000      \* no delay; also the interval before any response
Generations == 0 .. MaxInvalidations
AttemptLimit == RetryCount + 1

AtLeast(x, y) == IF x < y THEN y ELSE x
AtMost(x, y) == IF x < y THEN x ELSE y

\* setTimeout: what it cannot represent fires at once, as anything below 1 does.
Timeout(ms) == IF ms > MaxTimeout THEN 1 ELSE AtLeast(ms, 1)

\* Math.round of a fraction.
Round(n, d) == (2 * n + d) \div (2 * d)

\* No interval and no delay reaches further into the past than this.
MaxInterval == MaxDuration * FailureMultiplier

HostOfGeneration(r) == <<HostOf[r], requests[r].generation>>
Active(h) == activeDelays[h] # None

NewData == [latest |-> -MaxInterval, limited |-> LimitByDefault, interval |-> None]
NewRequest == [phase |-> "new", attempt |-> 1, wake |-> 0, elapsed |-> 0,
               delay |-> 0, generation |-> 0]

Init ==
  /\ requests = [r \in Request |-> NewRequest]
  /\ activeDelays = [h \in Host |-> None]
  /\ timers = {}
  /\ asked = [h \in Host |-> None]
  /\ hostData = [hg \in Host \X Generations |-> NewData]
  /\ generation = [h \in Host |-> 0]
  /\ invalidations = 0

-----------------------------------------------------------------------------
(* ActorHttpRetry.run: the head of the loop. *)

retryDelay(delays, r) == IF delays[HostOf[r]] # None THEN delays[HostOf[r]] ELSE RetryDelayFallback
exceedsLimit(delays, r) == RetryDelayLimit > 0 /\ retryDelay(delays, r) > RetryDelayLimit

\* Only repeated attempts wait; the limit ends the first attempt as well.
Attempt(attempt, delay, exceeds) ==
  [NewRequest EXCEPT
     !.attempt = attempt,
     !.phase = IF exceeds THEN "failed"
               ELSE IF delay > 0 /\ attempt > 1 THEN "sleeping" ELSE "sending",
     !.wake = IF ~exceeds /\ delay > 0 /\ attempt > 1 THEN Timeout(delay) ELSE 0]

Begin(r) ==
  /\ requests[r].phase = "new"
  /\ requests' = [requests EXCEPT
                    ![r] = Attempt(1, retryDelay(activeDelays, r), exceedsLimit(activeDelays, r))]
  /\ UNCHANGED <<activeDelays, timers, asked, hostData, generation, invalidations>>

Wake(r) ==
  /\ requests[r].phase = "sleeping" /\ requests[r].wake <= 0
  /\ requests' = [requests EXCEPT ![r].phase = "sending", ![r].wake = 0]
  /\ UNCHANGED <<activeDelays, timers, asked, hostData, generation, invalidations>>

-----------------------------------------------------------------------------
(* ActorHttpLimitRate.run. *)

limitDelay(data) ==
  IF data.limited /\ data.interval # None THEN AtLeast(data.latest + data.interval, 0) ELSE 0

\* The request reserves its time before it waits for it (intervals follow the
\* times of answers, which stay far below MaxTimeout).
reservedAtOnce(delay) == 0
reserved(delay) == IF AllowOverlap THEN 0 ELSE delay

Limit(r) ==
  /\ requests[r].phase = "sending"
  /\ LET h == HostOf[r]
         g == generation[h]
         delay == limitDelay(hostData[<<h, g>>])
     IN /\ hostData' = [hostData EXCEPT ![<<h, g>>].latest = reserved(delay)]
        /\ requests' = [requests EXCEPT
             ![r].phase = IF delay > 0 THEN "queued" ELSE "sent",
             ![r].wake = delay,
             ![r].delay = delay, ![r].elapsed = 0, ![r].generation = g]
  /\ UNCHANGED <<activeDelays, timers, asked, generation, invalidations>>

Release(r) ==
  /\ requests[r].phase = "queued" /\ requests[r].wake <= 0
  /\ requests' = [requests EXCEPT ![r].phase = "sent", ![r].wake = 0]
  /\ UNCHANGED <<activeDelays, timers, asked, hostData, generation, invalidations>>

\* What a response teaches the limiter: registerCompletedRequest.
Registered(data, r, status) ==
  LET success == status = "ok"
      duration == (IF success THEN 1 ELSE FailureMultiplier)
                  * (requests[r].elapsed - requests[r].delay)
  IN [data EXCEPT
       !.interval = IF @ < 0 THEN Round(duration, CorrectionDivisor)
                    ELSE @ + Round(duration - @, CorrectionDivisor),
       !.limited = @ \/ (~success /\ status # "404")]

-----------------------------------------------------------------------------
(* ActorHttpRetry.run: what becomes of a response. *)

Statuses == {"ok", "504", "429", "503", "405", "404", "400", "500", "304"}

\* A 405 with a Retry-After header is a rate limit as well.
isBusy(status, header) == status \in {"429", "503"} \/ (status = "405" /\ header)

isRetried(status, header) ==
  status \in ForcedStatuses \cup {"504", "304"} \/ isBusy(status, header)

\* A later date of the host replaces its delay and the clean-up timer with it.
clearedTimersNone(h) == timers
clearedTimers(h) == {t \in timers : t.host # h}

\* The status is looked at before the header: a status whose retry is forced
\* leaves the delay of the host as it is.
ObservesHeader(r, status, delay) ==
  LET h == HostOf[r]
  IN IF status \notin ForcedStatuses /\ delay # None /\ isBusy(status, TRUE)
     THEN /\ activeDelays' = [activeDelays EXCEPT ![h] = delay]
          /\ timers' = clearedTimers(h) \cup {[host |-> h, wake |-> Timeout(delay)]}
          /\ asked' = [asked EXCEPT ![h] = IF delay > MaxTimeout THEN None ELSE delay]
     ELSE UNCHANGED <<activeDelays, timers, asked>>

\* The attempts are counted from one.
mayRepeat(r) == requests[r].attempt < AttemptLimit

nextAttemptSame(r) == requests[r].attempt
nextAttempt(r) == requests[r].attempt + 1

Ended(r, phase) == [NewRequest EXCEPT !.phase = phase, !.attempt = requests[r].attempt]

\* The response arrives, the limiter registers it and the loop goes on: the head
\* of the loop runs before anything else does.
Respond(r, status, delay) ==
  /\ requests[r].phase = "sent"
  /\ hostData' = [hostData EXCEPT ![HostOfGeneration(r)] = Registered(@, r, status)]
  /\ IF status = "ok"
     THEN /\ requests' = [requests EXCEPT ![r] = Ended(r, "done")]
          /\ UNCHANGED <<activeDelays, timers, asked>>
     ELSE /\ ObservesHeader(r, status, delay)
          /\ requests' = [requests EXCEPT ![r] =
               IF isRetried(status, delay # None) /\ mayRepeat(r)
               THEN Attempt(nextAttempt(r),
                            retryDelay(activeDelays', r), exceedsLimit(activeDelays', r))
               ELSE Ended(r, "failed")]
  /\ UNCHANGED <<generation, invalidations>>

\* A request that gets no response at all is not repeated.
Reject(r) ==
  /\ requests[r].phase = "sent"
  /\ hostData' = [hostData EXCEPT ![HostOfGeneration(r)] = Registered(@, r, "none")]
  /\ requests' = [requests EXCEPT ![r] = Ended(r, "failed")]
  /\ UNCHANGED <<activeDelays, timers, asked, generation, invalidations>>

-----------------------------------------------------------------------------
\* The clean-up timer of a delay.
CleanUp(t) ==
  /\ t \in timers /\ t.wake <= 0
  /\ timers' = timers \ {t}
  /\ activeDelays' = [activeDelays EXCEPT ![t.host] = None]
  /\ UNCHANGED <<requests, asked, hostData, generation, invalidations>>

\* ActorHttpInvalidateListenable calls handleHttpInvalidateEvent of both actors.
Invalidate(hs) ==
  /\ invalidations < MaxInvalidations
  /\ invalidations' = invalidations + 1
  /\ activeDelays' = [h \in Host |-> IF h \in hs THEN None ELSE activeDelays[h]]
  /\ timers' = {t \in timers : t.host \notin hs}
  /\ asked' = [h \in Host |-> IF h \in hs THEN None ELSE asked[h]]
  /\ generation' = [h \in Host |-> IF h \in hs THEN invalidations' ELSE generation[h]]
  /\ UNCHANGED <<requests, hostData>>

Earlier(time, floor) == IF time = None THEN None ELSE AtLeast(time - 1, floor)

Tick ==
  /\ requests' = [r \in Request |->
       [requests[r] EXCEPT
         !.wake = AtLeast(@ - 1, 0),
         !.elapsed = IF requests[r].phase \in {"queued", "sent"}
                     THEN AtMost(@ + 1, requests[r].delay + MaxDuration) ELSE @]]
  /\ activeDelays' = [h \in Host |-> Earlier(activeDelays[h], 0)]
  /\ asked' = [h \in Host |-> Earlier(asked[h], 0)]
  /\ timers' = {[t EXCEPT !.wake = AtLeast(@ - 1, 0)] : t \in timers}
  /\ hostData' = [hg \in DOMAIN hostData |->
                    [hostData[hg] EXCEPT !.latest = AtLeast(@ - 1, -MaxInterval)]]
  /\ UNCHANGED <<generation, invalidations>>

Step(r) ==
  \/ Wake(r) \/ Limit(r) \/ Release(r) \/ Reject(r)
  \/ \E status \in Statuses, delay \in RetryAfters \cup {None} : Respond(r, status, delay)

Next ==
  \/ \E r \in Request : Begin(r) \/ Step(r)
  \/ \E t \in timers : CleanUp(t)
  \/ \E hs \in {{h} : h \in Host} \cup {Host} : Invalidate(hs)
  \/ Tick

\* Time passes, timers fire, and every request that was begun goes on.
Fairness == WF_vars(Tick) /\ \A r \in Request : WF_vars(Step(r))

Spec == Init /\ [][Next]_vars /\ Fairness

-----------------------------------------------------------------------------
(* Properties. *)

\* A request that is repeated waits at least until the date that its host asked
\* for last, although other requests replace that date and its clean-up timer
\* meanwhile, unless the date was beyond what setTimeout can wait for
\* (ActorHttpRetry.run).
RetryHonoursHost ==
  [][\A r \in Request :
       LET date == asked'[HostOf[r]]
       IN requests'[r].attempt > requests[r].attempt /\ date > 0 =>
            requests'[r].phase = "failed"
            \/ (requests'[r].phase = "sleeping" /\ requests'[r].wake >= date)]_vars

\* Bursts of requests to a host that is rate limited are spread: unless overlap is
\* allowed, a request leaves at least the present interval of its host after each
\* one that waits already, however the interval changed since that one came
\* (ActorHttpLimitRate.run).
BurstsAreSpread ==
  [][\A r, q \in Request :
       ~AllowOverlap /\ r # q /\ Limit(r) /\ requests[q].phase = "queued"
       /\ requests[q].wake > 0 /\ HostOfGeneration(q) = <<HostOf[r], generation[HostOf[r]]>> =>
         requests'[r].delay >= requests[q].wake + hostData[HostOfGeneration(q)].interval]_vars

\* Every request comes to an end, whatever the hosts answer and ask for.
EveryRequestSettles ==
  \A r \in Request : requests[r].phase # "new" ~> requests[r].phase \in {"done", "failed"}

=============================================================================
