----------------------------- MODULE HttpClient -----------------------------
(***************************************************************************)
(* src/src/client.rs: the requests a client executes concurrently, through *)
(* its circuit breaker, its interceptors and its retry loop.  A step runs  *)
(* from one await to the next: the breaker's calls happen inside steps.    *)
(* What the wire answers (reqwest) and what an interceptor does (the       *)
(* application) are choices.                                               *)
(***************************************************************************)
EXTENDS Naturals

CONSTANTS
  Requests,           \* the requests in progress at once
  FailureThreshold, SuccessThreshold, ResetTimeout, HalfOpenRequests,
  FailureWindow,      \* CircuitBreakerConfig
  Horizon,            \* age at which the breaker's Instants stop growing
  CallBound,          \* no request starts at half_open_count >= CallBound
  RetryEnabled,       \* config.retry is Some
  MaxAttempts,        \* RetryConfig
  RetryStatuses,
  RetryOnConnectionError,
  RetryOnTimeout,
  MaxRetryTime,       \* Option<Duration>
  MaxStall,           \* longest time from a retry loop's start to its first look at the time
  Backoff,            \* the BackoffStrategy, a record of module Backoff
  DurationMax,        \* where its products saturate
  Outcomes,           \* how an attempt can end
  Intercepting,       \* the client has interceptors
  RateLimitWait,      \* max_wait of a RateLimitInterceptor; 0: there is none
  Droppable,          \* the application may drop a request's future
  None

(* Statuses that differ in what the code does with them, and the ways an       *)
(* attempt can fail: in transit, over max_response_size, or refused by policy. *)
Statuses == {"s200", "s408", "s429", "s501", "s503"}
Failures == {"timeout", "connect", "reset", "too_large"}
Refusals == {"egress", "redirect"}

(* A request as it goes out: the target stands for method, url and headers. *)
RequestsOnWire == [target : {"built", "rewritten"}, body : {"none", "bytes", "stream"}]
Specs == [target : {"built", "rewritten"}, body : {"none", "bytes"}]

ASSUME ConfigAssumption ==
  /\ {FailureThreshold, SuccessThreshold, ResetTimeout, HalfOpenRequests,
      FailureWindow, CallBound, MaxAttempts, MaxStall, Horizon, RateLimitWait} \subseteq Nat
  /\ Horizon >= ResetTimeout /\ Horizon > FailureWindow
  /\ {RetryEnabled, RetryOnConnectionError, RetryOnTimeout, Intercepting,
      Droppable} \subseteq BOOLEAN
  /\ RetryStatuses \subseteq Statuses
  /\ MaxRetryTime \in Nat \cup {None}
  /\ DurationMax \in Nat
  /\ Outcomes \subseteq Statuses \cup Failures \cup Refusals
  /\ None \notin Nat \cup RequestsOnWire \cup Statuses \cup Failures \cup {"RetryExhausted"}

VARIABLES
  breaker,   \* the CircuitBreaker all requests share
  pc,        \* the await each request stands at
  spec,      \* RequestSpec: what every rebuilt attempt sends
  first,     \* first_request, until it is taken
  attempt,   \* the retry loop's counter
  started,   \* how long ago the retry loop started
  wait,      \* what is left of the backoff sleep
  result,    \* what the request returned
  sends,     \* history: attempts put on the wire
  sent       \* history: the requests those attempts carried

loop == <<attempt, started, wait>>
wire == <<sends, sent>>
vars == <<breaker, pc, spec, first, loop, result, wire>>

(* The age at which `started` stops growing: the retry time is over, or has no end. *)
LoopHorizon == IF MaxRetryTime = None THEN 0 ELSE MaxRetryTime + 1

Ops == INSTANCE BreakerOps
RetryDelay == INSTANCE Backoff WITH Millisecond <- 1

Results == Outcomes \cup
  {None, "CircuitOpen", "Interceptor", "StreamingBodyNotRetryable", "RetryExhausted"}

TypeOK ==
  /\ breaker \in Ops!Breakers
  /\ pc \in [Requests -> {"idle", "intercepting", "loop", "sending", "backoff",
                          "responding", "done"}]
  /\ spec \in [Requests -> Specs]
  /\ first \in [Requests -> RequestsOnWire \cup {None}]
  /\ attempt \in [Requests -> Nat]
  /\ started \in [Requests -> 0..LoopHorizon]
  /\ wait \in [Requests -> Nat]
  /\ result \in [Requests -> Results]
  /\ sends \in [Requests -> Nat]
  /\ sent \in [Requests -> SUBSET RequestsOnWire]

Init ==
  /\ breaker = Ops!New
  /\ pc = [r \in Requests |-> "idle"]
  /\ spec \in [Requests -> [target : {"built"}, body : {"none", "bytes"}]]
  /\ first = [r \in Requests |-> None]
  /\ attempt = [r \in Requests |-> 0]
  /\ started = [r \in Requests |-> 0]
  /\ wait = [r \in Requests |-> 0]
  /\ result = [r \in Requests |-> None]
  /\ sends = [r \in Requests |-> 0]
  /\ sent = [r \in Requests |-> {}]

Go(r, from, to) == pc[r] = from /\ pc' = [pc EXCEPT ![r] = to]

Return(r, from, res) ==
  Go(r, from, "done") /\ result' = [result EXCEPT ![r] = res]

-----------------------------------------------------------------------------
(* execute(): the breaker is asked once per request. *)
Start(r) ==
  /\ breaker.half_open_count < CallBound
  /\ breaker' = Ops!Asked(breaker)
  /\ IF Ops!IsAllowed(breaker)
       THEN /\ Go(r, "idle", IF Intercepting THEN "intercepting" ELSE "loop")
            /\ UNCHANGED result
       ELSE Return(r, "idle", "CircuitOpen")
  /\ UNCHANGED <<spec, first, loop, wire>>

RetriesPossible == RetryEnabled /\ MaxAttempts > 1

(* Plausible bugs of the fold: the rewritten request is used for the first      *)
(* attempt only, or a stream is kept for the next ones.                         *)
InterceptedNoFold(r, out) ==
  /\ IF RetriesPossible /\ out.body = "stream"
       THEN Return(r, "intercepting", "StreamingBodyNotRetryable") /\ UNCHANGED first
       ELSE /\ Go(r, "intercepting", "loop")
            /\ first' = [first EXCEPT ![r] = out]
            /\ UNCHANGED result
  /\ UNCHANGED <<breaker, spec, loop, wire>>

InterceptedKeepsStream(r, out) ==
  /\ Go(r, "intercepting", "loop")
  /\ spec' = [spec EXCEPT ![r] = out]
  /\ first' = [first EXCEPT ![r] = out]
  /\ UNCHANGED <<breaker, result, loop, wire>>

(* The request interceptors have run and left `out`: it is folded back into    *)
(* the spec and kept as the first attempt, unless its body cannot be replayed. *)
Intercepted(r, out) ==
  /\ IF RetriesPossible /\ out.body = "stream"
       THEN /\ Return(r, "intercepting", "StreamingBodyNotRetryable")
            /\ UNCHANGED <<spec, first>>
       ELSE /\ Go(r, "intercepting", "loop")
            /\ spec' = [spec EXCEPT ![r] = [target |-> out.target,
                 body |-> IF out.body = "stream" THEN "none" ELSE out.body]]
            /\ first' = [first EXCEPT ![r] = out]
            /\ UNCHANGED result
  /\ UNCHANGED <<breaker, loop, wire>>

(* An interceptor returned an error, before the attempts or on the response. *)
InterceptorFails(r) ==
  /\ Intercepting
  /\ Return(r, "intercepting", "Interceptor") \/ Return(r, "responding", "Interceptor")
  /\ UNCHANGED <<breaker, spec, first, loop, wire>>

-----------------------------------------------------------------------------
(* execute_with_retry() and execute_once() *)

OutOfTime(r) == RetryEnabled /\ MaxRetryTime # None /\ started[r] > MaxRetryTime

GiveUp(r) ==
  /\ OutOfTime(r)
  /\ Return(r, "loop", "RetryExhausted")
  /\ UNCHANGED <<breaker, spec, first, loop, wire>>

Send(r) ==
  LET request == IF first[r] = None THEN spec[r] ELSE first[r]
  IN /\ ~OutOfTime(r)
     /\ Go(r, "loop", "sending")
     /\ first' = [first EXCEPT ![r] = None]
     /\ sends' = [sends EXCEPT ![r] = @ + 1]
     /\ sent' = [sent EXCEPT ![r] = @ \cup {request}]
     /\ UNCHANGED <<breaker, spec, loop, result>>

IsFailureStatus(s) == s \in {"s429", "s501", "s503"}

(* Plausible bug: an error while the body is read returns before it is recorded. *)
RecordNoBodyErrors(b, o) ==
  CASE o \in Refusals \cup {"reset", "too_large"} -> b
    [] o \in Statuses /\ ~IsFailureStatus(o) -> Ops!RecordSuccess(b)
    [] OTHER -> Ops!RecordFailure(b)

(* What an attempt's end tells the breaker: a refusal tells it nothing. *)
Record(b, o) ==
  CASE o \in Refusals -> b
    [] o \in Statuses /\ ~IsFailureStatus(o) -> Ops!RecordSuccess(b)
    [] OTHER -> Ops!RecordFailure(b)

ShouldRetry(o) ==
  \/ o \in RetryStatuses
  \/ o = "timeout" /\ RetryOnTimeout
  \/ o = "connect" /\ RetryOnConnectionError

(* Plausible bugs of the bound on attempts. *)
RetryingOnceMore(r, o) == RetryEnabled /\ ShouldRetry(o) /\ attempt[r] < MaxAttempts
RetryingOnceLess(r, o) == RetryEnabled /\ ShouldRetry(o) /\ attempt[r] + 2 < MaxAttempts
Retrying(r, o) == RetryEnabled /\ ShouldRetry(o) /\ attempt[r] + 1 < MaxAttempts

Retry(r, o) ==
  /\ Retrying(r, o)
  /\ Go(r, "sending", "backoff")
  /\ breaker' = Record(breaker, o)
  /\ attempt' = [attempt EXCEPT ![r] = @ + 1]
  /\ wait' = [wait EXCEPT ![r] = RetryDelay!DelayForAttempt(Backoff, attempt'[r])]
  /\ UNCHANGED <<spec, first, started, result, wire>>

(* RateLimitInterceptor: on a 429 a wait as long as its Retry-After says, if it *)
(* has one, but no longer than max_wait.                                        *)
RetryAfter(o) == 0..(IF o = "s429" THEN RateLimitWait ELSE 0)

(* The attempt's outcome is the request's: an error is returned as it is, and   *)
(* the response interceptors run on a response.                                 *)
Settle(r, o) ==
  /\ ~Retrying(r, o)
  /\ breaker' = Record(breaker, o)
  /\ IF o \in Statuses
       THEN /\ Go(r, "sending", "responding")
            /\ result' = [result EXCEPT ![r] = o]
       ELSE Return(r, "sending", o)
  /\ \E pause \in RetryAfter(o) : wait' = [wait EXCEPT ![r] = pause]
  /\ UNCHANGED <<spec, first, attempt, started, wire>>

(* Plausible bug: the loop waits for an open circuit to change by itself. *)
WakeWhenNotOpen(r) ==
  /\ wait[r] = 0 /\ breaker.state # "Open"
  /\ Go(r, "backoff", "loop")
  /\ UNCHANGED <<breaker, spec, first, loop, result, wire>>

Wake(r) ==
  /\ wait[r] = 0
  /\ Go(r, "backoff", "loop")
  /\ UNCHANGED <<breaker, spec, first, loop, result, wire>>

Respond(r) ==
  /\ wait[r] = 0
  /\ Go(r, "responding", "done")
  /\ UNCHANGED <<breaker, spec, first, loop, result, wire>>

-----------------------------------------------------------------------------
(* The application drops the request's future at one of its awaits. *)
Drop(r) ==
  /\ Droppable
  /\ pc[r] \in {"intercepting", "sending", "backoff", "responding"}
  /\ Return(r, pc[r], None)
  /\ UNCHANGED <<breaker, spec, first, loop, wire>>

(* The application builds another request. *)
Rebuild(r) ==
  /\ Go(r, "done", "idle")
  /\ \E body \in {"none", "bytes"} :
       spec' = [spec EXCEPT ![r] = [target |-> "built", body |-> body]]
  /\ first' = [first EXCEPT ![r] = None]
  /\ attempt' = [attempt EXCEPT ![r] = 0]
  /\ started' = [started EXCEPT ![r] = 0]
  /\ wait' = [wait EXCEPT ![r] = 0]
  /\ result' = [result EXCEPT ![r] = None]
  /\ sends' = [sends EXCEPT ![r] = 0]
  /\ sent' = [sent EXCEPT ![r] = {}]
  /\ UNCHANGED breaker

(* Time passes for the breaker, the sleeps and the retry loops, also between a  *)
(* visit to "loop" and its look at the time, for which the first attempt waits  *)
(* no longer than MaxStall.                                                     *)
Tick ==
  /\ \A r \in Requests : pc[r] = "loop" /\ attempt[r] = 0 => started[r] < MaxStall
  /\ breaker' = Ops!Aged(breaker)
  /\ started' = [r \in Requests |->
       IF pc[r] \in {"loop", "sending", "backoff"} /\ started[r] < LoopHorizon
         THEN started[r] + 1 ELSE started[r]]
  /\ wait' = [r \in Requests |-> IF wait[r] = 0 THEN 0 ELSE wait[r] - 1]
  /\ UNCHANGED <<pc, spec, first, attempt, result, wire>>

-----------------------------------------------------------------------------
(* What a request does once it is admitted. *)
Proceed(r) ==
  \/ \E out \in RequestsOnWire : Intercepted(r, out)
  \/ InterceptorFails(r)
  \/ GiveUp(r) \/ Send(r)
  \/ \E o \in Outcomes : Retry(r, o) \/ Settle(r, o)
  \/ Wake(r) \/ Respond(r)

Next ==
  \/ \E r \in Requests : Start(r) \/ Proceed(r) \/ Drop(r) \/ Rebuild(r)
  \/ Tick

Spec == Init /\ [][Next]_vars

(* Interceptors return, an attempt ends by config.timeout at the latest, sleeps *)
(* end.  No application is obliged to send or to drop a request.                *)
FairSpec == Spec /\ (\A r \in Requests : WF_vars(Proceed(r))) /\ WF_vars(Tick)

-----------------------------------------------------------------------------
(* Interceptors, the reused first request, status retries and error retries     *)
(* together never put a request on the wire more often than max_attempts, and   *)
(* a max_attempts of 0 sends it once.                                           *)
AttemptsBounded ==
  \A r \in Requests :
    sends[r] <= IF RetryEnabled /\ MaxAttempts > 1 THEN MaxAttempts ELSE 1

(* Every attempt of a request carries what the first one carried: a rewrite by  *)
(* an interceptor survives the rebuild from the spec, and no attempt goes out   *)
(* with the body an earlier one has used up.                                    *)
SameRequest == \A r \in Requests : \A x, y \in sent[r] : x = y

(* A request that ends on an outcome its retry configuration retries has used   *)
(* up its attempts, and one that ends as RetryExhausted has used up its time.   *)
GivesUpOnlyWhenSpent ==
  \A r \in Requests : pc[r] \in {"responding", "done"} =>
    /\ RetryEnabled /\ ShouldRetry(result[r]) => sends[r] >= MaxAttempts
    /\ result[r] = "RetryExhausted" =>
         MaxRetryTime # None /\ started[r] > MaxRetryTime

(* With no request in progress a half-open breaker has a slot for the next one. *)
(* It takes requests that all reach an outcome the breaker is told of: no       *)
(* policy refusal, interceptor error or dropped future, and no max_retry_time   *)
(* that is over before the first attempt.                                       *)
NeverStarved ==
  breaker.state = "HalfOpen" /\ (\A r \in Requests : pc[r] \in {"idle", "done"}) =>
    breaker.half_open_count < HalfOpenRequests

(* Every request that starts returns, whatever the wire answers.                *)
EveryRequestReturns ==
  \A r \in Requests : [](pc[r] # "idle" => <>(pc[r] = "done"))

(* Recovery (lib.rs:9): if requests keep starting and from some point on no     *)
(* attempt fails, the breaker is closed again and again, whatever the retries,  *)
(* deadlines and late answers of earlier requests have done to its timer, its   *)
(* slots and its counts.  Requests held back by CallBound alone count as        *)
(* starting: a half-open phase that was asked that often must still end.        *)
Fails(r) ==
  \E o \in Outcomes \ Refusals :
    (o \in Failures \/ IsFailureStatus(o)) /\ (Retry(r, o) \/ Settle(r, o))

KeepAsking ==
  \/ []<><<\E r \in Requests : Start(r)>>_vars
  \/ []<>(breaker.half_open_count >= CallBound)

RecoversUnderTraffic ==
  KeepAsking /\ <>[][~\E r \in Requests : Fails(r)]_vars
  => []<>(breaker.state = "Closed")
=============================================================================
