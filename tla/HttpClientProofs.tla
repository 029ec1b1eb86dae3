-------------------------- MODULE HttpClientProofs --------------------------
(***************************************************************************)
(* What HttpClient keeps for any number of requests, any configuration and *)
(* whatever the breaker, the wire and the interceptors do.                 *)
(***************************************************************************)
EXTENDS HttpClient, FiniteSetTheorems, TLAPS

(* The bound on the attempts of one request. *)
Limit == IF RetryEnabled /\ MaxAttempts > 1 THEN MaxAttempts ELSE 1

(* The retry loop's counter is the number of attempts behind it: one less than  *)
(* those on the wire while the last of them is running or was final.            *)
AttemptsCounted ==
  /\ pc \in [Requests -> {"idle", "intercepting", "loop", "sending", "backoff",
                          "responding", "done"}]
  /\ attempt \in [Requests -> Nat]
  /\ sends \in [Requests -> Nat]
  /\ \A r \in Requests :
       /\ attempt[r] < Limit
       /\ pc[r] \in {"idle", "intercepting", "loop", "backoff"} => sends[r] = attempt[r]
       /\ pc[r] \in {"sending", "responding"} => sends[r] = attempt[r] + 1
       /\ pc[r] = "done" => sends[r] <= attempt[r] + 1

LEMMA LimitPositive == Limit \in Nat \ {0}
BY ConfigAssumption DEF Limit

LEMMA AttemptsCountedInvariant == Spec => []AttemptsCounted
<1> USE LimitPositive
<1>1. Init => AttemptsCounted
  BY DEF Init, AttemptsCounted
<1>2. AttemptsCounted /\ [Next]_vars => AttemptsCounted'
  <2> SUFFICES ASSUME AttemptsCounted, [Next]_vars PROVE AttemptsCounted'
    OBVIOUS
  <2> USE DEF AttemptsCounted
  <2>1. ASSUME NEW r \in Requests, Start(r) PROVE AttemptsCounted'
    BY <2>1 DEF Start, Return, Go, loop, wire
  <2>2. ASSUME NEW r \in Requests, NEW out \in RequestsOnWire, Intercepted(r, out)
        PROVE  AttemptsCounted'
    BY <2>2 DEF Intercepted, Return, Go, loop, wire
  <2>3. ASSUME NEW r \in Requests, InterceptorFails(r) PROVE AttemptsCounted'
    BY <2>3 DEF InterceptorFails, Return, Go, loop, wire
  <2>4. ASSUME NEW r \in Requests, GiveUp(r) PROVE AttemptsCounted'
    BY <2>4 DEF GiveUp, Return, Go, loop, wire
  <2>5. ASSUME NEW r \in Requests, Send(r) PROVE AttemptsCounted'
    BY <2>5 DEF Send, Go, loop
  <2>6. ASSUME NEW r \in Requests, NEW o \in Outcomes, Retry(r, o)
        PROVE  AttemptsCounted'
    <3>1. attempt[r] + 1 < Limit
      BY <2>6, ConfigAssumption DEF Retry, Retrying, Limit
    <3> QED BY <2>6, <3>1 DEF Retry, Go, wire
  <2>7. ASSUME NEW r \in Requests, NEW o \in Outcomes, Settle(r, o)
        PROVE  AttemptsCounted'
    BY <2>7 DEF Settle, Return, Go, loop, wire
  <2>8. ASSUME NEW r \in Requests, Wake(r) PROVE AttemptsCounted'
    BY <2>8 DEF Wake, Go, loop, wire
  <2>9. ASSUME NEW r \in Requests, Respond(r) PROVE AttemptsCounted'
    BY <2>9 DEF Respond, Go, loop, wire
  <2>10. ASSUME NEW r \in Requests, Drop(r) PROVE AttemptsCounted'
    BY <2>10 DEF Drop, Return, Go, loop, wire
  <2>11. ASSUME NEW r \in Requests, Rebuild(r) PROVE AttemptsCounted'
    BY <2>11 DEF Rebuild, Go
  <2>12. CASE Tick
    BY <2>12 DEF Tick, wire
  <2>13. CASE UNCHANGED vars
    BY <2>13 DEF vars, loop, wire
  <2> QED BY <2>1, <2>2, <2>3, <2>4, <2>5, <2>6, <2>7, <2>8, <2>9, <2>10, <2>11,
             <2>12, <2>13 DEF Next, Proceed
<1> QED BY <1>1, <1>2, PTL DEF Spec

(* No request is put on the wire more often than max_attempts, or more than     *)
(* once without retries or with a max_attempts of 0, however interceptors,      *)
(* outcomes, deadlines and drops follow one another.                            *)
THEOREM AttemptsAreBounded == Spec => []AttemptsBounded
<1>1. AttemptsCounted => AttemptsBounded
  <2> SUFFICES ASSUME AttemptsCounted, NEW r \in Requests PROVE sends[r] <= Limit
    BY DEF AttemptsBounded, Limit
  <2> QED BY LimitPositive DEF AttemptsCounted
<1> QED BY <1>1, AttemptsCountedInvariant, PTL

-----------------------------------------------------------------------------
(* As long as another attempt can follow, the attempts so far carried exactly   *)
(* what the spec would rebuild.                                                 *)
SpecKept ==
  /\ pc \in [Requests -> {"idle", "intercepting", "loop", "sending", "backoff",
                          "responding", "done"}]
  /\ attempt \in [Requests -> Nat]
  /\ DOMAIN spec = Requests /\ DOMAIN first = Requests /\ DOMAIN sent = Requests
  /\ \A r \in Requests :
       /\ \A x, y \in sent[r] : x = y
       /\ pc[r] \in {"idle", "intercepting"} => sent[r] = {}
       /\ pc[r] \in {"loop", "sending", "backoff"} =>
            IF RetriesPossible
              THEN sent[r] \subseteq {spec[r]} /\ first[r] \in {None, spec[r]}
              ELSE pc[r] = "sending" \/ sent[r] = {}
       /\ pc[r] = "idle" => first[r] = None

(* Every attempt of a request carries what the first one carried, whatever the  *)
(* interceptors rewrote, and a body that can be sent only once is only sent     *)
(* when no other attempt can follow.                                            *)
THEOREM AttemptsCarryTheSame == Spec => []SameRequest
<1>1. Init => SpecKept
  BY DEF Init, SpecKept
<1>2. SpecKept /\ [Next]_vars => SpecKept'
  <2> SUFFICES ASSUME SpecKept, [Next]_vars PROVE SpecKept'
    OBVIOUS
  <2> USE DEF SpecKept
  <2>1. ASSUME NEW r \in Requests, Start(r) PROVE SpecKept'
    BY <2>1 DEF Start, Return, Go, loop, wire
  <2>2. ASSUME NEW r \in Requests, NEW out \in RequestsOnWire, Intercepted(r, out)
        PROVE  SpecKept'
    <3>1. CASE RetriesPossible /\ out.body = "stream"
      BY <2>2, <3>1 DEF Intercepted, Return, Go, loop, wire
    <3>2. CASE ~(RetriesPossible /\ out.body = "stream")
      <4>1. RetriesPossible => [target |-> out.target,
                body |-> IF out.body = "stream" THEN "none" ELSE out.body] = out
        BY <3>2 DEF RequestsOnWire
      <4> QED BY <2>2, <3>2, <4>1 DEF Intercepted, Go, loop, wire
    <3> QED BY <3>1, <3>2
  <2>3. ASSUME NEW r \in Requests, InterceptorFails(r) PROVE SpecKept'
    BY <2>3 DEF InterceptorFails, Return, Go, loop, wire
  <2>4. ASSUME NEW r \in Requests, GiveUp(r) PROVE SpecKept'
    BY <2>4 DEF GiveUp, Return, Go, loop, wire
  <2>5. ASSUME NEW r \in Requests, Send(r) PROVE SpecKept'
    BY <2>5 DEF Send, Go, loop
  <2>6. ASSUME NEW r \in Requests, NEW o \in Outcomes, Retry(r, o) PROVE SpecKept'
    <3>1. RetriesPossible
      BY <2>6, ConfigAssumption DEF Retry, Retrying, RetriesPossible
    <3> QED BY <2>6, <3>1 DEF Retry, Go, wire
  <2>7. ASSUME NEW r \in Requests, NEW o \in Outcomes, Settle(r, o) PROVE SpecKept'
    BY <2>7 DEF Settle, Return, Go, loop, wire
  <2>8. ASSUME NEW r \in Requests, Wake(r) PROVE SpecKept'
    BY <2>8 DEF Wake, Go, loop, wire
  <2>9. ASSUME NEW r \in Requests, Respond(r) PROVE SpecKept'
    BY <2>9 DEF Respond, Go, loop, wire
  <2>10. ASSUME NEW r \in Requests, Drop(r) PROVE SpecKept'
    BY <2>10 DEF Drop, Return, Go, loop, wire
  <2>11. ASSUME NEW r \in Requests, Rebuild(r) PROVE SpecKept'
    BY <2>11 DEF Rebuild, Go
  <2>12. CASE Tick
    BY <2>12 DEF Tick, wire
  <2>13. CASE UNCHANGED vars
    BY <2>13 DEF vars, loop, wire
  <2> QED BY <2>1, <2>2, <2>3, <2>4, <2>5, <2>6, <2>7, <2>8, <2>9, <2>10, <2>11,
             <2>12, <2>13 DEF Next, Proceed
<1>3. SpecKept => SameRequest
  BY DEF SpecKept, SameRequest
<1> QED BY <1>1, <1>2, <1>3, PTL DEF Spec
-----------------------------------------------------------------------------
(* A request that is over, or about to be, has used up what it ended for.       *)
Spent ==
  /\ DOMAIN result = Requests /\ DOMAIN started = Requests
  /\ GivesUpOnlyWhenSpent

(* What is neither an attempt's outcome nor retried.                            *)
LEMMA EndsWithoutRetry ==
  ASSUME NEW res \in {None, "CircuitOpen", "Interceptor", "StreamingBodyNotRetryable",
                      "RetryExhausted"}
  PROVE  ~ShouldRetry(res)
BY ConfigAssumption DEF ShouldRetry, Statuses, Failures

(* A request that ends on an outcome that is to be retried has used up its      *)
(* attempts, and one that ends as RetryExhausted its time, for every            *)
(* configuration and whatever the other requests do.                            *)
THEOREM EndsWhenSpent == Spec => []GivesUpOnlyWhenSpent
<1>1. Init => Spent
  BY DEF Init, Spent, GivesUpOnlyWhenSpent
<1>2. AttemptsCounted /\ Spent /\ [Next]_vars => Spent'
  <2> SUFFICES ASSUME AttemptsCounted, Spent, [Next]_vars PROVE Spent'
    OBVIOUS
  <2> USE EndsWithoutRetry DEF AttemptsCounted, Spent, GivesUpOnlyWhenSpent
  <2>1. ASSUME NEW r \in Requests, Start(r) PROVE Spent'
    BY <2>1 DEF Start, Return, Go, loop, wire
  <2>2. ASSUME NEW r \in Requests, NEW out \in RequestsOnWire, Intercepted(r, out) PROVE Spent'
    BY <2>2 DEF Intercepted, Return, Go, loop, wire
  <2>3. ASSUME NEW r \in Requests, InterceptorFails(r) PROVE Spent'
    BY <2>3 DEF InterceptorFails, Return, Go, loop, wire
  <2>4. ASSUME NEW r \in Requests, GiveUp(r) PROVE Spent'
    BY <2>4 DEF GiveUp, OutOfTime, Return, Go, loop, wire
  <2>5. ASSUME NEW r \in Requests, Send(r) PROVE Spent'
    BY <2>5 DEF Send, Go, loop
  <2>6. ASSUME NEW r \in Requests, NEW o \in Outcomes, Retry(r, o) PROVE Spent'
    BY <2>6 DEF Retry, Go, wire
  <2>7. ASSUME NEW r \in Requests, NEW o \in Outcomes, Settle(r, o) PROVE Spent'
    <3>1. o # "RetryExhausted"
      BY ConfigAssumption DEF Statuses, Failures, Refusals
    <3>2. RetryEnabled /\ ShouldRetry(o) => sends[r] >= MaxAttempts
      <4>1. sends[r] = attempt[r] + 1 /\ attempt[r] \in Nat /\ MaxAttempts \in Nat
        BY <2>7, ConfigAssumption DEF Settle, Return, Go
      <4>2. RetryEnabled /\ ShouldRetry(o) => ~(attempt[r] + 1 < MaxAttempts)
        BY <2>7 DEF Settle, Retrying
      <4> QED BY <4>1, <4>2
    <3>3. /\ pc' \in {[pc EXCEPT ![r] = "responding"], [pc EXCEPT ![r] = "done"]}
          /\ result' = [result EXCEPT ![r] = o]
          /\ UNCHANGED <<started, sends>>
      BY <2>7 DEF Settle, Return, Go, wire
    <3> QED BY <3>1, <3>2, <3>3
  <2>8. ASSUME NEW r \in Requests, Wake(r) PROVE Spent'
    BY <2>8 DEF Wake, Go, loop, wire
  <2>9. ASSUME NEW r \in Requests, Respond(r) PROVE Spent'
    BY <2>9 DEF Respond, Go, loop, wire
  <2>10. ASSUME NEW r \in Requests, Drop(r) PROVE Spent'
    BY <2>10, ConfigAssumption DEF Drop, Return, Go, loop, wire
  <2>11. ASSUME NEW r \in Requests, Rebuild(r) PROVE Spent'
    BY <2>11 DEF Rebuild, Go
  <2>12. CASE Tick
    BY <2>12 DEF Tick, wire
  <2>13. CASE UNCHANGED vars
    BY <2>13 DEF vars, loop, wire
  <2> QED BY <2>1, <2>2, <2>3, <2>4, <2>5, <2>6, <2>7, <2>8, <2>9, <2>10, <2>11,
             <2>12, <2>13 DEF Next, Proceed
<1>3. Spent => GivesUpOnlyWhenSpent
  BY DEF Spent
<1> QED BY <1>1, <1>2, <1>3, AttemptsCountedInvariant, PTL DEF Spec
-----------------------------------------------------------------------------
(* The breaker's operations, taken whole, keep the type of its fields.          *)
LEMMA BreakerTyped ==
  ASSUME NEW b \in Ops!Breakers
  PROVE  /\ Ops!Asked(b) \in Ops!Breakers /\ Ops!Aged(b) \in Ops!Breakers
         /\ \A o : Record(b, o) \in Ops!Breakers
<1>1. Horizon \in Nat /\ None \notin Nat
  BY ConfigAssumption
<1>2. Ops!Asked(b) \in Ops!Breakers
  <2>1. Ops!MaybeHalfOpen(b) \in Ops!Breakers
    BY DEF Ops!Breakers, Ops!MaybeHalfOpen
  <2>2. ASSUME NEW c \in Ops!Breakers
        PROVE  [c EXCEPT !.half_open_count = @ + 1] \in Ops!Breakers
    BY DEF Ops!Breakers
  <2> QED BY <2>1, <2>2 DEF Ops!Asked
<1>3. Ops!Aged(b) \in Ops!Breakers
  <2>1. \A i \in (0..Horizon) \cup {None} : Ops!Older(i) \in (0..Horizon) \cup {None}
    BY <1>1 DEF Ops!Older
  <2> QED BY <2>1 DEF Ops!Aged, Ops!Breakers
<1>4. Ops!RecordSuccess(b) \in Ops!Breakers
  <2>1. Ops!Close(b) \in Ops!Breakers
    BY DEF Ops!Breakers, Ops!Close
  <2>2. [b EXCEPT !.failure_count = 0] \in Ops!Breakers
    BY DEF Ops!Breakers
  <2>3. [b EXCEPT !.success_count = @ + 1] \in Ops!Breakers
    BY DEF Ops!Breakers
  <2>4. b.state \in {"Closed", "Open", "HalfOpen"}
    BY DEF Ops!Breakers
  <2> QED BY <2>1, <2>2, <2>3, <2>4 DEF Ops!RecordSuccess
<1>5. Ops!RecordFailure(b) \in Ops!Breakers
  <2> DEFINE restart == b.last_failure_time # None /\ b.last_failure_time > 0 + FailureWindow
             counted == [b EXCEPT !.failure_count = IF restart THEN 1 ELSE @ + 1]
             tripped == ~restart /\ counted.failure_count >= FailureThreshold
  <2>0. 0 \in (0..Horizon) \cup {None}
    BY <1>1
  <2>1. ASSUME NEW c \in Ops!Breakers PROVE Ops!Open(c) \in Ops!Breakers
    <3>1. CASE c.state = "Open"
      BY <3>1 DEF Ops!Open
    <3>2. CASE c.state # "Open"
      <4> DEFINE timed == [c EXCEPT !.opened_at = 0]
      <4>1. timed \in Ops!Breakers
        BY <2>0 DEF Ops!Breakers
      <4>2. Ops!Open(c) = [timed EXCEPT !.state = "Open", !.half_open_count = 0,
                                        !.success_count = 0]
        BY <3>2 DEF Ops!Open, Ops!Breakers
      <4> HIDE DEF timed
      <4>3. [timed EXCEPT !.state = "Open", !.half_open_count = 0, !.success_count = 0]
              \in Ops!Breakers
        BY <4>1 DEF Ops!Breakers
      <4> QED BY <4>2, <4>3
    <3> QED BY <3>1, <3>2
  <2>2. counted \in Ops!Breakers
    BY DEF Ops!Breakers
  <2> HIDE DEF counted, tripped
  <2> DEFINE after == IF tripped THEN Ops!Open(counted) ELSE counted
  <2>3. after \in Ops!Breakers
    BY <2>1, <2>2
  <2> HIDE DEF after
  <2>4. [after EXCEPT !.last_failure_time = 0] \in Ops!Breakers
    BY <1>1, <2>3 DEF Ops!Breakers
  <2>5. b.state \in {"Closed", "Open", "HalfOpen"}
    BY DEF Ops!Breakers
  <2> QED BY <2>1, <2>4, <2>5
           DEF Ops!RecordFailure, Ops!RecordFailureAt, counted, tripped, after
<1>6. \A o : Record(b, o) \in Ops!Breakers
  BY <1>4, <1>5 DEF Record
<1> QED BY <1>2, <1>3, <1>6

(* Every variable keeps its type, given that the backoff strategy yields a      *)
(* delay for every attempt.                                                     *)
THEOREM TypeCorrect ==
  ASSUME \A n \in Nat : RetryDelay!DelayForAttempt(Backoff, n) \in Nat
  PROVE  Spec => []TypeOK
<1>1. /\ None \in Results /\ "CircuitOpen" \in Results /\ "Interceptor" \in Results
      /\ "StreamingBodyNotRetryable" \in Results /\ "RetryExhausted" \in Results
      /\ \A o \in Outcomes : o \in Results
  BY DEF Results
<1>2. LoopHorizon \in Nat /\ RateLimitWait \in Nat /\ Horizon \in Nat
  BY ConfigAssumption DEF LoopHorizon
<1>3. Specs \subseteq RequestsOnWire
  BY DEF Specs, RequestsOnWire
<1>4. Init => TypeOK
  <2> SUFFICES ASSUME Init PROVE TypeOK
    OBVIOUS
  <2>1. breaker \in Ops!Breakers
    BY DEF Init, Ops!New, Ops!Breakers
  <2>2. spec \in [Requests -> Specs]
    BY DEF Init, Specs
  <2> QED BY <1>1, <1>2, <2>1, <2>2 DEF Init, TypeOK
<1>5. TypeOK /\ [Next]_vars => TypeOK'
  <2> SUFFICES ASSUME TypeOK, [Next]_vars PROVE TypeOK'
    OBVIOUS
  <2> USE <1>1 DEF TypeOK
  <2>1. ASSUME NEW r \in Requests, Start(r) PROVE TypeOK'
    BY <2>1, BreakerTyped DEF Start, Return, Go, loop, wire
  <2>2. ASSUME NEW r \in Requests, NEW out \in RequestsOnWire, Intercepted(r, out)
        PROVE  TypeOK'
    <3>1. [target |-> out.target,
           body |-> IF out.body = "stream" THEN "none" ELSE out.body] \in Specs
      BY DEF RequestsOnWire, Specs
    <3> QED BY <2>2, <3>1 DEF Intercepted, Return, Go, loop, wire
  <2>3. ASSUME NEW r \in Requests, InterceptorFails(r) PROVE TypeOK'
    BY <2>3 DEF InterceptorFails, Return, Go, loop, wire
  <2>4. ASSUME NEW r \in Requests, GiveUp(r) PROVE TypeOK'
    BY <2>4 DEF GiveUp, Return, Go, loop, wire
  <2>5. ASSUME NEW r \in Requests, Send(r) PROVE TypeOK'
    BY <1>3, <2>5 DEF Send, Go, loop
  <2>6. ASSUME NEW r \in Requests, NEW o \in Outcomes, Retry(r, o) PROVE TypeOK'
    <3>1. attempt' = [attempt EXCEPT ![r] = @ + 1] /\ attempt' \in [Requests -> Nat]
      BY <2>6 DEF Retry
    <3>2. RetryDelay!DelayForAttempt(Backoff, attempt'[r]) \in Nat
      BY <3>1
    <3>3. breaker' \in Ops!Breakers
      BY <2>6, BreakerTyped DEF Retry
    <3>4. wait' \in [Requests -> Nat]
      BY <2>6, <3>2 DEF Retry
    <3> QED BY <2>6, <3>1, <3>3, <3>4 DEF Retry, Go, wire
  <2>7. ASSUME NEW r \in Requests, NEW o \in Outcomes, Settle(r, o) PROVE TypeOK'
    <3>1. breaker' \in Ops!Breakers
      BY <2>7, BreakerTyped DEF Settle
    <3>2. wait' \in [Requests -> Nat]
      BY <1>2, <2>7 DEF Settle, RetryAfter
    <3>3. pc' \in {[pc EXCEPT ![r] = "responding"], [pc EXCEPT ![r] = "done"]}
      BY <2>7 DEF Settle, Return, Go
    <3>4. result' = [result EXCEPT ![r] = o]
      BY <2>7 DEF Settle, Return, Go
    <3> QED BY <2>7, <3>1, <3>2, <3>3, <3>4 DEF Settle, wire
  <2>8. ASSUME NEW r \in Requests, Wake(r) PROVE TypeOK'
    BY <2>8 DEF Wake, Go, loop, wire
  <2>9. ASSUME NEW r \in Requests, Respond(r) PROVE TypeOK'
    BY <2>9 DEF Respond, Go, loop, wire
  <2>10. ASSUME NEW r \in Requests, Drop(r) PROVE TypeOK'
    BY <2>10 DEF Drop, Return, Go, loop, wire
  <2>11. ASSUME NEW r \in Requests, Rebuild(r) PROVE TypeOK'
    <3>1. spec' \in [Requests -> Specs]
      BY <2>11 DEF Rebuild, Specs
    <3> QED BY <1>2, <2>11, <3>1 DEF Rebuild, Go
  <2>12. CASE Tick
    <3>1. breaker' \in Ops!Breakers
      BY <2>12, BreakerTyped DEF Tick
    <3> QED BY <1>2, <2>12, <3>1 DEF Tick, wire
  <2>13. CASE UNCHANGED vars
    BY <2>13 DEF vars, loop, wire
  <2> QED BY <2>1, <2>2, <2>3, <2>4, <2>5, <2>6, <2>7, <2>8, <2>9, <2>10, <2>11,
             <2>12, <2>13 DEF Next, Proceed
<1> QED BY <1>4, <1>5, PTL DEF Spec

-----------------------------------------------------------------------------
(***************************************************************************)
(* Where the slots of a half-open breaker go: each is held by a request    *)
(* whose first attempt is not answered yet, or is paid back by a success   *)
(* counted in the same phase.                                              *)
(***************************************************************************)
(* The admitted requests the breaker has not been told an outcome of. *)
Unanswered == {r \in Requests : pc[r] \in {"loop", "sending"} /\ attempt[r] = 0}

(* A request that has not sent anything has spent no more time than MaxStall. *)
FirstAttemptFree ==
  /\ started \in [Requests -> Nat]
  /\ \A r \in Requests :
       /\ pc[r] # "intercepting"
       /\ pc[r] = "idle" => attempt[r] = 0
       /\ pc[r] = "backoff" => attempt[r] > 0
       /\ pc[r] = "idle" => started[r] = 0
       /\ pc[r] = "loop" /\ attempt[r] = 0 => started[r] <= MaxStall

SlotsPaidBack(b, unanswered) ==
  b.state = "HalfOpen" =>
    /\ b.success_count < SuccessThreshold
    /\ \/ b.half_open_count <= b.success_count + Cardinality(unanswered)
       \/ HalfOpenRequests <= b.success_count + Cardinality(unanswered)

SlotsHeld ==
  /\ breaker \in Ops!Breakers
  /\ IsFiniteSet(Unanswered)
  /\ SlotsPaidBack(breaker, Unanswered)

-----------------------------------------------------------------------------
(* Asking counts a slot, and when it is granted the request that asked holds it. *)
LEMMA AskingHoldsSlot ==
  ASSUME SuccessThreshold >= 1, SuccessThreshold <= HalfOpenRequests,
         NEW b \in Ops!Breakers, NEW U, IsFiniteSet(U), SlotsPaidBack(b, U),
         NEW r, r \notin U
  PROVE  SlotsPaidBack(Ops!Asked(b), IF Ops!IsAllowed(b) THEN U \cup {r} ELSE U)
<1> DEFINE s == Ops!MaybeHalfOpen(b)
<1>1. SuccessThreshold \in Nat /\ HalfOpenRequests \in Nat
  BY ConfigAssumption
<1>2. /\ Cardinality(U) \in Nat
      /\ Cardinality(U \cup {r}) = Cardinality(U) + 1
  BY FS_CardinalityType, FS_AddElement
<1>3. s \in Ops!Breakers /\ SlotsPaidBack(s, U)
  <2> DEFINE t == [b EXCEPT !.state = "HalfOpen", !.half_open_count = 0,
                            !.success_count = 0]
  <2>1. t \in Ops!Breakers
    BY DEF Ops!Breakers
  <2>2. t.half_open_count = 0 /\ t.success_count = 0
    BY DEF Ops!Breakers
  <2>3. s \in {b, t}
    BY DEF Ops!MaybeHalfOpen
  <2> HIDE DEF s, t
  <2>4. SlotsPaidBack(t, U)
    BY <1>1, <1>2, <2>2 DEF SlotsPaidBack
  <2> QED BY <2>1, <2>3, <2>4
<1> HIDE DEF s
<1>4. CASE s.state # "HalfOpen"
  <2>1. Ops!Asked(b) = s
    BY <1>4 DEF Ops!Asked, s
  <2> QED BY <1>4, <2>1 DEF SlotsPaidBack
<1>5. CASE s.state = "HalfOpen"
  <2> DEFINE t == [s EXCEPT !.half_open_count = @ + 1]
  <2>1. Ops!Asked(b) = t
    BY <1>5 DEF Ops!Asked, s
  <2>2. Ops!IsAllowed(b) <=> s.half_open_count < HalfOpenRequests
    BY <1>5 DEF Ops!IsAllowed, s
  <2>3. /\ t.state = "HalfOpen"
        /\ t.success_count = s.success_count
        /\ t.half_open_count = s.half_open_count + 1
        /\ s.success_count \in Nat
        /\ s.half_open_count \in Nat
    BY <1>3, <1>5 DEF Ops!Breakers
  <2> HIDE DEF t
  <2>4. CASE s.half_open_count < HalfOpenRequests
    BY <1>1, <1>2, <1>3, <1>5, <2>1, <2>2, <2>3, <2>4 DEF SlotsPaidBack
  <2>5. CASE ~(s.half_open_count < HalfOpenRequests)
    <3>1. HalfOpenRequests <= s.success_count + Cardinality(U)
      BY <1>1, <1>2, <1>3, <1>5, <2>3, <2>5 DEF SlotsPaidBack
    <3> QED BY <1>3, <1>5, <2>1, <2>2, <2>3, <2>5, <3>1 DEF SlotsPaidBack
  <2> QED BY <2>4, <2>5
<1> QED BY <1>4, <1>5

(* Recording an outcome pays the slot of the request that records it back.      *)
LEMMA RecordingPaysBack ==
  ASSUME NEW b \in Ops!Breakers, NEW U, IsFiniteSet(U), SlotsPaidBack(b, U),
         NEW V, IsFiniteSet(V), Cardinality(V) >= Cardinality(U) - 1,
         NEW o, o \notin Refusals
  PROVE  SlotsPaidBack(Record(b, o), V)
<1>1. SuccessThreshold \in Nat /\ HalfOpenRequests \in Nat
  BY ConfigAssumption
<1>2. Cardinality(U) \in Nat /\ Cardinality(V) \in Nat
  BY FS_CardinalityType
<1>3. /\ b.state \in {"Closed", "Open", "HalfOpen"}
      /\ b.success_count \in Nat /\ b.half_open_count \in Nat
  BY DEF Ops!Breakers
<1>4. SlotsPaidBack(Ops!RecordSuccess(b), V)
  <2>1. CASE b.state # "HalfOpen"
    BY <1>3, <2>1 DEF Ops!RecordSuccess, Ops!Breakers, SlotsPaidBack
  <2>2. CASE b.state = "HalfOpen" /\ b.success_count + 1 >= SuccessThreshold
    <3>1. Ops!RecordSuccess(b).state = "Closed"
      BY <2>2 DEF Ops!RecordSuccess, Ops!Close, Ops!Breakers
    <3> QED BY <3>1 DEF SlotsPaidBack
  <2>3. CASE b.state = "HalfOpen" /\ ~(b.success_count + 1 >= SuccessThreshold)
    <3> DEFINE t == [b EXCEPT !.success_count = @ + 1]
    <3>1. Ops!RecordSuccess(b) = t
      BY <2>3 DEF Ops!RecordSuccess
    <3>2. /\ t.state = "HalfOpen"
          /\ t.success_count = b.success_count + 1
          /\ t.half_open_count = b.half_open_count
      BY <2>3 DEF Ops!Breakers
    <3> HIDE DEF t
    <3> QED BY <1>1, <1>2, <1>3, <2>3, <3>1, <3>2 DEF SlotsPaidBack
  <2> QED BY <1>3, <2>1, <2>2, <2>3
<1>5. SlotsPaidBack(Ops!RecordFailure(b), V)
  <2>1. Ops!RecordFailure(b).state # "HalfOpen"
    BY <1>3 DEF Ops!RecordFailure, Ops!RecordFailureAt, Ops!Open, Ops!Breakers
  <2> QED BY <2>1 DEF SlotsPaidBack
<1> QED BY <1>4, <1>5 DEF Record

LEMMA AgingKeepsSlots ==
  ASSUME NEW b \in Ops!Breakers, NEW U, SlotsPaidBack(b, U)
  PROVE  SlotsPaidBack(Ops!Aged(b), U)
BY DEF Ops!Aged, Ops!Breakers, SlotsPaidBack

-----------------------------------------------------------------------------
LEMMA StepKeepsFirstAttemptFree ==
  ASSUME ~Intercepting, AttemptsCounted, FirstAttemptFree, [Next]_vars
  PROVE  FirstAttemptFree'
<1> USE ConfigAssumption DEF AttemptsCounted, FirstAttemptFree
<1>1. ASSUME NEW r \in Requests, Start(r) PROVE FirstAttemptFree'
  BY <1>1 DEF Start, Return, Go, loop, wire
<1>2. ASSUME NEW r \in Requests, NEW out \in RequestsOnWire, Intercepted(r, out)
      PROVE  FirstAttemptFree'
  BY <1>2 DEF Intercepted, Return, Go, loop, wire
<1>3. ASSUME NEW r \in Requests,
             InterceptorFails(r) \/ GiveUp(r) \/ Wake(r) \/ Respond(r)
      PROVE  FirstAttemptFree'
  BY <1>3 DEF InterceptorFails, GiveUp, Wake, Respond, Return, Go, loop, wire
<1>4. ASSUME NEW r \in Requests, Send(r) PROVE FirstAttemptFree'
  BY <1>4 DEF Send, Go, loop
<1>5. ASSUME NEW r \in Requests, NEW o \in Outcomes, Retry(r, o)
      PROVE  FirstAttemptFree'
  BY <1>5 DEF Retry, Go, wire
<1>6. ASSUME NEW r \in Requests, NEW o \in Outcomes, Settle(r, o)
      PROVE  FirstAttemptFree'
  BY <1>6 DEF Settle, Return, Go, loop, wire
<1>7. ASSUME NEW r \in Requests, Drop(r) PROVE FirstAttemptFree'
  BY <1>7 DEF Drop, Return, Go, loop, wire
<1>8. ASSUME NEW r \in Requests, Rebuild(r) PROVE FirstAttemptFree'
  BY <1>8 DEF Rebuild, Go
<1>9. CASE Tick
  BY <1>9 DEF Tick, wire
<1>10. CASE UNCHANGED vars
  BY <1>10 DEF vars, loop, wire
<1> QED BY <1>1, <1>2, <1>3, <1>4, <1>5, <1>6, <1>7, <1>8, <1>9, <1>10
        DEF Next, Proceed

(* A step that leaves the breaker alone leaves the slots with whom they are. *)
LEMMA SameSlots ==
  ASSUME SlotsHeld, breaker' = breaker, Unanswered' = Unanswered
  PROVE  SlotsHeld'
BY DEF SlotsHeld

LEMMA StepKeepsSlots ==
  ASSUME ~Intercepting, ~Droppable, Outcomes \cap Refusals = {},
         SuccessThreshold >= 1, SuccessThreshold <= HalfOpenRequests,
         MaxRetryTime # None => MaxStall <= MaxRetryTime,
         AttemptsCounted, FirstAttemptFree, SlotsHeld, [Next]_vars
  PROVE  SlotsHeld'
<1> USE DEF AttemptsCounted, FirstAttemptFree
<1>1. breaker \in Ops!Breakers /\ IsFiniteSet(Unanswered)
      /\ SlotsPaidBack(breaker, Unanswered)
  BY DEF SlotsHeld
<1>2. ASSUME NEW r \in Requests, Start(r) PROVE SlotsHeld'
  <2>1. r \notin Unanswered
    BY <1>2 DEF Start, Return, Go, Unanswered
  <2>2. Unanswered' = IF Ops!IsAllowed(breaker) THEN Unanswered \cup {r} ELSE Unanswered
    <3>1. CASE Ops!IsAllowed(breaker)
      BY <1>2, <3>1 DEF Start, Go, loop, Unanswered
    <3>2. CASE ~Ops!IsAllowed(breaker)
      BY <1>2, <3>2 DEF Start, Return, Go, loop, Unanswered
    <3> QED BY <3>1, <3>2
  <2>3. breaker' = Ops!Asked(breaker)
    BY <1>2 DEF Start
  <2>4. breaker' \in Ops!Breakers
    BY <1>1, <2>3, BreakerTyped
  <2>5. IsFiniteSet(Unanswered \cup {r})
    BY <1>1, FS_AddElement
  <2>6. SlotsPaidBack(breaker', Unanswered')
    BY <1>1, <2>1, <2>2, <2>3, AskingHoldsSlot
  <2> QED BY <1>1, <2>2, <2>4, <2>5, <2>6 DEF SlotsHeld, SlotsPaidBack
<1>3. ASSUME NEW r \in Requests, NEW o \in Outcomes, Retry(r, o) \/ Settle(r, o)
      PROVE  SlotsHeld'
  <2>1. breaker' = Record(breaker, o) /\ o \notin Refusals
    BY <1>3 DEF Retry, Settle
  <2>2. breaker' \in Ops!Breakers
    BY <1>1, <2>1, BreakerTyped
  <2>3. Unanswered' = Unanswered \ {r}
    <3>1. CASE Retry(r, o)
      BY <3>1 DEF Retry, Go, Unanswered
    <3>2. CASE Settle(r, o)
      BY <3>2 DEF Settle, Return, Go, Unanswered
    <3> QED BY <1>3, <3>1, <3>2
  <2>4. /\ IsFiniteSet(Unanswered \ {r})
        /\ Cardinality(Unanswered \ {r}) >= Cardinality(Unanswered) - 1
    <3>1. IsFiniteSet(Unanswered \ {r})
      BY <1>1, FS_RemoveElement
    <3>2. Cardinality(Unanswered \ {r})
            = IF r \in Unanswered THEN Cardinality(Unanswered) - 1
                                  ELSE Cardinality(Unanswered)
      BY <1>1, FS_RemoveElement
    <3>3. Cardinality(Unanswered) \in Nat
      BY <1>1, FS_CardinalityType
    <3> QED BY <3>1, <3>2, <3>3
  <2>5. SlotsPaidBack(breaker', Unanswered')
    BY <1>1, <2>1, <2>3, <2>4, RecordingPaysBack
  <2> QED BY <2>2, <2>3, <2>4, <2>5 DEF SlotsHeld, SlotsPaidBack
<1>4. CASE Tick
  <2>1. breaker' = Ops!Aged(breaker) /\ Unanswered' = Unanswered
    BY <1>4 DEF Tick, Unanswered
  <2>2. breaker' \in Ops!Breakers /\ SlotsPaidBack(breaker', Unanswered)
    BY <1>1, <2>1, BreakerTyped, AgingKeepsSlots
  <2> QED BY <1>1, <2>1, <2>2 DEF SlotsHeld, SlotsPaidBack
<1>5. ASSUME NEW r \in Requests, Send(r) \/ Wake(r) PROVE SlotsHeld'
  <2>1. Unanswered' = Unanswered /\ breaker' = breaker
    BY <1>5 DEF Send, Wake, Go, loop, Unanswered
  <2> QED BY <2>1, SameSlots
<1>6. ASSUME NEW r \in Requests, GiveUp(r) PROVE SlotsHeld'
  <2>1. attempt[r] # 0
    <3>1. started[r] \in Nat /\ MaxStall \in Nat /\ MaxRetryTime \in Nat \cup {None}
      BY ConfigAssumption
    <3>2. started[r] <= MaxStall => ~OutOfTime(r)
      BY <3>1 DEF OutOfTime
    <3> QED BY <1>6, <3>2 DEF GiveUp, Return, Go
  <2>2. Unanswered' = Unanswered /\ breaker' = breaker
    BY <1>6, <2>1 DEF GiveUp, Return, Go, loop, Unanswered
  <2> QED BY <2>2, SameSlots
<1>7. ASSUME NEW r \in Requests, Respond(r) \/ Rebuild(r) PROVE SlotsHeld'
  <2>1. Unanswered' = Unanswered /\ breaker' = breaker
    <3>1. CASE Respond(r)
      BY <3>1 DEF Respond, Go, loop, Unanswered
    <3>2. CASE Rebuild(r)
      BY <3>2 DEF Rebuild, Go, Unanswered
    <3> QED BY <1>7, <3>1, <3>2
  <2> QED BY <2>1, SameSlots
<1>8. ASSUME NEW r \in Requests,
             \/ \E out \in RequestsOnWire : Intercepted(r, out)
             \/ InterceptorFails(r) \/ Drop(r)
      PROVE  FALSE
  BY <1>8 DEF Intercepted, InterceptorFails, Drop, Return, Go
<1>9. CASE UNCHANGED vars
  <2>1. Unanswered' = Unanswered /\ breaker' = breaker
    BY <1>9 DEF vars, loop, Unanswered
  <2> QED BY <2>1, SameSlots
<1> QED BY <1>2, <1>3, <1>4, <1>5, <1>6, <1>7, <1>8, <1>9 DEF Next, Proceed

(* When every request reaches an outcome the breaker is told of,                *)
(* success_threshold does not exceed half_open_requests and max_retry_time is   *)
(* not over before the first attempt, a half-open breaker with no request in    *)
(* progress has a slot for the next one, however requests, retries and timers   *)
(* interleave: the client cannot starve itself.                                 *)
THEOREM ClientNeverStarves ==
  ASSUME ~Intercepting, ~Droppable, Outcomes \cap Refusals = {},
         SuccessThreshold >= 1, SuccessThreshold <= HalfOpenRequests,
         MaxRetryTime # None => MaxStall <= MaxRetryTime
  PROVE  Spec => []NeverStarved
<1>1. Init => FirstAttemptFree
  BY DEF Init, FirstAttemptFree
<1>2. Init => SlotsHeld
  <2> SUFFICES ASSUME Init PROVE SlotsHeld
    OBVIOUS
  <2>1. Unanswered = {}
    BY DEF Init, Unanswered
  <2>2. breaker \in Ops!Breakers /\ breaker.state = "Closed"
    BY DEF Init, Ops!New, Ops!Breakers
  <2> QED BY <2>1, <2>2, FS_EmptySet DEF SlotsHeld, SlotsPaidBack
<1>3. AttemptsCounted /\ FirstAttemptFree /\ [Next]_vars => FirstAttemptFree'
  BY StepKeepsFirstAttemptFree
<1>4. AttemptsCounted /\ FirstAttemptFree /\ SlotsHeld /\ [Next]_vars => SlotsHeld'
  BY StepKeepsSlots
<1>5. SlotsHeld => NeverStarved
  <2> SUFFICES ASSUME SlotsHeld, breaker.state = "HalfOpen",
                      \A r \in Requests : pc[r] \in {"idle", "done"}
               PROVE  breaker.half_open_count < HalfOpenRequests
    BY DEF NeverStarved
  <2>1. Unanswered = {}
    BY DEF Unanswered
  <2>2. breaker.success_count \in Nat /\ breaker.half_open_count \in Nat
    BY DEF SlotsHeld, Ops!Breakers
  <2>3. SuccessThreshold \in Nat /\ HalfOpenRequests \in Nat
    BY ConfigAssumption
  <2> QED BY <2>1, <2>2, <2>3, FS_EmptySet DEF SlotsHeld, SlotsPaidBack
<1> QED BY <1>1, <1>2, <1>3, <1>4, <1>5, AttemptsCountedInvariant, PTL DEF Spec
=============================================================================
