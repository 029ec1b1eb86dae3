----------------------------- MODULE BreakerOps -----------------------------
(***************************************************************************)
(* The operations of src/src/circuit_breaker.rs as functions of the        *)
(* breaker's fields, each taken whole: what one call does when no other    *)
(* call overlaps it.  CircuitBreaker takes the same calls apart; the       *)
(* client, which awaits between calls and never inside one, is modelled    *)
(* over these.  Instants are ages, as in CircuitBreaker.                   *)
(***************************************************************************)
LOCAL INSTANCE Naturals

CONSTANTS FailureThreshold, SuccessThreshold, ResetTimeout, HalfOpenRequests,
          FailureWindow, Horizon, None

Breakers ==
  [state : {"Closed", "Open", "HalfOpen"}, failure_count : Nat, success_count : Nat,
   half_open_count : Nat, last_failure_time : (0..Horizon) \cup {None},
   opened_at : (0..Horizon) \cup {None}]

New == [state |-> "Closed", failure_count |-> 0, success_count |-> 0,
        half_open_count |-> 0, last_failure_time |-> None, opened_at |-> None]

Open(b) ==
  IF b.state = "Open" THEN b
  ELSE [b EXCEPT !.state = "Open", !.opened_at = 0, !.half_open_count = 0,
                 !.success_count = 0]

Close(b) ==
  IF b.state = "Closed" THEN b
  ELSE [b EXCEPT !.state = "Closed", !.opened_at = None, !.failure_count = 0,
                 !.success_count = 0, !.half_open_count = 0]

MaybeHalfOpen(b) ==
  IF b.state = "Open" /\ b.opened_at # None /\ b.opened_at >= ResetTimeout
    THEN [b EXCEPT !.state = "HalfOpen", !.half_open_count = 0, !.success_count = 0]
    ELSE b

(* is_allowed: its answer, and the breaker after it *)
IsAllowed(b) ==
  LET s == MaybeHalfOpen(b) IN
  \/ s.state = "Closed"
  \/ s.state = "HalfOpen" /\ s.half_open_count < HalfOpenRequests

Asked(b) ==
  LET s == MaybeHalfOpen(b) IN
  IF s.state = "HalfOpen" THEN [s EXCEPT !.half_open_count = @ + 1] ELSE s

(* Plausible bug: one success more than success_threshold closes the circuit. *)
RecordSuccessStrict(b) ==
  CASE b.state = "Closed" -> [b EXCEPT !.failure_count = 0]
    [] b.state = "Open"   -> b
    [] b.state = "HalfOpen" ->
         IF b.success_count + 1 > SuccessThreshold
           THEN Close(b) ELSE [b EXCEPT !.success_count = @ + 1]

RecordSuccess(b) ==
  CASE b.state = "Closed" -> [b EXCEPT !.failure_count = 0]
    [] b.state = "Open"   -> b
    [] b.state = "HalfOpen" ->
         IF b.success_count + 1 >= SuccessThreshold
           THEN Close(b) ELSE [b EXCEPT !.success_count = @ + 1]

(* a failure at an Instant `now` of that age, written to last_failure_time *)
RecordFailureAt(b, age) ==
  LET restart == b.last_failure_time # None /\ b.last_failure_time > age + FailureWindow
      counted == [b EXCEPT !.failure_count = IF restart THEN 1 ELSE @ + 1]
      tripped == ~restart /\ counted.failure_count >= FailureThreshold
  IN CASE b.state = "HalfOpen" -> Open(b)
       [] b.state = "Open"     -> b
       [] b.state = "Closed"   -> [(IF tripped THEN Open(counted) ELSE counted)
                                     EXCEPT !.last_failure_time = age]

RecordFailure(b) == RecordFailureAt(b, 0)

Older(i) == IF i = None \/ i = Horizon THEN i ELSE i + 1

Aged(b) == [b EXCEPT !.last_failure_time = Older(@), !.opened_at = Older(@)]
=============================================================================
