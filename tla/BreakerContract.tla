-------------------------- MODULE BreakerContract --------------------------
(***************************************************************************)
(* What a circuit breaker promises the service it protects, free of the    *)
(* code's locks, atomics and intermediate steps: the circuit opens only    *)
(* when the failures counted have reached the threshold, turns half-open   *)
(* only after a full reset_timeout, closes only when enough successes have *)
(* been recorded since then, and reopens on a failure recorded meanwhile.  *)
(* Whose outcome it is does not matter, as in the code: a request admitted *)
(* before the circuit opened may be the one that succeeds.                 *)
(***************************************************************************)
EXTENDS Naturals

CONSTANTS FailureThreshold, SuccessThreshold, ResetTimeout, Horizon, None

VARIABLES
  circuit,    \* the circuit state an observer sees
  failures,   \* failures counted against the threshold
  successes,  \* successes recorded in this half-open phase, of any request
  open_for    \* how long ago the circuit last opened, None if it is closed

contract == <<circuit, failures, successes, open_for>>

Init ==
  /\ circuit = "Closed"
  /\ failures = 0
  /\ successes = 0
  /\ open_for = None

Opening ==
  /\ circuit' = "Open"
  /\ open_for' = 0
  /\ successes' = 0
  /\ UNCHANGED failures

(* A failure counts on top of the others, or is the first of a new window. *)
Fail ==
  /\ circuit = "Closed"
  /\ failures < FailureThreshold
  /\ failures' \in {failures + 1, 1}
  /\ UNCHANGED <<circuit, successes, open_for>>

Forget ==
  /\ circuit = "Closed"
  /\ failures < FailureThreshold
  /\ failures' = 0
  /\ UNCHANGED <<circuit, successes, open_for>>

Trip ==
  /\ circuit = "Closed"
  /\ failures >= FailureThreshold
  /\ Opening

(* The timeout is over: requests may test the service. *)
TurnHalfOpen ==
  /\ circuit = "Open"
  /\ open_for >= ResetTimeout
  /\ circuit' = "HalfOpen"
  /\ successes' = 0
  /\ UNCHANGED <<failures, open_for>>

(* A success or a failure is recorded while the circuit is half-open, by        *)
(* whichever request.                                                           *)
Succeed ==
  /\ circuit = "HalfOpen"
  /\ successes < SuccessThreshold
  /\ successes' = successes + 1
  /\ UNCHANGED <<circuit, failures, open_for>>

Reopen ==
  /\ circuit = "HalfOpen"
  /\ successes < SuccessThreshold
  /\ Opening

Recover ==
  /\ circuit = "HalfOpen"
  /\ successes >= SuccessThreshold
  /\ circuit' = "Closed"
  /\ failures' = 0
  /\ successes' = 0
  /\ open_for' = None

Elapse ==
  /\ open_for # None
  /\ open_for < Horizon
  /\ open_for' = open_for + 1
  /\ UNCHANGED <<circuit, failures, successes>>

Next ==
  Fail \/ Forget \/ Trip \/ TurnHalfOpen \/ Succeed \/ Reopen \/ Recover \/ Elapse

Spec == Init /\ [][Next]_contract
=============================================================================
