--------------------------- MODULE AtomicBreaker ---------------------------
(***************************************************************************)
(* A breaker whose calls are atomic: each takes effect in one step between *)
(* its invocation and its return, as the operation of BreakerOps says, and *)
(* is answered by the same step.  This is the breaker HttpClient is        *)
(* written over.                                                           *)
(***************************************************************************)
EXTENDS Naturals, BreakerOps

CONSTANTS
  Callers,
  MaxStall   \* longest time between a failure and the effect of recording it

VARIABLES
  fields,  \* the fields of the breaker
  stage    \* where each caller stands: between calls, or in a call without effect yet

atomic == <<fields, stage>>

Init ==
  /\ fields = New
  /\ stage = [t \in Callers |-> "idle"]

Move(t, from, to) == stage[t] \in from /\ stage' = [stage EXCEPT ![t] = to]

Invoke(t) ==
  /\ \/ Move(t, {"idle"}, "asking")
     \/ Move(t, {"admitted", "recorded"}, "succeeding")
     \/ Move(t, {"admitted", "recorded"}, "failing")
  /\ UNCHANGED fields

(* is_allowed answers: the caller is admitted or turned away. *)
Ask(t) ==
  /\ Move(t, {"asking"}, IF IsAllowed(fields) THEN "admitted" ELSE "idle")
  /\ fields' = Asked(fields)

(* The transition is_allowed and state() begin with.  Taking it first does not  *)
(* change what the call does next: Asked is Asked after MaybeHalfOpen.          *)
Transition(t) ==
  /\ stage[t] = "asking"
  /\ fields' = MaybeHalfOpen(fields)
  /\ UNCHANGED stage

(* state() answers. *)
Look(t) ==
  /\ Move(t, {"asking"}, "idle")
  /\ fields' = MaybeHalfOpen(fields)

Succeed(t) ==
  /\ Move(t, {"succeeding"}, "recorded")
  /\ fields' = RecordSuccess(fields)

Fail(t) ==
  /\ Move(t, {"failing"}, "recorded")
  /\ \E age \in 0..MaxStall : fields' = RecordFailureAt(fields, age)

Leave(t) ==
  /\ Move(t, {"admitted", "recorded"}, "idle")
  /\ UNCHANGED fields

Elapse ==
  /\ fields' = Aged(fields)
  /\ UNCHANGED stage

Next ==
  \/ \E t \in Callers :
       Invoke(t) \/ Ask(t) \/ Transition(t) \/ Look(t) \/ Succeed(t) \/ Fail(t)
         \/ Leave(t)
  \/ Elapse

Spec == Init /\ [][Next]_atomic
=============================================================================
