--------------------------- MODULE CircuitBreaker ---------------------------
(***************************************************************************)
(* src/src/circuit_breaker.rs: one CircuitBreaker shared by concurrent     *)
(* callers.  A step of a caller is one access to the shared state: a read  *)
(* of `state`, one atomic operation on a counter, one access to a          *)
(* timestamp, or one write-lock critical section (open, close, the         *)
(* half-open transition).  A critical section is one step because every    *)
(* reader of `state` waits for the lock and a caller past its read makes   *)
(* at most one access to each counter before it reads `state` again.       *)
(*                                                                         *)
(* An Instant is represented by its age, the time elapsed since it was     *)
(* taken: Tick makes every Instant older, and ages stop growing at         *)
(* Horizon, past which no comparison in the code changes.                  *)
(***************************************************************************)
EXTENDS Naturals, FiniteSets

CONSTANTS
  Callers,            \* the tasks that share the breaker
  FailureThreshold,   \* the fields of CircuitBreakerConfig
  SuccessThreshold,
  ResetTimeout,
  HalfOpenRequests,
  FailureWindow,
  None,               \* Option::None
  CounterWidth,       \* half_open_count is a u32: it wraps at CounterWidth
  CallBound,          \* no call of is_allowed starts at half_open_count >= CallBound
  MaxStall,           \* longest time a caller spends inside record_failure
  Horizon,            \* age at which an Instant stops growing
  Abandonable,        \* may an admitted request end without recording an outcome
  Resettable,         \* does the application call reset()
  Overlapping         \* may a call start while another caller is inside one

ASSUME ConfigAssumption ==
  /\ {FailureThreshold, SuccessThreshold, HalfOpenRequests,
      ResetTimeout, FailureWindow, CallBound} \subseteq Nat
  /\ CounterWidth \in Nat \ {0}
  /\ MaxStall \in Nat \ {0}
  /\ Horizon \in Nat
  /\ Horizon >= ResetTimeout
  /\ Horizon > FailureWindow + MaxStall
  /\ Abandonable \in BOOLEAN
  /\ Resettable \in BOOLEAN
  /\ Overlapping \in BOOLEAN
  /\ None \notin Nat

VARIABLES
  state, failure_count, success_count, half_open_count,
  last_failure_time, opened_at,   \* the fields of CircuitBreaker
  pc,       \* where each caller stands
  instant,  \* the Instant each caller holds: `opened_at` or `now`
  probes,   \* history: slots granted in the current half-open phase
  owing     \* history: the callers holding one of those slots, outcome not counted

breaker == <<state, failure_count, success_count, half_open_count,
             last_failure_time, opened_at>>
history == <<probes, owing>>
vars == <<breaker, pc, instant, history>>

Age == 0..Horizon

(* The points of record_failure at which `now` is still to be used. *)
Failing == {"failure", "window", "restart", "count", "trip", "stamp"}

Points == {"idle", "check", "timer", "expiry", "half_open", "admit", "slot",
           "inflight", "success", "forget", "probe_ok", "close", "reopen",
           "recorded"}
            \cup Failing

TypeOK ==
  /\ state \in {"Closed", "Open", "HalfOpen"}
  /\ failure_count \in Nat
  /\ success_count \in Nat
  /\ half_open_count \in Nat
  /\ last_failure_time \in Age \cup {None}
  /\ opened_at \in Age \cup {None}
  /\ pc \in [Callers -> Points]
  /\ instant \in [Callers -> Age \cup {None}]
  /\ probes \in Nat
  /\ owing \subseteq Callers

Init ==
  /\ state = "Closed"
  /\ failure_count = 0
  /\ success_count = 0
  /\ half_open_count = 0
  /\ last_failure_time = None
  /\ opened_at = None
  /\ pc = [t \in Callers |-> "idle"]
  /\ instant = [t \in Callers |-> None]
  /\ probes = 0
  /\ owing = {}

Go(t, from, to) == pc[t] = from /\ pc' = [pc EXCEPT ![t] = to]

Hold(t, i) == instant' = [instant EXCEPT ![t] = i]

NewPhase == probes' = 0 /\ owing' = {}

(* No caller awaits inside a call: on a runtime of one thread no two overlap.   *)
InCall(t) == pc[t] \notin {"idle", "inflight", "recorded"}
MayCall == Overlapping \/ \A t \in Callers : ~InCall(t)

-----------------------------------------------------------------------------
(* Bugs this code could plausibly have: each stands in for the definition after *)
(* whose name it is called, and some property must then fail.                   *)

(* opened_at holds the deadline instead of the time of opening *)
OpenCircuitDeadline ==
  /\ state' = "Open"
  /\ opened_at' = 0 - ResetTimeout
  /\ half_open_count' = 0
  /\ success_count' = 0
  /\ NewPhase
  /\ UNCHANGED <<failure_count, last_failure_time>>

(* opened_at is not stamped *)
OpenCircuitNoStamp ==
  /\ state' = "Open"
  /\ half_open_count' = 0
  /\ success_count' = 0
  /\ NewPhase
  /\ UNCHANGED <<failure_count, last_failure_time, opened_at>>

(* no second look at `state` under the write lock *)
HalfOpenCircuitNoRecheck ==
  /\ state' = "HalfOpen"
  /\ half_open_count' = 0
  /\ success_count' = 0
  /\ IF state = "HalfOpen" THEN UNCHANGED history ELSE NewPhase
  /\ UNCHANGED <<failure_count, last_failure_time, opened_at>>

(* half_open_count is left to the reset in open() *)
HalfOpenCircuitStaleCount ==
  IF state = "Open"
    THEN /\ state' = "HalfOpen"
         /\ success_count' = 0
         /\ NewPhase
         /\ UNCHANGED <<failure_count, half_open_count, last_failure_time, opened_at>>
    ELSE UNCHANGED <<breaker, history>>

(* the circuit turns half-open one unit of time early *)
CheckExpiryEarly(t) ==
  /\ Go(t, "expiry", IF instant[t] + 1 >= ResetTimeout THEN "half_open" ELSE "admit")
  /\ Hold(t, None)
  /\ UNCHANGED <<breaker, history>>

(* the thresholds are compared with > *)
CountSuccessStrict(t) ==
  /\ success_count' = success_count + 1
  /\ Go(t, "probe_ok", IF success_count' > SuccessThreshold THEN "close"
                                                            ELSE "recorded")
  /\ owing' = owing \ {t}
  /\ UNCHANGED <<state, failure_count, half_open_count, last_failure_time,
                 opened_at, instant, probes>>

CountFailureStrict(t) ==
  /\ failure_count' = failure_count + 1
  /\ Go(t, "count", IF failure_count' > FailureThreshold THEN "trip" ELSE "stamp")
  /\ UNCHANGED <<state, success_count, half_open_count, last_failure_time,
                 opened_at, instant, history>>

(* last_failure_time is the Instant of the write, not of the entry *)
StampFailureLate(t) ==
  /\ Go(t, "stamp", "recorded")
  /\ last_failure_time' = 0
  /\ Hold(t, None)
  /\ UNCHANGED <<state, failure_count, success_count, half_open_count,
                 opened_at, history>>

-----------------------------------------------------------------------------
(* The three critical sections. *)

OpenCircuit ==
  \/ /\ state # "Open"
     /\ state' = "Open"
     /\ opened_at' = 0
     /\ half_open_count' = 0
     /\ success_count' = 0
     /\ NewPhase
     /\ UNCHANGED <<failure_count, last_failure_time>>
  \/ state = "Open" /\ UNCHANGED <<breaker, history>>

CloseCircuit ==
  \/ /\ state # "Closed"
     /\ state' = "Closed"
     /\ opened_at' = None
     /\ failure_count' = 0
     /\ success_count' = 0
     /\ half_open_count' = 0
     /\ NewPhase
     /\ UNCHANGED last_failure_time
  \/ state = "Closed" /\ UNCHANGED <<breaker, history>>

HalfOpenCircuit ==
  \/ /\ state = "Open"
     /\ state' = "HalfOpen"
     /\ half_open_count' = 0
     /\ success_count' = 0
     /\ NewPhase
     /\ UNCHANGED <<failure_count, last_failure_time, opened_at>>
  \/ state # "Open" /\ UNCHANGED <<breaker, history>>

-----------------------------------------------------------------------------
(* is_allowed() and state(), which share maybe_transition_to_half_open: which *)
(* of the two was called shows when the transition has been considered.       *)

CallIsAllowed(t) ==
  /\ MayCall
  /\ half_open_count < CallBound
  /\ Go(t, "idle", "check")
  /\ UNCHANGED <<breaker, instant, history>>

CheckState(t) ==
  /\ Go(t, "check", IF state = "Open" THEN "timer" ELSE "admit")
  /\ UNCHANGED <<breaker, instant, history>>

ReadOpenedAt(t) ==
  /\ Go(t, "timer", IF opened_at = None THEN "admit" ELSE "expiry")
  /\ Hold(t, opened_at)
  /\ UNCHANGED <<breaker, history>>

CheckExpiry(t) ==
  /\ Go(t, "expiry", IF instant[t] >= ResetTimeout THEN "half_open" ELSE "admit")
  /\ Hold(t, None)
  /\ UNCHANGED <<breaker, history>>

EnterHalfOpen(t) ==
  /\ Go(t, "half_open", "admit")
  /\ HalfOpenCircuit
  /\ UNCHANGED instant

Admit(t) ==
  /\ Go(t, "admit", CASE state = "Closed"   -> "inflight"
                      [] state = "Open"     -> "idle"
                      [] state = "HalfOpen" -> "slot")
  /\ UNCHANGED <<breaker, instant, history>>

(* The call was state(): it reads `state` and decides nothing. *)
StateReturns(t) ==
  /\ Go(t, "admit", "idle")
  /\ UNCHANGED <<breaker, instant, history>>

TakeSlot(t) ==
  LET granted == half_open_count < HalfOpenRequests
  IN /\ Go(t, "slot", IF granted THEN "inflight" ELSE "idle")
     /\ half_open_count' = (half_open_count + 1) % CounterWidth
     /\ IF granted /\ state = "HalfOpen"
          THEN probes' = probes + 1 /\ owing' = owing \cup {t}
          ELSE UNCHANGED history
     /\ UNCHANGED <<state, failure_count, success_count, last_failure_time,
                    opened_at, instant>>

-----------------------------------------------------------------------------
(* record_success() *)

CallRecordSuccess(t) ==
  /\ MayCall
  /\ Go(t, "inflight", "success") \/ Go(t, "recorded", "success")
  /\ UNCHANGED <<breaker, instant, history>>

SuccessState(t) ==
  /\ Go(t, "success", CASE state = "Closed"   -> "forget"
                        [] state = "HalfOpen" -> "probe_ok"
                        [] state = "Open"     -> "recorded")
  /\ UNCHANGED <<breaker, instant, history>>

ForgetFailures(t) ==
  /\ Go(t, "forget", "recorded")
  /\ failure_count' = 0
  /\ UNCHANGED <<state, success_count, half_open_count, last_failure_time,
                 opened_at, instant, history>>

CountSuccess(t) ==
  /\ success_count' = success_count + 1
  /\ Go(t, "probe_ok", IF success_count' >= SuccessThreshold THEN "close"
                                                             ELSE "recorded")
  /\ owing' = owing \ {t}
  /\ UNCHANGED <<state, failure_count, half_open_count, last_failure_time,
                 opened_at, instant, probes>>

Close(t) ==
  /\ Go(t, "close", "recorded")
  /\ CloseCircuit
  /\ UNCHANGED instant

-----------------------------------------------------------------------------
(* record_failure() *)

CallRecordFailure(t) ==
  /\ MayCall
  /\ Go(t, "inflight", "failure") \/ Go(t, "recorded", "failure")
  /\ Hold(t, 0)
  /\ UNCHANGED <<breaker, history>>

FailureState(t) ==
  /\ Go(t, "failure", CASE state = "Closed"   -> "window"
                        [] state = "HalfOpen" -> "reopen"
                        [] state = "Open"     -> "recorded")
  /\ Hold(t, IF state = "Closed" THEN instant[t] ELSE None)
  /\ UNCHANGED <<breaker, history>>

(* now.duration_since(last) > failure_window, in ages *)
CheckWindow(t) ==
  /\ Go(t, "window", IF last_failure_time # None
                          /\ last_failure_time > instant[t] + FailureWindow
                       THEN "restart" ELSE "count")
  /\ UNCHANGED <<breaker, instant, history>>

RestartCount(t) ==
  /\ Go(t, "restart", "stamp")
  /\ failure_count' = 1
  /\ UNCHANGED <<state, success_count, half_open_count, last_failure_time,
                 opened_at, instant, history>>

CountFailure(t) ==
  /\ failure_count' = failure_count + 1
  /\ Go(t, "count", IF failure_count' >= FailureThreshold THEN "trip" ELSE "stamp")
  /\ UNCHANGED <<state, success_count, half_open_count, last_failure_time,
                 opened_at, instant, history>>

Trip(t) ==
  /\ Go(t, "trip", "stamp")
  /\ OpenCircuit
  /\ UNCHANGED instant

StampFailure(t) ==
  /\ Go(t, "stamp", "recorded")
  /\ last_failure_time' = instant[t]
  /\ Hold(t, None)
  /\ UNCHANGED <<state, failure_count, success_count, half_open_count,
                 opened_at, history>>

Reopen(t) ==
  /\ Go(t, "reopen", "recorded")
  /\ OpenCircuit
  /\ UNCHANGED instant

-----------------------------------------------------------------------------
(* reset(), from the application *)
Reset ==
  /\ Resettable
  /\ CloseCircuit
  /\ UNCHANGED <<pc, instant>>

(* The caller: client.rs asks once per request, records once per attempt, and *)
(* a request may end with nothing recorded (a refusal, an interceptor's error, *)
(* a dropped future).                                                          *)
Finish(t) ==
  /\ Go(t, "recorded", "idle")
  /\ UNCHANGED <<breaker, instant, history>>

Abandon(t) ==
  /\ Abandonable
  /\ Go(t, "inflight", "idle")
  /\ UNCHANGED <<breaker, instant, history>>

(* One unit of time passes for every Instant. *)
Older(i) == IF i = None \/ i = Horizon THEN i ELSE i + 1

Tick ==
  /\ \A t \in Callers : pc[t] \in Failing => instant[t] < MaxStall
  /\ last_failure_time' = Older(last_failure_time)
  /\ opened_at' = Older(opened_at)
  /\ instant' = [t \in Callers |-> Older(instant[t])]
  /\ UNCHANGED <<state, failure_count, success_count, half_open_count, pc, history>>

-----------------------------------------------------------------------------
Allowed(t) ==
  \/ CheckState(t) \/ ReadOpenedAt(t) \/ CheckExpiry(t) \/ EnterHalfOpen(t)
  \/ Admit(t) \/ TakeSlot(t)

Recorded(t) ==
  \/ CallRecordSuccess(t) \/ SuccessState(t) \/ ForgetFailures(t)
  \/ CountSuccess(t) \/ Close(t)
  \/ CallRecordFailure(t) \/ FailureState(t) \/ CheckWindow(t) \/ RestartCount(t)
  \/ CountFailure(t) \/ Trip(t) \/ StampFailure(t) \/ Reopen(t)

Next ==
  \/ \E t \in Callers :
       CallIsAllowed(t) \/ Allowed(t) \/ StateReturns(t) \/ Recorded(t)
         \/ Finish(t) \/ Abandon(t)
  \/ Reset
  \/ Tick

Spec == Init /\ [][Next]_vars
-----------------------------------------------------------------------------
(* record_failure acts on the count its own fetch_add returned and on no later  *)
(* read: while the circuit is closed, a count at the threshold always has a     *)
(* caller about to open the circuit, so no interleaving of failures, forgotten  *)
(* counts and stale closes leaves a tripped count unnoticed.  (It takes a       *)
(* threshold above 1, because the store that restarts the count tests nothing.) *)
NoMissedTrip ==
  state = "Closed" /\ failure_count >= FailureThreshold =>
    \E t \in Callers : pc[t] = "trip"

(* The same for record_success: a half-open circuit with enough successes has   *)
(* a caller about to close it, so it never waits for a success nobody will send.*)
NoMissedClose ==
  state = "HalfOpen" /\ success_count >= SuccessThreshold =>
    \E t \in Callers : pc[t] = "close"

(* Only a circuit with a running timer is open: maybe_transition_to_half_open   *)
(* gives up on an open circuit without opened_at, which would stay open forever.*)
OpenHasTimer == state = "Open" => opened_at # None

(* However many callers race through the transition and the counter, a          *)
(* half-open phase grants at most half_open_requests slots, as long as the      *)
(* counter of the calls that ask does not wrap.                                 *)
HalfOpenLimit == probes <= HalfOpenRequests

(* When every admitted request records an outcome and success_threshold is      *)
(* within half_open_requests, the half-open phase cannot starve: with no        *)
(* request in progress the next call of is_allowed is granted a slot.           *)
NeverStarved ==
  state = "HalfOpen" /\ (\A t \in Callers : pc[t] \in {"idle", "recorded"}) =>
    half_open_count < HalfOpenRequests

(* Without overlap the breaker keeps the contract of BreakerContract to the     *)
(* letter: it opens, turns half-open, closes and reopens for no other reasons   *)
(* than the counts and the time since it opened.  (With overlap it does: the    *)
(* statement of MCCircuitBreaker shows where they part.)  It takes a threshold  *)
(* above 1, as NoMissedTrip does.                                               *)
Contract == INSTANCE BreakerContract
              WITH circuit <- state, failures <- failure_count,
                   successes <- success_count, open_for <- opened_at
ContractSpec == Contract!Spec

(* The fields without what the call in progress has done ahead of its effect:   *)
(* it is undone until the step that makes the call a whole operation, and a     *)
(* stamp that is still to be written is there already.                          *)
At(point) == \E t \in Callers : pc[t] = point
Settled ==
  [state |-> state,
   failure_count |-> IF At("trip") THEN failure_count - 1 ELSE failure_count,
   success_count |-> IF At("close") THEN success_count - 1 ELSE success_count,
   half_open_count |-> half_open_count,
   last_failure_time |->
     IF At("stamp") THEN instant[CHOOSE t \in Callers : pc[t] = "stamp"]
                    ELSE last_failure_time,
   opened_at |-> opened_at]

Stage(t) ==
  CASE pc[t] = "idle" -> "idle"
    [] pc[t] \in {"check", "timer", "expiry", "half_open", "slot"} -> "asking"
    [] pc[t] = "admit" -> IF state = "Open" THEN "idle" ELSE "asking"
    [] pc[t] = "inflight" -> "admitted"
    [] pc[t] \in {"success", "forget", "probe_ok", "close"} -> "succeeding"
    [] pc[t] \in {"failure", "window", "restart", "count", "trip", "reopen"} -> "failing"
    [] pc[t] \in {"stamp", "recorded"} -> "recorded"

(* Without overlap every call is the whole operation of BreakerOps, taken once  *)
(* at some moment of the call, whatever time passes within it: its reads belong *)
(* together, its answer is the operation's, and no part of it is lost.  The     *)
(* client is modelled over these operations.  half_open_count must not wrap:    *)
(* CallBound < CounterWidth.                                                    *)
Atomic == INSTANCE AtomicBreaker
            WITH fields <- Settled, stage <- [t \in Callers |-> Stage(t)]
AtomicSpec == Atomic!Spec
=============================================================================
