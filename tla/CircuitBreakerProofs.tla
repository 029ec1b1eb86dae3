------------------------ MODULE CircuitBreakerProofs ------------------------
(***************************************************************************)
(* What CircuitBreaker keeps for any number of callers and any             *)
(* configuration.                                                          *)
(***************************************************************************)
EXTENDS CircuitBreaker, FiniteSetTheorems, TLAPS

USE DEF Age, Points, Failing

-----------------------------------------------------------------------------
(* Every field of the breaker keeps the values the code can give it, and every *)
(* Instant in use its age, whatever the configuration.                         *)
THEOREM TypeCorrect == Spec => []TypeOK
<1>1. Init => TypeOK
  BY DEF Init, TypeOK
<1>2. TypeOK /\ [Next]_vars => TypeOK'
  <2> SUFFICES ASSUME TypeOK, [Next]_vars PROVE TypeOK'
    OBVIOUS
  <2> USE ConfigAssumption DEF TypeOK
  <2>1. ASSUME NEW t \in Callers, CallIsAllowed(t) PROVE TypeOK'
    BY <2>1 DEF CallIsAllowed, Go, breaker, history
  <2>2. ASSUME NEW t \in Callers, Allowed(t) PROVE TypeOK'
    <3>1. CASE CheckState(t)
      BY <3>1 DEF CheckState, Go, breaker, history
    <3>2. CASE ReadOpenedAt(t)
      BY <3>2 DEF ReadOpenedAt, Go, Hold, breaker, history
    <3>3. CASE CheckExpiry(t)
      BY <3>3 DEF CheckExpiry, Go, Hold, breaker, history
    <3>4. CASE EnterHalfOpen(t)
      BY <3>4 DEF EnterHalfOpen, HalfOpenCircuit, NewPhase, Go, breaker, history
    <3>5. CASE Admit(t)
      BY <3>5 DEF Admit, Go, breaker, history
    <3>6. CASE TakeSlot(t)
      <4>1. (half_open_count + 1) % CounterWidth \in Nat
        OBVIOUS
      <4> QED BY <3>6, <4>1 DEF TakeSlot, Go, history
    <3> QED BY <2>2, <3>1, <3>2, <3>3, <3>4, <3>5, <3>6 DEF Allowed
  <2>3. ASSUME NEW t \in Callers, StateReturns(t) PROVE TypeOK'
    BY <2>3 DEF StateReturns, Go, breaker, history
  <2>4. ASSUME NEW t \in Callers, Recorded(t) PROVE TypeOK'
    <3>1. CASE CallRecordSuccess(t)
      BY <3>1 DEF CallRecordSuccess, Go, breaker, history
    <3>2. CASE SuccessState(t)
      BY <3>2 DEF SuccessState, Go, breaker, history
    <3>3. CASE ForgetFailures(t)
      BY <3>3 DEF ForgetFailures, Go, history
    <3>4. CASE CountSuccess(t)
      BY <3>4 DEF CountSuccess, Go
    <3>5. CASE Close(t)
      BY <3>5 DEF Close, CloseCircuit, NewPhase, Go, breaker, history
    <3>6. CASE CallRecordFailure(t)
      BY <3>6 DEF CallRecordFailure, Go, Hold, breaker, history
    <3>7. CASE FailureState(t)
      BY <3>7 DEF FailureState, Go, Hold, breaker, history
    <3>8. CASE CheckWindow(t)
      BY <3>8 DEF CheckWindow, Go, breaker, history
    <3>9. CASE RestartCount(t)
      BY <3>9 DEF RestartCount, Go, history
    <3>10. CASE CountFailure(t)
      BY <3>10 DEF CountFailure, Go, history
    <3>11. CASE Trip(t)
      BY <3>11 DEF Trip, OpenCircuit, NewPhase, Go, breaker, history
    <3>12. CASE StampFailure(t)
      BY <3>12 DEF StampFailure, Go, Hold, history
    <3>13. CASE Reopen(t)
      BY <3>13 DEF Reopen, OpenCircuit, NewPhase, Go, breaker, history
    <3> QED BY <2>4, <3>1, <3>2, <3>3, <3>4, <3>5, <3>6, <3>7, <3>8, <3>9,
               <3>10, <3>11, <3>12, <3>13 DEF Recorded
  <2>5. ASSUME NEW t \in Callers, Finish(t) PROVE TypeOK'
    BY <2>5 DEF Finish, Go, breaker, history
  <2>6. ASSUME NEW t \in Callers, Abandon(t) PROVE TypeOK'
    BY <2>6 DEF Abandon, Go, breaker, history
  <2>7. CASE Reset
    BY <2>7 DEF Reset, CloseCircuit, NewPhase, breaker, history
  <2>8. CASE Tick
    <3>1. \A i \in Age \cup {None} : Older(i) \in Age \cup {None}
      BY DEF Older
    <3> QED BY <2>8, <3>1 DEF Tick, history
  <2>9. CASE UNCHANGED vars
    BY <2>9 DEF vars, breaker, history
  <2> QED BY <2>1, <2>2, <2>3, <2>4, <2>5, <2>6, <2>7, <2>8, <2>9 DEF Next
<1> QED BY <1>1, <1>2, PTL DEF Spec

-----------------------------------------------------------------------------
(* The steps that leave the fields of the breaker alone and move no caller away *)
(* from an opening or a closing it has decided on.                              *)
Observing(t) ==
  \/ CallIsAllowed(t) \/ CheckState(t) \/ ReadOpenedAt(t) \/ CheckExpiry(t)
  \/ Admit(t) \/ StateReturns(t) \/ CallRecordSuccess(t) \/ SuccessState(t)
  \/ CallRecordFailure(t) \/ FailureState(t) \/ CheckWindow(t)
  \/ Finish(t) \/ Abandon(t)

LEMMA ObservingStep ==
  ASSUME TypeOK, NEW t \in Callers, Observing(t)
  PROVE  /\ UNCHANGED <<breaker, history>>
         /\ \A u \in Callers : pc[u] \in {"trip", "close"} => pc'[u] = pc[u]
         /\ \A u \in Callers \ {t} : pc'[u] = pc[u]
<1> USE DEF TypeOK, Go
<1>1. CASE CallIsAllowed(t)
  BY <1>1 DEF CallIsAllowed
<1>2. CASE CheckState(t)
  BY <1>2 DEF CheckState
<1>3. CASE ReadOpenedAt(t)
  BY <1>3 DEF ReadOpenedAt
<1>4. CASE CheckExpiry(t)
  BY <1>4 DEF CheckExpiry
<1>5. CASE Admit(t)
  BY <1>5 DEF Admit
<1>6. CASE StateReturns(t)
  BY <1>6 DEF StateReturns
<1>7. CASE CallRecordSuccess(t)
  BY <1>7 DEF CallRecordSuccess
<1>8. CASE SuccessState(t)
  BY <1>8 DEF SuccessState
<1>9. CASE CallRecordFailure(t)
  BY <1>9 DEF CallRecordFailure
<1>10. CASE FailureState(t)
  BY <1>10 DEF FailureState
<1>11. CASE CheckWindow(t)
  BY <1>11 DEF CheckWindow
<1>12. CASE Finish(t)
  BY <1>12 DEF Finish
<1>13. CASE Abandon(t)
  BY <1>13 DEF Abandon
<1> QED BY <1>1, <1>2, <1>3, <1>4, <1>5, <1>6, <1>7, <1>8, <1>9, <1>10, <1>11,
           <1>12, <1>13 DEF Observing

(* Every step is one of these, or changes the fields of the breaker. *)
LEMMA StepCases ==
  ASSUME [Next]_vars
  PROVE  \/ \E t \in Callers :
              \/ Observing(t) \/ EnterHalfOpen(t) \/ TakeSlot(t)
              \/ ForgetFailures(t) \/ CountSuccess(t) \/ Close(t)
              \/ RestartCount(t) \/ CountFailure(t) \/ Trip(t)
              \/ StampFailure(t) \/ Reopen(t)
         \/ Reset \/ Tick \/ UNCHANGED vars
BY DEF Next, Allowed, Recorded, Observing

-----------------------------------------------------------------------------
(* No interleaving of failures, forgotten counts, late stores and transitions   *)
(* leaves a closed circuit at its threshold without a caller about to open it,  *)
(* for every number of callers and every threshold above 1.                     *)
THEOREM NoTripMissed ==
  ASSUME FailureThreshold >= 2
  PROVE  Spec => []NoMissedTrip
<1> USE ConfigAssumption
<1>1. Init => NoMissedTrip
  BY DEF Init, NoMissedTrip
<1>2. TypeOK /\ NoMissedTrip /\ [Next]_vars => NoMissedTrip'
  <2> SUFFICES ASSUME TypeOK, NoMissedTrip, [Next]_vars PROVE NoMissedTrip'
    OBVIOUS
  <2> USE DEF TypeOK, NoMissedTrip
  <2>1. ASSUME NEW t \in Callers, Observing(t) PROVE NoMissedTrip'
    BY <2>1, ObservingStep DEF breaker
  <2>2. ASSUME NEW t \in Callers, EnterHalfOpen(t) PROVE NoMissedTrip'
    BY <2>2 DEF EnterHalfOpen, HalfOpenCircuit, Go, breaker
  <2>3. ASSUME NEW t \in Callers, TakeSlot(t) PROVE NoMissedTrip'
    BY <2>3 DEF TakeSlot, Go
  <2>4. ASSUME NEW t \in Callers, ForgetFailures(t) PROVE NoMissedTrip'
    BY <2>4 DEF ForgetFailures, Go
  <2>5. ASSUME NEW t \in Callers, CountSuccess(t) PROVE NoMissedTrip'
    BY <2>5 DEF CountSuccess, Go
  <2>6. ASSUME NEW t \in Callers, Close(t) PROVE NoMissedTrip'
    BY <2>6 DEF Close, CloseCircuit, Go, breaker
  <2>7. ASSUME NEW t \in Callers, RestartCount(t) PROVE NoMissedTrip'
    BY <2>7 DEF RestartCount, Go
  <2>8. ASSUME NEW t \in Callers, CountFailure(t) PROVE NoMissedTrip'
    BY <2>8 DEF CountFailure, Go
  <2>9. ASSUME NEW t \in Callers, Trip(t) PROVE NoMissedTrip'
    BY <2>9 DEF Trip, OpenCircuit, Go, breaker
  <2>10. ASSUME NEW t \in Callers, StampFailure(t) PROVE NoMissedTrip'
    BY <2>10 DEF StampFailure, Go
  <2>11. ASSUME NEW t \in Callers, Reopen(t) PROVE NoMissedTrip'
    BY <2>11 DEF Reopen, OpenCircuit, Go, breaker
  <2>12. CASE Reset
    BY <2>12 DEF Reset, CloseCircuit, breaker
  <2>13. CASE Tick
    BY <2>13 DEF Tick
  <2>14. CASE UNCHANGED vars
    BY <2>14 DEF vars, breaker
  <2> QED BY StepCases, <2>1, <2>2, <2>3, <2>4, <2>5, <2>6, <2>7, <2>8, <2>9,
             <2>10, <2>11, <2>12, <2>13, <2>14
<1> QED BY <1>1, <1>2, TypeCorrect, PTL DEF Spec

(* A half-open circuit that has its successes always has a caller about to      *)
(* close it.                                                                    *)
THEOREM NoCloseMissed ==
  ASSUME SuccessThreshold >= 1
  PROVE  Spec => []NoMissedClose
<1> USE ConfigAssumption
<1>1. Init => NoMissedClose
  BY DEF Init, NoMissedClose
<1>2. TypeOK /\ NoMissedClose /\ [Next]_vars => NoMissedClose'
  <2> SUFFICES ASSUME TypeOK, NoMissedClose, [Next]_vars PROVE NoMissedClose'
    OBVIOUS
  <2> USE DEF TypeOK, NoMissedClose
  <2>1. ASSUME NEW t \in Callers, Observing(t) PROVE NoMissedClose'
    BY <2>1, ObservingStep DEF breaker
  <2>2. ASSUME NEW t \in Callers, EnterHalfOpen(t) PROVE NoMissedClose'
    BY <2>2 DEF EnterHalfOpen, HalfOpenCircuit, Go, breaker
  <2>3. ASSUME NEW t \in Callers, TakeSlot(t) PROVE NoMissedClose'
    BY <2>3 DEF TakeSlot, Go
  <2>4. ASSUME NEW t \in Callers, ForgetFailures(t) PROVE NoMissedClose'
    BY <2>4 DEF ForgetFailures, Go
  <2>5. ASSUME NEW t \in Callers, CountSuccess(t) PROVE NoMissedClose'
    BY <2>5 DEF CountSuccess, Go
  <2>6. ASSUME NEW t \in Callers, Close(t) PROVE NoMissedClose'
    BY <2>6 DEF Close, CloseCircuit, Go, breaker
  <2>7. ASSUME NEW t \in Callers, RestartCount(t) PROVE NoMissedClose'
    BY <2>7 DEF RestartCount, Go
  <2>8. ASSUME NEW t \in Callers, CountFailure(t) PROVE NoMissedClose'
    BY <2>8 DEF CountFailure, Go
  <2>9. ASSUME NEW t \in Callers, Trip(t) PROVE NoMissedClose'
    BY <2>9 DEF Trip, OpenCircuit, Go, breaker
  <2>10. ASSUME NEW t \in Callers, StampFailure(t) PROVE NoMissedClose'
    BY <2>10 DEF StampFailure, Go
  <2>11. ASSUME NEW t \in Callers, Reopen(t) PROVE NoMissedClose'
    BY <2>11 DEF Reopen, OpenCircuit, Go, breaker
  <2>12. CASE Reset
    BY <2>12 DEF Reset, CloseCircuit, breaker
  <2>13. CASE Tick
    BY <2>13 DEF Tick
  <2>14. CASE UNCHANGED vars
    BY <2>14 DEF vars, breaker
  <2> QED BY StepCases, <2>1, <2>2, <2>3, <2>4, <2>5, <2>6, <2>7, <2>8, <2>9,
             <2>10, <2>11, <2>12, <2>13, <2>14
<1> QED BY <1>1, <1>2, TypeCorrect, PTL DEF Spec

(* An open circuit always has its timer, so it can always turn half-open.       *)
THEOREM OpenAlwaysTimed == Spec => []OpenHasTimer
<1> USE ConfigAssumption
<1>1. Init => OpenHasTimer
  BY DEF Init, OpenHasTimer
<1>2. TypeOK /\ OpenHasTimer /\ [Next]_vars => OpenHasTimer'
  <2> SUFFICES ASSUME TypeOK, OpenHasTimer, [Next]_vars PROVE OpenHasTimer'
    OBVIOUS
  <2> USE DEF TypeOK, OpenHasTimer
  <2>1. ASSUME NEW t \in Callers, Observing(t) PROVE OpenHasTimer'
    BY <2>1, ObservingStep DEF breaker
  <2>2. ASSUME NEW t \in Callers, EnterHalfOpen(t) PROVE OpenHasTimer'
    BY <2>2 DEF EnterHalfOpen, HalfOpenCircuit, breaker
  <2>3. ASSUME NEW t \in Callers,
               \/ TakeSlot(t) \/ ForgetFailures(t) \/ CountSuccess(t)
               \/ RestartCount(t) \/ CountFailure(t) \/ StampFailure(t)
        PROVE  OpenHasTimer'
    BY <2>3 DEF TakeSlot, ForgetFailures, CountSuccess, RestartCount, CountFailure,
                StampFailure
  <2>4. ASSUME NEW t \in Callers, Close(t) PROVE OpenHasTimer'
    BY <2>4 DEF Close, CloseCircuit, breaker
  <2>5. ASSUME NEW t \in Callers, Trip(t) \/ Reopen(t) PROVE OpenHasTimer'
    BY <2>5 DEF Trip, Reopen, OpenCircuit, breaker
  <2>6. CASE Reset
    BY <2>6 DEF Reset, CloseCircuit, breaker
  <2>7. CASE Tick
    BY <2>7 DEF Tick, Older
  <2>8. CASE UNCHANGED vars
    BY <2>8 DEF vars, breaker
  <2> QED BY StepCases, <2>1, <2>2, <2>3, <2>4, <2>5, <2>6, <2>7, <2>8
<1> QED BY <1>1, <1>2, TypeCorrect, PTL DEF Spec

-----------------------------------------------------------------------------
(* half_open_count is a u32 and counts the rejected calls too: the limit holds  *)
(* as long as it is not about to wrap.                                          *)
NoWrap == half_open_count + 1 < CounterWidth

(* The slots granted in a phase are among the calls counted in it. *)
SlotsCounted ==
  /\ state = "HalfOpen" => probes <= half_open_count
  /\ state # "HalfOpen" => probes = 0
  /\ HalfOpenLimit

(* A half-open phase grants at most half_open_requests slots, whatever callers  *)
(* race through the transition, the counter and the resets of the counter.      *)
THEOREM HalfOpenLimited == Spec /\ []NoWrap => []HalfOpenLimit
<1> USE ConfigAssumption
<1>1. Init => SlotsCounted
  BY DEF Init, SlotsCounted, HalfOpenLimit
<1>2. TypeOK /\ NoWrap /\ SlotsCounted /\ [Next]_vars => SlotsCounted'
  <2> SUFFICES ASSUME TypeOK, NoWrap, SlotsCounted, [Next]_vars PROVE SlotsCounted'
    OBVIOUS
  <2> USE DEF TypeOK, SlotsCounted, HalfOpenLimit, NewPhase
  <2>1. ASSUME NEW t \in Callers, Observing(t) PROVE SlotsCounted'
    BY <2>1, ObservingStep DEF breaker, history
  <2>2. ASSUME NEW t \in Callers, EnterHalfOpen(t) PROVE SlotsCounted'
    BY <2>2 DEF EnterHalfOpen, HalfOpenCircuit, breaker, history
  <2>3. ASSUME NEW t \in Callers, TakeSlot(t) PROVE SlotsCounted'
    <3>1. half_open_count' = half_open_count + 1
      BY <2>3 DEF TakeSlot, NoWrap
    <3> QED BY <2>3, <3>1 DEF TakeSlot, history
  <2>4. ASSUME NEW t \in Callers, ForgetFailures(t) PROVE SlotsCounted'
    BY <2>4 DEF ForgetFailures, history
  <2>5. ASSUME NEW t \in Callers, CountSuccess(t) PROVE SlotsCounted'
    BY <2>5 DEF CountSuccess
  <2>6. ASSUME NEW t \in Callers, Close(t) PROVE SlotsCounted'
    BY <2>6 DEF Close, CloseCircuit, breaker, history
  <2>7. ASSUME NEW t \in Callers, RestartCount(t) PROVE SlotsCounted'
    BY <2>7 DEF RestartCount, history
  <2>8. ASSUME NEW t \in Callers, CountFailure(t) PROVE SlotsCounted'
    BY <2>8 DEF CountFailure, history
  <2>9. ASSUME NEW t \in Callers, Trip(t) PROVE SlotsCounted'
    BY <2>9 DEF Trip, OpenCircuit, breaker, history
  <2>10. ASSUME NEW t \in Callers, StampFailure(t) PROVE SlotsCounted'
    BY <2>10 DEF StampFailure, history
  <2>11. ASSUME NEW t \in Callers, Reopen(t) PROVE SlotsCounted'
    BY <2>11 DEF Reopen, OpenCircuit, breaker, history
  <2>12. CASE Reset
    BY <2>12 DEF Reset, CloseCircuit, breaker, history
  <2>13. CASE Tick
    BY <2>13 DEF Tick, history
  <2>14. CASE UNCHANGED vars
    BY <2>14 DEF vars, breaker, history
  <2> QED BY StepCases, <2>1, <2>2, <2>3, <2>4, <2>5, <2>6, <2>7, <2>8, <2>9,
             <2>10, <2>11, <2>12, <2>13, <2>14
<1>3. SlotsCounted => HalfOpenLimit
  BY DEF SlotsCounted
<1> QED BY <1>1, <1>2, <1>3, TypeCorrect, PTL DEF Spec

-----------------------------------------------------------------------------
(* Where a caller stands while it holds a slot whose outcome is not counted. *)
Outstanding == {"inflight", "success", "probe_ok", "failure", "reopen"}

(* Every slot taken in a half-open phase is paid back by a success counted in   *)
(* it or is held by a caller that is about to record an outcome.                *)
SlotsAccounted ==
  /\ IsFiniteSet(owing)
  /\ state = "HalfOpen" =>
       /\ \/ half_open_count <= success_count + Cardinality(owing)
          \/ HalfOpenRequests <= success_count + Cardinality(owing)
       /\ \A u \in owing : pc[u] \in Outstanding

LEMMA ObservingKeepsSlots ==
  ASSUME TypeOK, SlotsAccounted, ~Abandonable, NEW t \in Callers, Observing(t)
  PROVE  SlotsAccounted'
<1> USE DEF TypeOK, SlotsAccounted, Outstanding
<1>1. UNCHANGED <<breaker, history>> /\ \A u \in Callers \ {t} : pc'[u] = pc[u]
  BY ObservingStep
<1>2. UNCHANGED <<state, half_open_count, success_count, owing>>
  BY <1>1 DEF breaker, history
<1>3. ASSUME state = "HalfOpen", t \in owing PROVE pc'[t] \in Outstanding
  <2> USE <1>3 DEF Go
  <2>1. CASE CallRecordSuccess(t)
    BY <2>1 DEF CallRecordSuccess
  <2>2. CASE SuccessState(t)
    BY <2>2 DEF SuccessState
  <2>3. CASE CallRecordFailure(t)
    BY <2>3 DEF CallRecordFailure
  <2>4. CASE FailureState(t)
    BY <2>4 DEF FailureState
  <2>5. CASE \/ CallIsAllowed(t) \/ CheckState(t) \/ ReadOpenedAt(t)
             \/ CheckExpiry(t) \/ Admit(t) \/ StateReturns(t) \/ CheckWindow(t)
             \/ Finish(t) \/ Abandon(t)
    BY <2>5 DEF CallIsAllowed, CheckState, ReadOpenedAt, CheckExpiry, Admit,
                StateReturns, CheckWindow, Finish, Abandon
  <2> QED BY <2>1, <2>2, <2>3, <2>4, <2>5 DEF Observing
<1> QED BY <1>1, <1>2, <1>3

(* Provided every admitted request records an outcome and success_threshold     *)
(* does not exceed half_open_requests, a half-open circuit with no request in   *)
(* progress still has a slot for the next one: it cannot stay half-open for     *)
(* want of a slot.                                                              *)
THEOREM SlotsNeverStarve ==
  ASSUME ~Abandonable,
         SuccessThreshold >= 1,
         SuccessThreshold <= HalfOpenRequests
  PROVE  Spec => []NeverStarved
<1> USE ConfigAssumption
<1>1. Init => SlotsAccounted
  BY FS_EmptySet DEF Init, SlotsAccounted
<1>2. TypeOK /\ SlotsAccounted /\ [Next]_vars => SlotsAccounted'
  <2> SUFFICES ASSUME TypeOK, SlotsAccounted, [Next]_vars PROVE SlotsAccounted'
    OBVIOUS
  <2>a. Cardinality(owing) \in Nat
    BY FS_CardinalityType DEF SlotsAccounted
  <2>b. IsFiniteSet({}) /\ Cardinality({}) = 0
    BY FS_EmptySet
  <2> USE <2>a, <2>b DEF TypeOK, SlotsAccounted, Outstanding, NewPhase
  <2>1. ASSUME NEW t \in Callers, Observing(t) PROVE SlotsAccounted'
    BY <2>1, ObservingKeepsSlots
  <2>2. ASSUME NEW t \in Callers, EnterHalfOpen(t) PROVE SlotsAccounted'
    BY <2>2 DEF EnterHalfOpen, HalfOpenCircuit, Go, breaker, history
  <2>3. ASSUME NEW t \in Callers, TakeSlot(t) PROVE SlotsAccounted'
    <3>1. (half_open_count + 1) % CounterWidth <= half_open_count + 1
      <4>1. (half_open_count + 1) % CounterWidth \in 0..(CounterWidth - 1)
        OBVIOUS
      <4>2. half_open_count + 1 < CounterWidth =>
              (half_open_count + 1) % CounterWidth = half_open_count + 1
        OBVIOUS
      <4> QED BY <4>1, <4>2
    <3>2. CASE half_open_count < HalfOpenRequests /\ state = "HalfOpen"
      <4>1. t \notin owing
        BY <2>3, <3>2 DEF TakeSlot, Go
      <4>2. IsFiniteSet(owing \cup {t})
            /\ Cardinality(owing \cup {t}) = Cardinality(owing) + 1
        BY <4>1, FS_AddElement
      <4>3. owing' = owing \cup {t} /\ state' = state /\ success_count' = success_count
        BY <2>3, <3>2 DEF TakeSlot
      <4>4. pc' = [pc EXCEPT ![t] = "inflight"]
        BY <2>3, <3>2 DEF TakeSlot, Go
      <4>5. half_open_count' <= half_open_count + 1 /\ half_open_count' \in Nat
        BY <2>3, <3>1 DEF TakeSlot
      <4> QED BY <3>2, <4>2, <4>3, <4>4, <4>5
    <3>3. CASE ~(half_open_count < HalfOpenRequests /\ state = "HalfOpen")
      <4>1. UNCHANGED <<owing, state, success_count>>
        BY <2>3, <3>3 DEF TakeSlot, history
      <4>2. \A u \in owing : state = "HalfOpen" => u # t /\ pc'[u] = pc[u]
        BY <2>3 DEF TakeSlot, Go
      <4> QED BY <3>3, <4>1, <4>2
    <3> QED BY <3>2, <3>3
  <2>4. ASSUME NEW t \in Callers, ForgetFailures(t) PROVE SlotsAccounted'
    BY <2>4 DEF ForgetFailures, Go, history
  <2>5. ASSUME NEW t \in Callers, CountSuccess(t) PROVE SlotsAccounted'
    <3>1. /\ IsFiniteSet(owing \ {t})
          /\ Cardinality(owing \ {t}) >= Cardinality(owing) - 1
          /\ Cardinality(owing \ {t}) \in Nat
      <4>1. IsFiniteSet(owing \ {t})
        BY FS_RemoveElement
      <4>2. Cardinality(owing \ {t})
              = IF t \in owing THEN Cardinality(owing) - 1 ELSE Cardinality(owing)
        BY FS_RemoveElement
      <4>3. Cardinality(owing \ {t}) \in Nat
        BY <4>1, FS_CardinalityType
      <4> QED BY <4>1, <4>2, <4>3
    <3>2. /\ owing' = owing \ {t}
          /\ success_count' = success_count + 1
          /\ UNCHANGED <<state, half_open_count>>
      BY <2>5 DEF CountSuccess
    <3>3. \A u \in owing \ {t} : pc'[u] = pc[u]
      BY <2>5 DEF CountSuccess, Go
    <3> QED BY <3>1, <3>2, <3>3
  <2>6. ASSUME NEW t \in Callers, Close(t) PROVE SlotsAccounted'
    BY <2>6 DEF Close, CloseCircuit, Go, breaker, history
  <2>7. ASSUME NEW t \in Callers, RestartCount(t) PROVE SlotsAccounted'
    BY <2>7 DEF RestartCount, Go, history
  <2>8. ASSUME NEW t \in Callers, CountFailure(t) PROVE SlotsAccounted'
    BY <2>8 DEF CountFailure, Go, history
  <2>9. ASSUME NEW t \in Callers, Trip(t) PROVE SlotsAccounted'
    BY <2>9 DEF Trip, OpenCircuit, Go, breaker, history
  <2>10. ASSUME NEW t \in Callers, StampFailure(t) PROVE SlotsAccounted'
    BY <2>10 DEF StampFailure, Go, history
  <2>11. ASSUME NEW t \in Callers, Reopen(t) PROVE SlotsAccounted'
    BY <2>11 DEF Reopen, OpenCircuit, Go, breaker, history
  <2>12. CASE Reset
    BY <2>12 DEF Reset, CloseCircuit, breaker, history
  <2>13. CASE Tick
    BY <2>13 DEF Tick, history
  <2>14. CASE UNCHANGED vars
    BY <2>14 DEF vars, breaker, history
  <2> QED BY StepCases, <2>1, <2>2, <2>3, <2>4, <2>5, <2>6, <2>7, <2>8, <2>9,
             <2>10, <2>11, <2>12, <2>13, <2>14
<1>3. TypeOK /\ SlotsAccounted /\ NoMissedClose => NeverStarved
  <2> SUFFICES ASSUME TypeOK, SlotsAccounted, NoMissedClose, state = "HalfOpen",
                      \A t \in Callers : pc[t] \in {"idle", "recorded"}
               PROVE  half_open_count < HalfOpenRequests
    BY DEF NeverStarved
  <2>1. owing = {}
    BY DEF TypeOK, SlotsAccounted, Outstanding
  <2>2. success_count < SuccessThreshold
    BY DEF NoMissedClose, TypeOK
  <2> QED BY <2>1, <2>2, FS_EmptySet DEF SlotsAccounted, TypeOK
<1> QED BY <1>1, <1>2, <1>3, TypeCorrect, NoCloseMissed, PTL DEF Spec

-----------------------------------------------------------------------------
(***************************************************************************)
(* Calls that do not overlap.                                              *)
(***************************************************************************)
(* The failure a caller records is the first of a new window. *)
Restarts(t) ==
  last_failure_time # None /\ last_failure_time > instant[t] + FailureWindow

(* No two callers are in a call. *)
NoOverlap == \A t, u \in Callers : InCall(t) /\ InCall(u) => t = u

(* What a caller in a call has read is still true. *)
StillTrue(t) ==
  /\ pc[t] \in {"window", "restart", "count", "trip", "forget"} => state = "Closed"
  /\ pc[t] \in {"slot", "probe_ok", "close", "reopen"} => state = "HalfOpen"
  /\ pc[t] \in {"timer", "expiry", "half_open"} => state = "Open"
  /\ pc[t] \in {"check", "timer", "expiry", "half_open", "admit", "slot"} =>
       half_open_count < CallBound
  /\ pc[t] = "expiry" => instant[t] = opened_at
  /\ pc[t] = "half_open" => opened_at >= ResetTimeout
  /\ pc[t] \in Failing => instant[t] \in 0..MaxStall
  /\ pc[t] = "restart" => Restarts(t)
  /\ pc[t] \in {"count", "trip"} => ~Restarts(t)
  /\ pc[t] = "trip" => failure_count >= 1 /\ failure_count >= FailureThreshold
  /\ pc[t] = "close" => success_count >= 1 /\ success_count >= SuccessThreshold

DecisionsHold ==
  /\ state = "Closed" <=> opened_at = None
  /\ \A t \in Callers : StillTrue(t)

(* A caller in no call. *)
Waits(t) == pc[t] \in {"idle", "inflight", "recorded"}

(* A step of t leaves what the others have read true: it changes nothing of the *)
(* breaker, or the others are between calls.                                    *)
LEMMA OthersKept ==
  ASSUME DecisionsHold, NEW t \in Callers,
         \A u \in Callers \ {t} : pc'[u] = pc[u] /\ instant'[u] = instant[u],
         UNCHANGED breaker \/ \A u \in Callers \ {t} : Waits(u)
  PROVE  \A u \in Callers \ {t} : StillTrue(u)'
<1>1. ASSUME NEW u \in Callers \ {t}, UNCHANGED breaker PROVE StillTrue(u)'
  BY <1>1 DEF DecisionsHold, StillTrue, Restarts, breaker
<1>2. ASSUME NEW u \in Callers \ {t}, Waits(u) PROVE StillTrue(u)'
  BY <1>2 DEF StillTrue, Waits
<1> QED BY <1>1, <1>2

(* While one caller is in a call the others are between calls. *)
LEMMA OthersWait ==
  ASSUME NoOverlap, NEW t \in Callers, ~Waits(t)
  PROVE  \A u \in Callers \ {t} : Waits(u)
BY DEF NoOverlap, InCall, Waits

(* A step that changes nothing of the breaker acts on what it reads. *)
LEMMA ObservingKeepsDecisions ==
  ASSUME TypeOK, DecisionsHold, NEW t \in Callers, Observing(t)
  PROVE  DecisionsHold'
<1> USE ConfigAssumption DEF TypeOK
<1>1. UNCHANGED breaker /\ \A u \in Callers \ {t} : pc'[u] = pc[u]
  BY ObservingStep
<1>2. \A u \in Callers \ {t} : instant'[u] = instant[u]
  BY DEF Observing, CallIsAllowed, CheckState, ReadOpenedAt, CheckExpiry, Admit,
         StateReturns, CallRecordSuccess, SuccessState, CallRecordFailure,
         FailureState, CheckWindow, Finish, Abandon, Hold
<1>3. \A u \in Callers \ {t} : StillTrue(u)'
  BY <1>1, <1>2, OthersKept
<1>4. StillTrue(t) /\ (state = "Closed" <=> opened_at = None)
  BY DEF DecisionsHold
<1>5. StillTrue(t)'
  <2> USE <1>4 DEF StillTrue, Go, Hold, breaker, Restarts
  <2>1. CASE CallIsAllowed(t)
    BY <2>1 DEF CallIsAllowed
  <2>2. CASE CheckState(t)
    BY <2>2 DEF CheckState
  <2>3. CASE ReadOpenedAt(t)
    BY <2>3 DEF ReadOpenedAt
  <2>4. CASE CheckExpiry(t)
    BY <2>4 DEF CheckExpiry
  <2>5. CASE Admit(t)
    BY <2>5 DEF Admit
  <2>6. CASE StateReturns(t)
    BY <2>6 DEF StateReturns
  <2>7. CASE CallRecordSuccess(t)
    BY <2>7 DEF CallRecordSuccess
  <2>8. CASE SuccessState(t)
    BY <2>8 DEF SuccessState
  <2>9. CASE CallRecordFailure(t)
    BY <2>9 DEF CallRecordFailure
  <2>10. CASE FailureState(t)
    BY <2>10 DEF FailureState
  <2>11. CASE CheckWindow(t)
    BY <2>11 DEF CheckWindow
  <2>12. CASE Finish(t)
    BY <2>12 DEF Finish
  <2>13. CASE Abandon(t)
    BY <2>13 DEF Abandon
  <2> QED BY <2>1, <2>2, <2>3, <2>4, <2>5, <2>6, <2>7, <2>8, <2>9, <2>10, <2>11,
             <2>12, <2>13 DEF Observing
<1> QED BY <1>1, <1>3, <1>4, <1>5 DEF DecisionsHold, breaker

(* A running timer never runs backwards and never stops being one. *)
LEMMA OlderInstant ==
  ASSUME NEW i \in Age \cup {None}
  PROVE  /\ Older(i) = None <=> i = None
         /\ i \notin {None, Horizon} => i < Horizon /\ Older(i) = i + 1
         /\ i # None => Older(i) \in Age /\ Older(i) >= i
BY ConfigAssumption DEF Older

(* A failure that is older than its window stays so while record_failure runs,  *)
(* and one that is not does too: both ages grow together, short of Horizon.     *)
LEMMA WindowKept ==
  ASSUME NEW last \in Age \cup {None}, NEW now \in 0..MaxStall, now < MaxStall
  PROVE  /\ Older(now) = now + 1
         /\ Older(last) # None /\ Older(last) > Older(now) + FailureWindow
              <=> last # None /\ last > now + FailureWindow
<1> USE ConfigAssumption
<1>1. now # Horizon /\ now # None /\ Older(now) = now + 1
  BY DEF Older
<1>2. CASE last \in {None, Horizon}
  BY <1>1, <1>2 DEF Older
<1>3. CASE last \notin {None, Horizon}
  <2>1. last \in Nat /\ Older(last) = last + 1
    BY <1>3, OlderInstant
  <2> QED BY <1>1, <2>1
<1> QED BY <1>2, <1>3, <1>1

(* Time makes no decision false: a timer that has run out stays so, and the     *)
(* window of a failure is decided by a difference of ages.                      *)
LEMMA TickKeepsDecisions ==
  ASSUME TypeOK, DecisionsHold, Tick
  PROVE  DecisionsHold'
<1> USE ConfigAssumption DEF TypeOK
<1>1. /\ UNCHANGED <<state, failure_count, success_count, half_open_count, pc>>
      /\ last_failure_time' = Older(last_failure_time)
      /\ opened_at' = Older(opened_at)
      /\ \A t \in Callers : instant'[t] = Older(instant[t])
      /\ \A t \in Callers : pc[t] \in Failing => instant[t] < MaxStall
  BY DEF Tick
<1>2. opened_at' = None <=> opened_at = None
  BY <1>1, OlderInstant
<1>3. opened_at >= ResetTimeout /\ opened_at # None => opened_at' >= ResetTimeout
  <2>1. opened_at # None => opened_at' \in Age /\ opened_at' >= opened_at
    BY <1>1, OlderInstant
  <2> QED BY <2>1
<1>4. ASSUME NEW t \in Callers PROVE StillTrue(t)'
  <2>1. StillTrue(t) /\ (state = "Closed" <=> opened_at = None)
    BY DEF DecisionsHold
  <2>2. ASSUME pc[t] \in Failing
        PROVE  instant'[t] \in 0..MaxStall /\ (Restarts(t)' <=> Restarts(t))
    <3>1. instant[t] \in 0..MaxStall /\ instant[t] < MaxStall
      BY <1>1, <2>1, <2>2 DEF StillTrue
    <3>2. Older(instant[t]) = instant[t] + 1
      BY <3>1, WindowKept
    <3>3. Older(last_failure_time) # None
            /\ Older(last_failure_time) > Older(instant[t]) + FailureWindow
          <=> last_failure_time # None
                /\ last_failure_time > instant[t] + FailureWindow
      BY <3>1, WindowKept
    <3> QED BY <1>1, <3>1, <3>2, <3>3 DEF Restarts
  <2> HIDE DEF Restarts
  <2> QED BY <1>1, <1>2, <1>3, <2>1, <2>2 DEF StillTrue
<1> QED BY <1>1, <1>2, <1>4 DEF DecisionsHold

(* The steps inside a call that change the breaker. *)
Changing(t) ==
  \/ EnterHalfOpen(t) \/ TakeSlot(t) \/ ForgetFailures(t) \/ CountSuccess(t)
  \/ Close(t) \/ RestartCount(t) \/ CountFailure(t) \/ Trip(t) \/ StampFailure(t)
  \/ Reopen(t)

(* Whoever takes one is alone in a call. *)
LEMMA ChangingStep ==
  ASSUME TypeOK, NoOverlap, NEW t \in Callers, Changing(t)
  PROVE  \A u \in Callers \ {t} :
           Waits(u) /\ pc'[u] = pc[u] /\ instant'[u] = instant[u]
<1>1. /\ ~Waits(t)
      /\ \A u \in Callers \ {t} : pc'[u] = pc[u]
  BY DEF Changing, EnterHalfOpen, TakeSlot, ForgetFailures, CountSuccess, Close,
         RestartCount, CountFailure, Trip, StampFailure, Reopen, Go, Waits, TypeOK
<1>2. \A u \in Callers \ {t} : instant'[u] = instant[u]
  BY DEF Changing, EnterHalfOpen, TakeSlot, ForgetFailures, CountSuccess, Close,
         RestartCount, CountFailure, Trip, StampFailure, Reopen, Hold, TypeOK
<1> QED BY <1>1, <1>2, OthersWait

(* A step that changes the breaker leaves its caller where the change belongs. *)
LEMMA ChangingKeepsDecisions ==
  ASSUME TypeOK, NoOverlap, DecisionsHold, NEW t \in Callers, Changing(t)
  PROVE  DecisionsHold'
<1> USE ConfigAssumption DEF TypeOK
<1>1. \A u \in Callers \ {t} : StillTrue(u)'
  BY ChangingStep, OthersKept
<1>2. StillTrue(t) /\ (state = "Closed" <=> opened_at = None)
  BY DEF DecisionsHold
<1>3. StillTrue(t)' /\ (state' = "Closed" <=> opened_at' = None)
  <2> USE <1>2 DEF StillTrue, Go, breaker, Restarts
  <2>1. CASE EnterHalfOpen(t)
    BY <2>1 DEF EnterHalfOpen, HalfOpenCircuit
  <2>2. CASE TakeSlot(t)
    BY <2>2 DEF TakeSlot
  <2>3. CASE ForgetFailures(t)
    BY <2>3 DEF ForgetFailures
  <2>4. CASE CountSuccess(t)
    BY <2>4 DEF CountSuccess
  <2>5. CASE Close(t)
    BY <2>5 DEF Close, CloseCircuit
  <2>6. CASE RestartCount(t)
    BY <2>6 DEF RestartCount
  <2>7. CASE CountFailure(t)
    BY <2>7 DEF CountFailure
  <2>8. CASE Trip(t)
    BY <2>8 DEF Trip, OpenCircuit
  <2>9. CASE StampFailure(t)
    BY <2>9 DEF StampFailure, Hold
  <2>10. CASE Reopen(t)
    BY <2>10 DEF Reopen, OpenCircuit
  <2> QED BY <2>1, <2>2, <2>3, <2>4, <2>5, <2>6, <2>7, <2>8, <2>9, <2>10
             DEF Changing
<1> QED BY <1>1, <1>3 DEF DecisionsHold

(* So what callers have read is still true after every step without overlap. *)
LEMMA StepKeepsDecisions ==
  ASSUME ~Resettable, TypeOK, NoOverlap, DecisionsHold, [Next]_vars
  PROVE  DecisionsHold'
<1>1. ASSUME NEW t \in Callers, Observing(t) PROVE DecisionsHold'
  BY <1>1, ObservingKeepsDecisions
<1>2. ASSUME NEW t \in Callers, Changing(t) PROVE DecisionsHold'
  BY <1>2, ChangingKeepsDecisions
<1>3. CASE Tick
  BY <1>3, TickKeepsDecisions
<1>4. CASE UNCHANGED vars
  BY <1>4 DEF vars, breaker, DecisionsHold, StillTrue, Restarts
<1> QED BY StepCases, <1>1, <1>2, <1>3, <1>4 DEF Changing, Reset

-----------------------------------------------------------------------------
(***************************************************************************)
(* The contract.  Without overlap an observer sees the breaker of          *)
(* BreakerContract: every step of CircuitBreaker is a step of the contract *)
(* or changes nothing an observer of the contract sees.                    *)
(***************************************************************************)
(* Every step is a step of the contract or leaves what it talks about alone. *)
LEMMA StepKeepsContract ==
  ASSUME ~Resettable, FailureThreshold >= 2, SuccessThreshold >= 1,
         TypeOK, NoMissedTrip, NoMissedClose, NoOverlap, DecisionsHold, [Next]_vars
  PROVE  [Contract!Next]_(Contract!contract)
<1> USE ConfigAssumption
    DEF TypeOK, Go, breaker, Contract!Next, Contract!contract, Contract!Opening
<1>1. ASSUME NEW t \in Callers, Observing(t) PROVE UNCHANGED Contract!contract
  BY <1>1, ObservingStep
<1>2. ASSUME NEW t \in Callers, Changing(t)
      PROVE  /\ StillTrue(t)
             /\ state = "Closed" /\ pc[t] # "trip" => failure_count < FailureThreshold
             /\ state = "HalfOpen" /\ pc[t] # "close" =>
                  success_count < SuccessThreshold
             /\ state = "Open" => opened_at # None
  <2>1. \A u \in Callers \ {t} : Waits(u)
    BY <1>2, ChangingStep
  <2>2. \A u \in Callers \ {t} : pc[u] \notin {"trip", "close"}
    BY <2>1 DEF Waits
  <2> QED BY <2>2 DEF NoMissedTrip, NoMissedClose, DecisionsHold
<1>3. ASSUME NEW t \in Callers, Changing(t) PROVE [Contract!Next]_(Contract!contract)
  <2> USE <1>2, <1>3 DEF StillTrue
  <2>1. CASE EnterHalfOpen(t)
    BY <2>1 DEF EnterHalfOpen, HalfOpenCircuit, Contract!TurnHalfOpen
  <2>2. CASE TakeSlot(t) \/ StampFailure(t)
    BY <2>2 DEF TakeSlot, StampFailure
  <2>3. CASE ForgetFailures(t)
    BY <2>3 DEF ForgetFailures, Contract!Forget
  <2>4. CASE CountSuccess(t)
    BY <2>4 DEF CountSuccess, Contract!Succeed
  <2>5. CASE Close(t)
    BY <2>5 DEF Close, CloseCircuit, Contract!Recover
  <2>6. CASE RestartCount(t) \/ CountFailure(t)
    BY <2>6 DEF RestartCount, CountFailure, Contract!Fail
  <2>7. CASE Trip(t)
    BY <2>7 DEF Trip, OpenCircuit, Contract!Trip
  <2>8. CASE Reopen(t)
    BY <2>8 DEF Reopen, OpenCircuit, Contract!Reopen
  <2> QED BY <2>1, <2>2, <2>3, <2>4, <2>5, <2>6, <2>7, <2>8 DEF Changing
<1>4. CASE Tick
  <2>1. CASE opened_at \in {None, Horizon}
    BY <1>4, <2>1 DEF Tick, Older
  <2>2. CASE opened_at \notin {None, Horizon}
    BY <1>4, <2>2, OlderInstant DEF Tick, Older, Contract!Elapse
  <2> QED BY <2>1, <2>2
<1>5. CASE UNCHANGED vars
  BY <1>5 DEF vars
<1> QED BY StepCases, <1>1, <1>3, <1>4, <1>5 DEF Changing, Reset

(* Calls stay apart: a caller is in a call already, or nobody is. *)
LEMMA StepKeepsApart ==
  ASSUME ~Overlapping, TypeOK, NoOverlap, [Next]_vars
  PROVE  NoOverlap'
<1>1. ASSUME NEW t \in Callers, Observing(t) \/ Changing(t) PROVE NoOverlap'
  <2>1. \A u \in Callers \ {t} : pc'[u] = pc[u]
    BY <1>1, ObservingStep, ChangingStep
  <2>2. InCall(t) \/ (\A u \in Callers : ~InCall(u)) \/ ~InCall(t)'
    BY <1>1 DEF Observing, Changing, CallIsAllowed, CheckState, ReadOpenedAt,
       CheckExpiry, Admit, StateReturns, CallRecordSuccess, SuccessState,
       CallRecordFailure, FailureState, CheckWindow, Finish, Abandon, EnterHalfOpen,
       TakeSlot, ForgetFailures, CountSuccess, Close, RestartCount, CountFailure, Trip,
       StampFailure, Reopen, Go, MayCall, InCall, TypeOK
  <2> QED BY <2>1, <2>2 DEF NoOverlap, InCall
<1>2. CASE UNCHANGED pc
  BY <1>2 DEF NoOverlap, InCall
<1> QED BY StepCases, <1>1, <1>2 DEF Changing, Reset, Tick, vars

(* What is true whenever calls do not overlap. *)
LEMMA WithoutOverlap ==
  ASSUME ~Resettable, ~Overlapping
  PROVE  Spec => []NoOverlap /\ []DecisionsHold
<1>1. Init => NoOverlap /\ DecisionsHold
  BY DEF Init, NoOverlap, InCall, DecisionsHold, StillTrue
<1>2. TypeOK /\ NoOverlap /\ [Next]_vars => NoOverlap'
  BY StepKeepsApart
<1>3. TypeOK /\ NoOverlap /\ DecisionsHold /\ [Next]_vars => DecisionsHold'
  BY StepKeepsDecisions
<1> QED BY <1>1, <1>2, <1>3, TypeCorrect, PTL DEF Spec

(* Without overlap the breaker implements BreakerContract: it opens only on a   *)
(* full count of failures, turns half-open only after a full reset_timeout,     *)
(* closes only on enough successes recorded since then, whichever requests      *)
(* record them, and reopens on a failure recorded meanwhile, whatever the       *)
(* thresholds and the times and however many callers take turns.                *)
THEOREM KeepsContract ==
  ASSUME ~Resettable, ~Overlapping, FailureThreshold >= 2, SuccessThreshold >= 1
  PROVE  Spec => ContractSpec
<1>1. TypeOK /\ NoMissedTrip /\ NoMissedClose /\ NoOverlap /\ DecisionsHold /\ [Next]_vars
        => [Contract!Next]_(Contract!contract)
  BY StepKeepsContract
<1>2. Init => Contract!Init
  BY DEF Init, Contract!Init
<1> QED BY <1>1, <1>2, WithoutOverlap, TypeCorrect, NoTripMissed, NoCloseMissed, PTL
        DEF Spec, ContractSpec, Contract!Spec

-----------------------------------------------------------------------------
(***************************************************************************)
(* The operations taken whole.  Each call has one step that changes        *)
(* Settled, as its operation in BreakerOps does; the steps before it read, *)
(* those after it write what Settled has already.                          *)
(***************************************************************************)
(* The fields as a record of BreakerOps. *)
Fields(st, failures, successes, slots, last, opened) ==
  [state |-> st, failure_count |-> failures, success_count |-> successes,
   half_open_count |-> slots, last_failure_time |-> last, opened_at |-> opened]

(* The operations, field by field. *)
LEMMA OpsAre ==
  ASSUME NEW f \in Int, NEW s \in Int, NEW h \in Int, NEW l, NEW o
  PROVE  /\ \A st : LET b == Fields(st, f, s, h, l, o) IN
              /\ b.state = st /\ b.failure_count = f /\ b.success_count = s
              /\ b.half_open_count = h /\ b.last_failure_time = l /\ b.opened_at = o
         /\ LET b == Fields("Closed", f, s, h, l, o) IN
              /\ Atomic!MaybeHalfOpen(b) = b
              /\ Atomic!IsAllowed(b) /\ Atomic!Asked(b) = b
              /\ Atomic!RecordSuccess(b) = Fields("Closed", 0, s, h, l, o)
         /\ LET b == Fields("HalfOpen", f, s, h, l, o) IN
              /\ Atomic!MaybeHalfOpen(b) = b
              /\ Atomic!IsAllowed(b) <=> h < HalfOpenRequests
              /\ Atomic!Asked(b) = Fields("HalfOpen", f, s, h + 1, l, o)
              /\ Atomic!RecordSuccess(b) =
                   IF s + 1 >= SuccessThreshold
                     THEN Fields("Closed", 0, 0, 0, l, None)
                     ELSE Fields("HalfOpen", f, s + 1, h, l, o)
              /\ \A age : Atomic!RecordFailureAt(b, age)
                            = Fields("Open", f, 0, 0, l, 0)
         /\ LET b == Fields("Open", f, s, h, l, o) IN
              /\ o # None /\ o >= ResetTimeout =>
                   Atomic!MaybeHalfOpen(b) = Fields("HalfOpen", f, 0, 0, l, o)
              /\ ~(o # None /\ o >= ResetTimeout) =>
                   Atomic!Asked(b) = b /\ ~Atomic!IsAllowed(b)
              /\ Atomic!RecordSuccess(b) = b
              /\ \A age : Atomic!RecordFailureAt(b, age) = b
<1> USE DEF Fields, Atomic!MaybeHalfOpen, Atomic!IsAllowed, Atomic!Asked
<1>1. \A st : LET b == Fields(st, f, s, h, l, o) IN
              /\ b.state = st /\ b.failure_count = f /\ b.success_count = s
              /\ b.half_open_count = h /\ b.last_failure_time = l /\ b.opened_at = o
  OBVIOUS
<1>2. LET b == Fields("Closed", f, s, h, l, o) IN
              /\ Atomic!MaybeHalfOpen(b) = b
              /\ Atomic!IsAllowed(b) /\ Atomic!Asked(b) = b
              /\ Atomic!RecordSuccess(b) = Fields("Closed", 0, s, h, l, o)
  BY DEF Atomic!RecordSuccess
<1>3. LET b == Fields("HalfOpen", f, s, h, l, o) IN
              /\ Atomic!MaybeHalfOpen(b) = b
              /\ Atomic!IsAllowed(b) <=> h < HalfOpenRequests
              /\ Atomic!Asked(b) = Fields("HalfOpen", f, s, h + 1, l, o)
  OBVIOUS
<1>4. LET b == Fields("HalfOpen", f, s, h, l, o) IN
              /\ Atomic!RecordSuccess(b) =
                   IF s + 1 >= SuccessThreshold
                     THEN Fields("Closed", 0, 0, 0, l, None)
                     ELSE Fields("HalfOpen", f, s + 1, h, l, o)
              /\ \A age : Atomic!RecordFailureAt(b, age)
                            = Fields("Open", f, 0, 0, l, 0)
  <2> DEFINE b == Fields("HalfOpen", f, s, h, l, o)
  <2>1. Atomic!Close(b) = Fields("Closed", 0, 0, 0, l, None)
    BY DEF Atomic!Close
  <2>2. Atomic!Open(b) = Fields("Open", f, 0, 0, l, 0)
    BY DEF Atomic!Open
  <2>3. /\ b.state = "HalfOpen" /\ b.success_count = s
        /\ [b EXCEPT !.success_count = @ + 1] = Fields("HalfOpen", f, s + 1, h, l, o)
    OBVIOUS
  <2> HIDE DEF b
  <2>4. Atomic!RecordSuccess(b) =
          IF s + 1 >= SuccessThreshold
            THEN Fields("Closed", 0, 0, 0, l, None)
            ELSE Fields("HalfOpen", f, s + 1, h, l, o)
    BY <2>1, <2>3 DEF Atomic!RecordSuccess
  <2>5. ASSUME NEW age PROVE Atomic!RecordFailureAt(b, age) = Fields("Open", f, 0, 0, l, 0)
    BY <2>2, <2>3 DEF Atomic!RecordFailureAt
  <2> QED BY <2>4, <2>5 DEF b
<1>5. LET b == Fields("Open", f, s, h, l, o) IN
              /\ o # None /\ o >= ResetTimeout =>
                   Atomic!MaybeHalfOpen(b) = Fields("HalfOpen", f, 0, 0, l, o)
              /\ ~(o # None /\ o >= ResetTimeout) =>
                   Atomic!Asked(b) = b /\ ~Atomic!IsAllowed(b)
  OBVIOUS
<1>6. LET b == Fields("Open", f, s, h, l, o) IN
              /\ Atomic!RecordSuccess(b) = b
              /\ \A age : Atomic!RecordFailureAt(b, age) = b
  BY DEF Atomic!RecordSuccess, Atomic!RecordFailureAt
<1> QED BY <1>1, <1>2, <1>3, <1>4, <1>5, <1>6

(* A failure of a closed circuit restarts the count, adds to it, or trips. *)
LEMMA FailureIs ==
  ASSUME NEW f \in Int, NEW s \in Int, NEW h \in Int, NEW l, NEW o, NEW age
  PROVE  LET b == Fields("Closed", f, s, h, l, o)
             restart == l # None /\ l > age + FailureWindow
         IN /\ restart =>
                 Atomic!RecordFailureAt(b, age) = Fields("Closed", 1, s, h, age, o)
            /\ ~restart /\ f + 1 >= FailureThreshold =>
                 Atomic!RecordFailureAt(b, age) = Fields("Open", f + 1, 0, 0, age, 0)
            /\ ~restart /\ ~(f + 1 >= FailureThreshold) =>
                 Atomic!RecordFailureAt(b, age) = Fields("Closed", f + 1, s, h, age, o)
<1> DEFINE b == Fields("Closed", f, s, h, l, o)
           restart == l # None /\ l > age + FailureWindow
           counted == [b EXCEPT !.failure_count = IF restart THEN 1 ELSE @ + 1]
           tripped == ~restart /\ counted.failure_count >= FailureThreshold
<1>1. Atomic!RecordFailureAt(b, age)
        = [(IF tripped THEN Atomic!Open(counted) ELSE counted)
             EXCEPT !.last_failure_time = age]
  BY DEF Atomic!RecordFailureAt, Fields
<1>2. counted = Fields("Closed", IF restart THEN 1 ELSE f + 1, s, h, l, o)
  BY DEF Fields
<1>3. Atomic!Open(counted) = Fields("Open", counted.failure_count, 0, 0, l, 0)
  BY <1>2 DEF Fields, Atomic!Open
<1>4. counted.failure_count = IF restart THEN 1 ELSE f + 1
  BY <1>2 DEF Fields
<1>5. \A st, f1, s1, h1, o1 :
        [Fields(st, f1, s1, h1, l, o1) EXCEPT !.last_failure_time = age]
          = Fields(st, f1, s1, h1, age, o1)
  BY DEF Fields
<1> HIDE DEF counted, restart
<1>6. restart => ~tripped
  OBVIOUS
<1>7. ~restart => (tripped <=> f + 1 >= FailureThreshold)
  BY <1>4
<1> HIDE DEF b, tripped
<1>8. restart => Atomic!RecordFailureAt(b, age) = Fields("Closed", 1, s, h, age, o)
  BY <1>1, <1>2, <1>5, <1>6
<1>9. ~restart /\ f + 1 >= FailureThreshold =>
        Atomic!RecordFailureAt(b, age) = Fields("Open", f + 1, 0, 0, age, 0)
  BY <1>1, <1>3, <1>4, <1>5, <1>7
<1>10. ~restart /\ ~(f + 1 >= FailureThreshold) =>
         Atomic!RecordFailureAt(b, age) = Fields("Closed", f + 1, s, h, age, o)
  BY <1>1, <1>2, <1>5, <1>7
<1> QED BY <1>8, <1>9, <1>10 DEF b, restart

(* What Settled is when no caller but t is in a call. *)
SettledBy(t) ==
  Fields(state,
         IF pc[t] = "trip" THEN failure_count - 1 ELSE failure_count,
         IF pc[t] = "close" THEN success_count - 1 ELSE success_count,
         half_open_count,
         IF pc[t] = "stamp" THEN instant[t] ELSE last_failure_time,
         opened_at)

(* No caller but t is in a call. *)
OthersAway(t) == \A u \in Callers \ {t} : Waits(u)

(* Nobody else's call shows in Settled; with nobody in a call it is the fields. *)
LEMMA SettledIs ==
  /\ \A t \in Callers : OthersAway(t) => Settled = SettledBy(t)
  /\ (\A t \in Callers : Waits(t)) =>
       Settled = Fields(state, failure_count, success_count, half_open_count,
                last_failure_time, opened_at)
<1>1. ASSUME NEW t \in Callers, OthersAway(t) PROVE Settled = SettledBy(t)
  <2>1. \A p \in {"trip", "close", "stamp"} : At(p) <=> pc[t] = p
    BY <1>1 DEF OthersAway, Waits, At
  <2>2. pc[t] = "stamp" => (CHOOSE u \in Callers : pc[u] = "stamp") = t
    BY <1>1 DEF OthersAway, Waits
  <2> QED BY <2>1, <2>2 DEF Settled, SettledBy, Fields
<1>2. ASSUME \A t \in Callers : Waits(t)
      PROVE  ~At("trip") /\ ~At("close") /\ ~At("stamp")
  BY <1>2 DEF Waits, At
<1> QED BY <1>1, <1>2 DEF Settled, Fields

(* The same of the state after a step. *)
LEMMA SettledWillBe ==
  /\ \A t \in Callers : OthersAway(t)' => Settled' = SettledBy(t)'
  /\ (\A t \in Callers : Waits(t)') =>
       Settled' = Fields(state', failure_count', success_count', half_open_count',
                 last_failure_time', opened_at')
<1>1. (/\ \A t \in Callers : OthersAway(t) => Settled = SettledBy(t)
       /\ (\A t \in Callers : Waits(t)) =>
            Settled = Fields(state, failure_count, success_count, half_open_count,
                last_failure_time, opened_at))'
  BY SettledIs, PTL
<1> QED BY <1>1

(* Where the callers stand, as the atomic breaker sees it. *)
Stages == [u \in Callers |-> Stage(u)]

(* A step of t moves its stage and no other. *)
LEMMA StagesMove ==
  ASSUME NEW t \in Callers,
         \A u \in Callers \ {t} : pc'[u] = pc[u] /\ (Waits(u) \/ state' = state)
  PROVE  Stages' = [Stages EXCEPT ![t] = Stage(t)'] /\ Stages[t] = Stage(t)
<1>1. ASSUME NEW u \in Callers \ {t} PROVE Stage(u)' = Stage(u)
  BY <1>1 DEF Stage, Waits
<1> QED BY <1>1 DEF Stages

(* In a step of a call Settled is about its caller before and after. *)
LEMMA CallStep ==
  ASSUME TypeOK, NoOverlap, NoOverlap', NEW t \in Callers, ~Waits(t) \/ ~Waits(t)',
         Observing(t) \/ Changing(t)
  PROVE  /\ Settled = SettledBy(t)
         /\ Settled' = SettledBy(t)'
         /\ Stages' = [Stages EXCEPT ![t] = Stage(t)'] /\ Stages[t] = Stage(t)
<1>1. \A u \in Callers \ {t} : pc'[u] = pc[u]
  BY ObservingStep, ChangingStep
<1>2. \A u \in Callers \ {t} : Waits(u)
  <2>1. CASE ~Waits(t)
    BY <2>1, OthersWait
  <2>2. CASE ~Waits(t)'
    BY <1>1, <2>2 DEF NoOverlap, InCall, Waits
  <2> QED BY <2>1, <2>2
<1>3. OthersAway(t) /\ OthersAway(t)'
  BY <1>1, <1>2 DEF OthersAway, Waits
<1>4. Settled = SettledBy(t) /\ Settled' = SettledBy(t)'
  BY <1>3, SettledIs, SettledWillBe
<1> QED BY <1>1, <1>2, <1>4, StagesMove

(* A step that moves a stage is a move of the atomic breaker. *)
LEMMA Moved ==
  ASSUME NEW t \in Callers, NEW from, NEW to, Stages' = [Stages EXCEPT ![t] = to],
         Stages[t] \in from
  PROVE  Atomic!Move(t, from, to)
BY DEF Atomic!Move, Stages

(* A step that moves a stage to where it is moves nothing. *)
LEMMA Stayed ==
  ASSUME NEW t \in Callers, Stages' = [Stages EXCEPT ![t] = Stages[t]]
  PROVE  Stages' = Stages
<1> DEFINE S == Stages
<1>1. S = [u \in Callers |-> S[u]]
  BY DEF Stages
<1> HIDE DEF S
<1>2. [S EXCEPT ![t] = S[t]] = S
  BY <1>1
<1> QED BY <1>2 DEF S

(* The steps that change the breaker: each is the effect of its call, or is     *)
(* undone in Settled, or is there already.                                      *)
LEMMA ChangingIsAtomic ==
  ASSUME CallBound < CounterWidth, TypeOK, TypeOK', NoOverlap, NoOverlap', DecisionsHold,
         NEW t \in Callers, Changing(t)
  PROVE  \/ Atomic!Ask(t) \/ Atomic!Transition(t) \/ Atomic!Succeed(t) \/ Atomic!Fail(t)
         \/ UNCHANGED <<Settled, Stages>>
<1> USE ConfigAssumption DEF TypeOK
<1>1. ~Waits(t)
  BY DEF Changing, EnterHalfOpen, TakeSlot, ForgetFailures, CountSuccess, Close,
         RestartCount, CountFailure, Trip, StampFailure, Reopen, Go, Waits
<1>2. /\ Settled = SettledBy(t)
      /\ Settled' = SettledBy(t)'
      /\ Stages' = [Stages EXCEPT ![t] = Stage(t)'] /\ Stages[t] = Stage(t)
  BY <1>1, CallStep
<1>3. StillTrue(t)
  BY DEF DecisionsHold
<1> DEFINE b == Fields(state,
                  IF pc[t] = "trip" THEN failure_count - 1 ELSE failure_count,
                  IF pc[t] = "close" THEN success_count - 1 ELSE success_count,
                  half_open_count,
                  IF pc[t] = "stamp" THEN instant[t] ELSE last_failure_time,
                  opened_at)
           c == Fields(state',
                  IF pc'[t] = "trip" THEN failure_count' - 1 ELSE failure_count',
                  IF pc'[t] = "close" THEN success_count' - 1 ELSE success_count',
                  half_open_count',
                  IF pc'[t] = "stamp" THEN instant'[t] ELSE last_failure_time',
                  opened_at')
<1>4. Settled = b /\ Settled' = c
  BY <1>2 DEF SettledBy
<1>5. CASE EnterHalfOpen(t)
  <2>1. /\ pc[t] = "half_open" /\ pc'[t] = "admit" /\ state = "Open"
        /\ opened_at # None /\ opened_at >= ResetTimeout
    BY <1>3, <1>5 DEF EnterHalfOpen, Go, StillTrue, DecisionsHold
  <2>2. /\ state' = "HalfOpen" /\ half_open_count' = 0 /\ success_count' = 0
        /\ UNCHANGED <<failure_count, last_failure_time, opened_at>>
    BY <1>5, <2>1 DEF EnterHalfOpen, HalfOpenCircuit
  <2>3. Stage(t) = "asking" /\ Stage(t)' = "asking"
    BY <2>1, <2>2 DEF Stage
  <2>4. /\ b = Fields("Open", failure_count, success_count, half_open_count,
                      last_failure_time, opened_at)
        /\ c = Fields("HalfOpen", failure_count, 0, 0, last_failure_time, opened_at)
    BY <2>1, <2>2
  <2>5. c = Atomic!MaybeHalfOpen(b)
    BY <2>1, <2>4, OpsAre
  <2> QED BY <1>2, <1>4, <2>3, <2>5 DEF Atomic!Transition, Stages
<1>6. CASE TakeSlot(t)
  <2>1. /\ pc[t] = "slot" /\ state = "HalfOpen" /\ half_open_count < CallBound
        /\ pc'[t] = IF half_open_count < HalfOpenRequests THEN "inflight" ELSE "idle"
        /\ half_open_count' = (half_open_count + 1) % CounterWidth
        /\ UNCHANGED <<state, failure_count, success_count, last_failure_time,
                       opened_at>>
    BY <1>3, <1>6 DEF TakeSlot, Go, StillTrue
  <2>2. half_open_count' = half_open_count + 1
    BY <2>1
  <2>3. /\ Stage(t) = "asking"
        /\ Stage(t)' = IF half_open_count < HalfOpenRequests THEN "admitted" ELSE "idle"
    BY <2>1 DEF Stage
  <2>4. /\ b = Fields("HalfOpen", failure_count, success_count, half_open_count,
                      last_failure_time, opened_at)
        /\ c = Fields("HalfOpen", failure_count, success_count, half_open_count + 1,
                      last_failure_time, opened_at)
    BY <2>1, <2>2
  <2>5. c = Atomic!Asked(b) /\ (Atomic!IsAllowed(b) <=> half_open_count < HalfOpenRequests)
    BY <2>4, OpsAre
  <2>6. Atomic!Move(t, {"asking"}, IF Atomic!IsAllowed(b) THEN "admitted" ELSE "idle")
    BY <1>2, <2>3, <2>5, Moved
  <2> QED BY <1>4, <2>5, <2>6 DEF Atomic!Ask
<1>7. CASE ForgetFailures(t)
  <2>1. /\ pc[t] = "forget" /\ state = "Closed" /\ pc'[t] = "recorded"
        /\ failure_count' = 0
        /\ UNCHANGED <<state, half_open_count, success_count, last_failure_time,
                       opened_at>>
    BY <1>3, <1>7 DEF ForgetFailures, Go, StillTrue
  <2>2. Stage(t) = "succeeding" /\ Stage(t)' = "recorded"
    BY <2>1 DEF Stage
  <2>3. /\ b = Fields("Closed", failure_count, success_count, half_open_count,
                      last_failure_time, opened_at)
        /\ c = Fields("Closed", 0, success_count, half_open_count,
                      last_failure_time, opened_at)
    BY <2>1
  <2>4. c = Atomic!RecordSuccess(b)
    BY <2>3, OpsAre
  <2>5. Atomic!Move(t, {"succeeding"}, "recorded")
    BY <1>2, <2>2, Moved
  <2> QED BY <1>4, <2>4, <2>5 DEF Atomic!Succeed
<1>8. CASE CountSuccess(t)
  <2>1. /\ pc[t] = "probe_ok" /\ state = "HalfOpen" /\ success_count' = success_count + 1
        /\ pc'[t] = IF success_count' >= SuccessThreshold THEN "close" ELSE "recorded"
        /\ UNCHANGED <<state, failure_count, half_open_count, last_failure_time,
                       opened_at>>
    BY <1>3, <1>8 DEF CountSuccess, Go, StillTrue
  <2>2. b = Fields("HalfOpen", failure_count, success_count, half_open_count,
                   last_failure_time, opened_at)
    BY <2>1
  <2>3. CASE success_count' >= SuccessThreshold
    <3>1. c = b
      BY <2>1, <2>2, <2>3
    <3>2. Stage(t)' = Stage(t)
      BY <2>1, <2>3 DEF Stage
    <3>3. Stages' = Stages
      BY <1>2, <3>2, Stayed
    <3> QED BY <1>4, <3>1, <3>3
  <2>4. CASE ~(success_count' >= SuccessThreshold)
    <3>1. Stage(t) = "succeeding" /\ Stage(t)' = "recorded"
      BY <2>1, <2>4 DEF Stage
    <3>2. c = Fields("HalfOpen", failure_count, success_count + 1, half_open_count,
                     last_failure_time, opened_at)
      BY <2>1, <2>4
    <3>3. c = Atomic!RecordSuccess(b)
      BY <2>1, <2>2, <2>4, <3>2, OpsAre
    <3>4. Atomic!Move(t, {"succeeding"}, "recorded")
      BY <1>2, <3>1, Moved
    <3> QED BY <1>4, <3>3, <3>4 DEF Atomic!Succeed
  <2> QED BY <2>3, <2>4
<1>9. CASE Close(t)
  <2>1. /\ pc[t] = "close" /\ pc'[t] = "recorded" /\ state = "HalfOpen"
        /\ success_count >= 1 /\ success_count >= SuccessThreshold
    BY <1>3, <1>9 DEF Close, Go, StillTrue
  <2>2. /\ state' = "Closed" /\ opened_at' = None /\ failure_count' = 0
        /\ success_count' = 0 /\ half_open_count' = 0
        /\ UNCHANGED last_failure_time
    BY <1>9, <2>1 DEF Close, CloseCircuit
  <2>3. Stage(t) = "succeeding" /\ Stage(t)' = "recorded"
    BY <2>1 DEF Stage
  <2>4. /\ b = Fields("HalfOpen", failure_count, success_count - 1, half_open_count,
                      last_failure_time, opened_at)
        /\ c = Fields("Closed", 0, 0, 0, last_failure_time, None)
    BY <2>1, <2>2
  <2>5. c = Atomic!RecordSuccess(b)
    <3>1. success_count - 1 \in Int /\ (success_count - 1) + 1 >= SuccessThreshold
      BY <2>1
    <3> QED BY <2>4, <3>1, OpsAre
  <2>6. Atomic!Move(t, {"succeeding"}, "recorded")
    BY <1>2, <2>3, Moved
  <2> QED BY <1>4, <2>5, <2>6 DEF Atomic!Succeed
<1>10. CASE RestartCount(t)
  <2>1. /\ pc[t] = "restart" /\ pc'[t] = "stamp" /\ state = "Closed"
        /\ Restarts(t) /\ instant[t] \in 0..MaxStall /\ instant'[t] = instant[t]
        /\ failure_count' = 1
        /\ UNCHANGED <<state, success_count, half_open_count, last_failure_time,
                       opened_at>>
    BY <1>3, <1>10 DEF RestartCount, Go, StillTrue
  <2>2. Stage(t) = "failing" /\ Stage(t)' = "recorded"
    BY <2>1 DEF Stage
  <2>3. /\ b = Fields("Closed", failure_count, success_count, half_open_count,
                      last_failure_time, opened_at)
        /\ c = Fields("Closed", 1, success_count, half_open_count, instant[t],
                      opened_at)
    BY <2>1
  <2>4. c = Atomic!RecordFailureAt(b, instant[t])
    BY <2>1, <2>3, FailureIs DEF Restarts
  <2>5. Atomic!Move(t, {"failing"}, "recorded")
    BY <1>2, <2>2, Moved
  <2> QED BY <1>4, <2>1, <2>4, <2>5 DEF Atomic!Fail
<1>11. CASE CountFailure(t)
  <2>1. /\ pc[t] = "count" /\ state = "Closed" /\ failure_count' = failure_count + 1
        /\ pc'[t] = IF failure_count' >= FailureThreshold THEN "trip" ELSE "stamp"
        /\ ~Restarts(t) /\ instant[t] \in 0..MaxStall /\ instant'[t] = instant[t]
        /\ UNCHANGED <<state, success_count, half_open_count, last_failure_time,
                       opened_at>>
    BY <1>3, <1>11 DEF CountFailure, Go, StillTrue
  <2>2. b = Fields("Closed", failure_count, success_count, half_open_count,
                   last_failure_time, opened_at)
    BY <2>1
  <2>3. CASE failure_count' >= FailureThreshold
    <3>1. c = b
      BY <2>1, <2>2, <2>3
    <3>2. Stage(t)' = Stage(t)
      BY <2>1, <2>3 DEF Stage
    <3>3. Stages' = Stages
      BY <1>2, <3>2, Stayed
    <3> QED BY <1>4, <3>1, <3>3
  <2>4. CASE ~(failure_count' >= FailureThreshold)
    <3>1. Stage(t) = "failing" /\ Stage(t)' = "recorded"
      BY <2>1, <2>4 DEF Stage
    <3>2. c = Fields("Closed", failure_count + 1, success_count, half_open_count,
                     instant[t], opened_at)
      BY <2>1, <2>4
    <3>3. c = Atomic!RecordFailureAt(b, instant[t])
      BY <2>1, <2>2, <2>4, <3>2, FailureIs DEF Restarts
    <3>4. Atomic!Move(t, {"failing"}, "recorded")
      BY <1>2, <3>1, Moved
    <3> QED BY <1>4, <2>1, <3>3, <3>4 DEF Atomic!Fail
  <2> QED BY <2>3, <2>4
<1>12. CASE Trip(t)
  <2>1. /\ pc[t] = "trip" /\ pc'[t] = "stamp" /\ state = "Closed"
        /\ failure_count >= 1 /\ failure_count >= FailureThreshold
        /\ ~Restarts(t) /\ instant[t] \in 0..MaxStall /\ instant'[t] = instant[t]
    BY <1>3, <1>12 DEF Trip, Go, StillTrue
  <2>2. /\ state' = "Open" /\ opened_at' = 0 /\ half_open_count' = 0
        /\ success_count' = 0
        /\ UNCHANGED <<failure_count, last_failure_time>>
    BY <1>12, <2>1 DEF Trip, OpenCircuit
  <2>3. Stage(t) = "failing" /\ Stage(t)' = "recorded"
    BY <2>1 DEF Stage
  <2>4. /\ b = Fields("Closed", failure_count - 1, success_count, half_open_count,
                      last_failure_time, opened_at)
        /\ c = Fields("Open", (failure_count - 1) + 1, 0, 0, instant[t], 0)
    BY <2>1, <2>2
  <2>5. c = Atomic!RecordFailureAt(b, instant[t])
    <3>1. failure_count - 1 \in Int /\ (failure_count - 1) + 1 >= FailureThreshold
      BY <2>1
    <3> QED BY <2>1, <2>4, <3>1, FailureIs DEF Restarts
  <2>6. Atomic!Move(t, {"failing"}, "recorded")
    BY <1>2, <2>3, Moved
  <2> QED BY <1>4, <2>1, <2>5, <2>6 DEF Atomic!Fail
<1>13. CASE StampFailure(t)
  <2>1. /\ pc[t] = "stamp" /\ pc'[t] = "recorded" /\ last_failure_time' = instant[t]
        /\ UNCHANGED <<state, failure_count, success_count, half_open_count, opened_at>>
    BY <1>13 DEF StampFailure, Go
  <2>2. c = b
    BY <2>1
  <2>3. Stage(t)' = Stage(t)
    BY <2>1 DEF Stage
  <2>4. Stages' = Stages
    BY <1>2, <2>3, Stayed
  <2> QED BY <1>4, <2>2, <2>4
<1>14. CASE Reopen(t)
  <2>1. pc[t] = "reopen" /\ pc'[t] = "recorded" /\ state = "HalfOpen"
    BY <1>3, <1>14 DEF Reopen, Go, StillTrue
  <2>2. /\ state' = "Open" /\ opened_at' = 0 /\ half_open_count' = 0
        /\ success_count' = 0
        /\ UNCHANGED <<failure_count, last_failure_time>>
    BY <1>14, <2>1 DEF Reopen, OpenCircuit
  <2>3. Stage(t) = "failing" /\ Stage(t)' = "recorded"
    BY <2>1 DEF Stage
  <2>4. /\ b = Fields("HalfOpen", failure_count, success_count, half_open_count,
                      last_failure_time, opened_at)
        /\ c = Fields("Open", failure_count, 0, 0, last_failure_time, 0)
    BY <2>1, <2>2
  <2>5. c = Atomic!RecordFailureAt(b, 0)
    BY <2>4, OpsAre
  <2>6. Atomic!Move(t, {"failing"}, "recorded")
    BY <1>2, <2>3, Moved
  <2> QED BY <1>4, <2>5, <2>6 DEF Atomic!Fail
<1> QED BY <1>5, <1>6, <1>7, <1>8, <1>9, <1>10, <1>11, <1>12, <1>13, <1>14 DEF Changing

(* Steps inside a call, or into one, that change nothing of the breaker. *)
LEMMA ReadingIsAtomic ==
  ASSUME TypeOK, NoOverlap, NoOverlap', DecisionsHold,
         NEW t \in Callers, Observing(t), ~Finish(t), ~Abandon(t)
  PROVE  \/ Atomic!Invoke(t) \/ Atomic!Ask(t) \/ Atomic!Look(t) \/ Atomic!Succeed(t)
         \/ Atomic!Fail(t) \/ UNCHANGED <<Settled, Stages>>
<1> USE ConfigAssumption DEF TypeOK
<1>1. ~Waits(t) \/ ~Waits(t)'
  BY DEF Observing, CallIsAllowed, CheckState, ReadOpenedAt, CheckExpiry, Admit,
         StateReturns, CallRecordSuccess, SuccessState, CallRecordFailure,
         FailureState, CheckWindow, Go, Waits
<1>2. /\ Settled = SettledBy(t)
      /\ Settled' = SettledBy(t)'
      /\ Stages' = [Stages EXCEPT ![t] = Stage(t)'] /\ Stages[t] = Stage(t)
  BY <1>1, CallStep
<1>3. StillTrue(t) /\ UNCHANGED breaker
  BY ObservingStep DEF DecisionsHold
<1> DEFINE b == Fields(state, failure_count, success_count, half_open_count,
                       last_failure_time, opened_at)
<1>4. /\ pc[t] \notin {"trip", "close", "stamp"}
      /\ pc'[t] \notin {"trip", "close", "stamp"}
  BY DEF Observing, CallIsAllowed, CheckState, ReadOpenedAt, CheckExpiry, Admit,
         StateReturns, CallRecordSuccess, SuccessState, CallRecordFailure,
         FailureState, CheckWindow, Go
<1>5. Settled = b /\ Settled' = b
  BY <1>2, <1>3, <1>4 DEF breaker, SettledBy
<1> HIDE DEF b
<1>6. Stage(t)' = Stage(t) => UNCHANGED <<Settled, Stages>>
  BY <1>2, <1>5, Stayed
<1>7. CASE CallIsAllowed(t)
  <2>1. Stage(t) = "idle" /\ Stage(t)' = "asking"
    BY <1>7 DEF CallIsAllowed, Go, Stage
  <2>2. Atomic!Move(t, {"idle"}, "asking")
    BY <1>2, <2>1, Moved
  <2> QED BY <1>5, <2>2 DEF Atomic!Invoke
<1>8. CASE CheckState(t) \/ ReadOpenedAt(t) \/ CheckWindow(t)
  <2>1. CASE CheckState(t)
    BY <1>3, <1>6, <2>1 DEF CheckState, Go, Stage, breaker
  <2>2. CASE ReadOpenedAt(t)
    BY <1>3, <1>6, <2>2 DEF ReadOpenedAt, Go, Stage, StillTrue, DecisionsHold
  <2>3. CASE CheckWindow(t)
    BY <1>6, <2>3 DEF CheckWindow, Go, Stage
  <2> QED BY <1>8, <2>1, <2>2, <2>3
<1>9. CASE CheckExpiry(t)
  <2>1. /\ pc[t] = "expiry" /\ state = "Open" /\ instant[t] = opened_at
        /\ pc'[t] = IF opened_at >= ResetTimeout THEN "half_open" ELSE "admit"
        /\ state' = state
    BY <1>3, <1>9 DEF CheckExpiry, Go, StillTrue, breaker
  <2>2. CASE opened_at >= ResetTimeout
    BY <1>6, <2>1, <2>2 DEF Stage
  <2>3. CASE ~(opened_at >= ResetTimeout)
    <3>1. Stage(t) = "asking" /\ Stage(t)' = "idle"
      BY <2>1, <2>3 DEF Stage
    <3>2. Atomic!Asked(b) = b /\ ~Atomic!IsAllowed(b)
      <4>1. b = Fields("Open", failure_count, success_count, half_open_count,
                       last_failure_time, opened_at)
        BY <2>1 DEF b
      <4>2. ~(opened_at # None /\ opened_at >= ResetTimeout)
        BY <2>3
      <4> QED BY <4>1, <4>2, OpsAre
    <3>3. Atomic!Move(t, {"asking"}, IF Atomic!IsAllowed(b) THEN "admitted" ELSE "idle")
      BY <1>2, <3>1, <3>2, Moved
    <3> QED BY <1>5, <3>2, <3>3 DEF Atomic!Ask
  <2> QED BY <2>2, <2>3
<1>10. CASE Admit(t)
  <2>1. CASE state = "Closed"
    <3>1. Stage(t) = "asking" /\ Stage(t)' = "admitted"
      BY <1>10, <2>1 DEF Admit, Go, Stage
    <3>2. Atomic!Asked(b) = b /\ Atomic!IsAllowed(b)
      <4>1. b = Fields("Closed", failure_count, success_count, half_open_count,
                       last_failure_time, opened_at)
        BY <2>1 DEF b
      <4> QED BY <4>1, OpsAre
    <3>3. Atomic!Move(t, {"asking"}, IF Atomic!IsAllowed(b) THEN "admitted" ELSE "idle")
      BY <1>2, <3>1, <3>2, Moved
    <3> QED BY <1>5, <3>2, <3>3 DEF Atomic!Ask
  <2>2. CASE state # "Closed"
    BY <1>6, <1>10, <2>2 DEF Admit, Go, Stage
  <2> QED BY <2>1, <2>2
<1>11. CASE StateReturns(t)
  <2>1. CASE state = "Open"
    BY <1>6, <1>11, <2>1 DEF StateReturns, Go, Stage
  <2>2. CASE state # "Open"
    <3>1. Stage(t) = "asking" /\ Stage(t)' = "idle"
      BY <1>11, <2>2 DEF StateReturns, Go, Stage
    <3>2. Atomic!MaybeHalfOpen(b) = b
      BY <2>2, OpsAre DEF b
    <3>3. Atomic!Move(t, {"asking"}, "idle")
      BY <1>2, <3>1, Moved
    <3> QED BY <1>5, <3>2, <3>3 DEF Atomic!Look
  <2> QED BY <2>1, <2>2
<1>12. CASE CallRecordSuccess(t)
  <2>1. Stage(t) \in {"admitted", "recorded"} /\ Stage(t)' = "succeeding"
    BY <1>12 DEF CallRecordSuccess, Go, Stage
  <2>2. Atomic!Move(t, {"admitted", "recorded"}, "succeeding")
    BY <1>2, <2>1, Moved
  <2> QED BY <1>5, <2>2 DEF Atomic!Invoke
<1>13. CASE SuccessState(t)
  <2>1. CASE state = "Open"
    <3>1. Stage(t) = "succeeding" /\ Stage(t)' = "recorded"
      BY <1>13, <2>1 DEF SuccessState, Go, Stage
    <3>2. Atomic!RecordSuccess(b) = b
      BY <2>1, OpsAre DEF b
    <3>3. Atomic!Move(t, {"succeeding"}, "recorded")
      BY <1>2, <3>1, Moved
    <3> QED BY <1>5, <3>2, <3>3 DEF Atomic!Succeed
  <2>2. CASE state # "Open"
    BY <1>6, <1>13, <2>2 DEF SuccessState, Go, Stage
  <2> QED BY <2>1, <2>2
<1>14. CASE CallRecordFailure(t)
  <2>1. Stage(t) \in {"admitted", "recorded"} /\ Stage(t)' = "failing"
    BY <1>14 DEF CallRecordFailure, Go, Stage
  <2>2. Atomic!Move(t, {"admitted", "recorded"}, "failing")
    BY <1>2, <2>1, Moved
  <2> QED BY <1>5, <2>2 DEF Atomic!Invoke
<1>15. CASE FailureState(t)
  <2>1. CASE state = "Open"
    <3>1. Stage(t) = "failing" /\ Stage(t)' = "recorded"
      BY <1>15, <2>1 DEF FailureState, Go, Stage
    <3>2. Atomic!RecordFailureAt(b, 0) = b
      BY <2>1, OpsAre DEF b
    <3>3. Atomic!Move(t, {"failing"}, "recorded")
      BY <1>2, <3>1, Moved
    <3> QED BY <1>5, <3>2, <3>3 DEF Atomic!Fail
  <2>2. CASE state # "Open"
    BY <1>6, <1>15, <2>2 DEF FailureState, Go, Stage
  <2> QED BY <2>1, <2>2
<1> QED BY <1>7, <1>8, <1>9, <1>10, <1>11, <1>12, <1>13, <1>14, <1>15 DEF Observing

(* A caller that leaves is in no call, and Settled is about one that is. *)
LEMMA LeavingIsAtomic ==
  ASSUME TypeOK, NoOverlap, NEW t \in Callers, Finish(t) \/ Abandon(t)
  PROVE  Atomic!Leave(t)
<1> USE DEF TypeOK
<1>1. /\ pc[t] \in {"inflight", "recorded"} /\ pc' = [pc EXCEPT ![t] = "idle"]
      /\ UNCHANGED <<breaker, instant>>
  BY DEF Finish, Abandon, Go
<1>2. Stage(t) \in {"admitted", "recorded"} /\ Stage(t)' = "idle"
  BY <1>1 DEF Stage
<1>3. Stages' = [Stages EXCEPT ![t] = Stage(t)'] /\ Stages[t] = Stage(t)
  BY <1>1, StagesMove DEF breaker
<1>4. Settled' = Settled
  <2>1. ASSUME NEW u \in Callers, ~Waits(u) PROVE Settled' = Settled
    <3>1. OthersAway(u) /\ OthersAway(u)'
      BY <1>1, <2>1, OthersWait DEF OthersAway, Waits
    <3>2. SettledBy(u)' = SettledBy(u)
      <4>1. pc'[u] = pc[u] /\ instant'[u] = instant[u]
        BY <1>1, <2>1 DEF Waits
      <4> QED BY <1>1, <4>1 DEF SettledBy, breaker
    <3> QED BY <3>1, <3>2, SettledIs, SettledWillBe
  <2>2. ASSUME \A u \in Callers : Waits(u) PROVE Settled' = Settled
    <3>1. \A u \in Callers : Waits(u)'
      BY <1>1, <2>2 DEF Waits
    <3> QED BY <1>1, <2>2, <3>1, SettledIs, SettledWillBe DEF breaker
  <2> QED BY <2>1, <2>2
<1>5. Atomic!Move(t, {"admitted", "recorded"}, "idle")
  BY <1>2, <1>3, Moved
<1> QED BY <1>4, <1>5 DEF Atomic!Leave

(* Time passes for the fields as it does for the Instants the callers hold. *)
LEMMA TickIsAtomic ==
  ASSUME TypeOK, NoOverlap, Tick
  PROVE  Atomic!Elapse
<1> USE DEF TypeOK
<1>1. /\ UNCHANGED <<state, failure_count, success_count, half_open_count, pc>>
      /\ last_failure_time' = Older(last_failure_time)
      /\ opened_at' = Older(opened_at)
      /\ \A u \in Callers : instant'[u] = Older(instant[u])
  BY DEF Tick
<1>2. UNCHANGED Stages
  BY <1>1 DEF Stages, Stage
<1>3. \A i : Atomic!Older(i) = Older(i)
  BY DEF Atomic!Older, Older
<1>4. \A st, f, s, h, l, o :
        Atomic!Aged(Fields(st, f, s, h, l, o)) = Fields(st, f, s, h, Older(l), Older(o))
  <2> TAKE st, f, s, h, l, o
  <2> DEFINE r == Fields(st, f, s, h, l, o)
  <2>1. r.last_failure_time = l /\ r.opened_at = o
    BY DEF Fields
  <2>2. ASSUME NEW x, NEW y
        PROVE  [r EXCEPT !.last_failure_time = x, !.opened_at = y]
                 = Fields(st, f, s, h, x, y)
    <3>1. [r EXCEPT !.last_failure_time = x] = Fields(st, f, s, h, x, o)
      BY DEF Fields
    <3>2. [Fields(st, f, s, h, x, o) EXCEPT !.opened_at = y] = Fields(st, f, s, h, x, y)
      BY DEF Fields
    <3>3. [r EXCEPT !.last_failure_time = x, !.opened_at = y]
            = [[r EXCEPT !.last_failure_time = x] EXCEPT !.opened_at = y]
      OBVIOUS
    <3> QED BY <3>1, <3>2, <3>3
  <2> HIDE DEF r
  <2>3. Atomic!Aged(r) = [r EXCEPT !.last_failure_time = Older(l),
                                   !.opened_at = Older(o)]
    BY <1>3, <2>1 DEF Atomic!Aged
  <2> QED BY <2>2, <2>3 DEF r
<1>5. Settled' = Atomic!Aged(Settled)
  <2>1. ASSUME NEW u \in Callers, ~Waits(u) PROVE Settled' = Atomic!Aged(Settled)
    <3>1. OthersAway(u) /\ OthersAway(u)'
      BY <1>1, <2>1, OthersWait DEF OthersAway, Waits
    <3>2. SettledBy(u)' = Atomic!Aged(SettledBy(u))
      BY <1>1, <1>4 DEF SettledBy
    <3> QED BY <3>1, <3>2, SettledIs, SettledWillBe
  <2>2. ASSUME \A u \in Callers : Waits(u) PROVE Settled' = Atomic!Aged(Settled)
    <3>1. \A u \in Callers : Waits(u)'
      BY <1>1, <2>2 DEF Waits
    <3>2. /\ Settled = Fields(state, failure_count, success_count, half_open_count,
                              last_failure_time, opened_at)
          /\ Settled' = Fields(state, failure_count, success_count, half_open_count,
                               Older(last_failure_time), Older(opened_at))
      BY <1>1, <2>2, <3>1, SettledIs, SettledWillBe DEF Fields
    <3> QED BY <1>4, <3>2
  <2> QED BY <2>1, <2>2
<1> QED BY <1>2, <1>5 DEF Atomic!Elapse, Stages

(* Every step is a step of the atomic breaker or changes neither. *)
LEMMA StepIsAtomic ==
  ASSUME ~Resettable, CallBound < CounterWidth,
         TypeOK, TypeOK', NoOverlap, NoOverlap', DecisionsHold, [Next]_vars
  PROVE  [Atomic!Next]_(Atomic!atomic)
<1>0. UNCHANGED <<Settled, Stages>> => UNCHANGED Atomic!atomic
  BY DEF Atomic!atomic, Stages
<1>1. ASSUME NEW t \in Callers, Observing(t) PROVE [Atomic!Next]_(Atomic!atomic)
  <2>1. CASE Finish(t) \/ Abandon(t)
    BY <2>1, LeavingIsAtomic DEF Atomic!Next
  <2>2. CASE ~Finish(t) /\ ~Abandon(t)
    BY <1>0, <1>1, <2>2, ReadingIsAtomic DEF Atomic!Next
  <2> QED BY <2>1, <2>2
<1>2. ASSUME NEW t \in Callers, Changing(t) PROVE [Atomic!Next]_(Atomic!atomic)
  BY <1>0, <1>2, ChangingIsAtomic DEF Atomic!Next
<1>3. CASE Tick
  BY <1>3, TickIsAtomic DEF Atomic!Next
<1>4. CASE UNCHANGED vars
  <2>1. UNCHANGED <<Settled, Stages>>
    BY <1>4 DEF vars, breaker, Settled, Stages, Stage, At
  <2> QED BY <1>0, <2>1
<1> QED BY StepCases, <1>1, <1>2, <1>3, <1>4 DEF Changing, Reset

(* Without overlap every call is the whole operation of BreakerOps, with its    *)
(* answer, in one step between its beginning and its end, for any number of     *)
(* callers, any configuration and whatever time passes inside a call, as long   *)
(* as half_open_count stays below its width.                                    *)
THEOREM CallsAreAtomic ==
  ASSUME ~Resettable, ~Overlapping, CallBound < CounterWidth
  PROVE  Spec => AtomicSpec
<1>1. TypeOK /\ TypeOK' /\ NoOverlap /\ NoOverlap' /\ DecisionsHold /\ [Next]_vars
        => [Atomic!Next]_(Atomic!atomic)
  BY StepIsAtomic
<1>2. Init => Atomic!Init
  <2> SUFFICES ASSUME Init PROVE Atomic!Init
    OBVIOUS
  <2>1. \A t \in Callers : Waits(t)
    BY DEF Init, Waits
  <2>2. Settled = Atomic!New
    BY <2>1, SettledIs DEF Init, Atomic!New, Fields
  <2> QED BY <2>2 DEF Init, Atomic!Init, Stage
<1> QED BY <1>1, <1>2, WithoutOverlap, TypeCorrect, PTL
        DEF Spec, AtomicSpec, Atomic!Spec
=============================================================================
