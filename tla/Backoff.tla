------------------------------- MODULE Backoff -------------------------------
(***************************************************************************)
(* src/src/retry.rs, BackoffStrategy: the delay before a retry.  Durations *)
(* are counted in ticks finer than a millisecond, so that what the code    *)
(* rounds away can be seen; they saturate at DurationMax.                  *)
(***************************************************************************)
EXTENDS Naturals

CONSTANTS Millisecond,   \* ticks in a millisecond
          DurationMax    \* Duration::MAX

ASSUME BackoffAssumption == Millisecond \in Nat \ {0} /\ DurationMax \in Nat

Shortest(d, e) == IF d <= e THEN d ELSE e

(* saturating_mul *)
SaturatingMul(d, n) == Shortest(d * n, DurationMax)

(* powi, of an f64 that holds a whole number. *)
Powi(multiplier, attempt) ==
  LET power[n \in Nat] == IF n = 0 THEN 1 ELSE multiplier * power[n - 1]
  IN  power[attempt]

Exponential(s, attempt) ==
  SaturatingMul((s.initial \div Millisecond) * Powi(s.multiplier, attempt), Millisecond)

(* Plausible bug: one strategy without its cap. *)
DelayUncapped(s, attempt) ==
  CASE s.kind = "None"        -> 0
    [] s.kind = "Constant"    -> s.delay
    [] s.kind = "Linear"      -> Shortest(SaturatingMul(s.delay, attempt + 1), s.max)
    [] s.kind = "Exponential" -> Exponential(s, attempt)

(* Plausible bug: a linear delay that wraps where it should saturate. *)
DelayWrapping(s, attempt) ==
  CASE s.kind = "None"        -> 0
    [] s.kind = "Constant"    -> s.delay
    [] s.kind = "Linear"      -> Shortest((s.delay * (attempt + 1)) % (DurationMax + 1), s.max)
    [] s.kind = "Exponential" -> Shortest(Exponential(s, attempt), s.max)

DelayForAttempt(s, attempt) ==
  CASE s.kind = "None"        -> 0
    [] s.kind = "Constant"    -> s.delay
    [] s.kind = "Linear"      -> Shortest(SaturatingMul(s.delay, attempt + 1), s.max)
    [] s.kind = "Exponential" -> Shortest(Exponential(s, attempt), s.max)
=============================================================================
