-------------------------- MODULE MCCircuitBreaker --------------------------
(***************************************************************************)
(* CircuitBreaker for TLC: the symmetry of the callers, and what a comment *)
(* of the source says of the breaker that its interleavings do not keep.   *)
(***************************************************************************)
EXTENDS CircuitBreaker, TLC

CallerSymmetry == Permutations(Callers)

(* circuit_breaker.rs:27, reset_timeout is the "time to wait before attempting *)
(* to close the circuit": an open circuit is never closed without a probe.     *)
NoDirectClose == [][state = "Open" => state' # "Closed"]_vars
=============================================================================
