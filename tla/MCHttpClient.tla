--------------------------- MODULE MCHttpClient ---------------------------
(***************************************************************************)
(* HttpClient for TLC: the symmetry of the requests and their backoff.     *)
(***************************************************************************)
EXTENDS HttpClient, TLC

RequestSymmetry == Permutations(Requests)

(* The backoff of the runs: one unit of time before every retry. *)
Steady == [kind |-> "Constant", delay |-> 1]
=============================================================================
