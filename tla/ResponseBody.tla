---------------------------- MODULE ResponseBody ----------------------------
(***************************************************************************)
(* src/src/response.rs, Response::from_reqwest: a body is taken from the   *)
(* wire chunk by chunk, decompressed, and given up as soon as it is longer *)
(* than max_response_size.  How the bytes are cut into chunks is up to the *)
(* server, and so is whether they ever end.                                *)
(***************************************************************************)
EXTENDS Naturals

CONSTANTS MaxSize,      \* config.max_response_size
          Lengths,      \* decoded lengths of the bodies a server may send
          ChunkSizes,   \* decoded lengths of its chunks
          Endless,      \* a body that goes on for ever
          None

ASSUME BodyAssumption ==
  /\ MaxSize \in Nat /\ Lengths \subseteq Nat /\ ChunkSizes \subseteq Nat
  /\ Endless \notin Nat /\ None \notin Nat \cup {Endless}

VARIABLES
  length,     \* how long the server's body is
  declared,   \* content_length(): unknown for a decompressed or endless body
  rest,       \* what is still to come of the body
  body,       \* the bytes held
  stage       \* where the read stands, or how it ended

vars == <<length, declared, rest, body, stage>>

TypeOK ==
  /\ length \in Lengths \cup {Endless} /\ rest \in Nat \cup {Endless}
  /\ declared \in Lengths \cup {None}
  /\ body \in Nat
  /\ stage \in {"head", "reading", "ok", "too_large", "failed"}

Init ==
  /\ length \in Lengths \cup {Endless}
  /\ declared \in {None, length} \ {Endless}
  /\ rest = length /\ body = 0 /\ stage = "head"

(* A declared length over the limit ends the read before it begins. *)
CheckDeclared ==
  /\ stage = "head"
  /\ stage' = IF declared # None /\ declared > MaxSize THEN "too_large" ELSE "reading"
  /\ UNCHANGED <<length, declared, rest, body>>

(* Plausible bugs: the limit is compared before the chunk is added, as if it    *)
(* were out of bounds itself, or with each chunk alone.                         *)
OverflowsLate(n) == body > MaxSize
OverflowsAtLimit(n) == body + n >= MaxSize
Overflows(n) == body + n > MaxSize

(* Plausible bug: what does not fit is left out. *)
ChunkTruncated(n) ==
  /\ stage = "reading"
  /\ rest # Endless => n <= rest
  /\ rest' = IF rest = Endless THEN Endless ELSE rest - n
  /\ body' = IF Overflows(n) THEN body ELSE body + n
  /\ UNCHANGED <<length, declared, stage>>

Chunk(n) ==
  /\ stage = "reading"
  /\ rest # Endless => n <= rest
  /\ rest' = IF rest = Endless THEN Endless ELSE rest - n
  /\ IF Overflows(n)
       THEN stage' = "too_large" /\ UNCHANGED body
       ELSE body' = body + n /\ UNCHANGED stage
  /\ UNCHANGED <<length, declared>>

End ==
  /\ stage = "reading" /\ rest = 0
  /\ stage' = "ok"
  /\ UNCHANGED <<length, declared, rest, body>>

(* Plausible bug: a read that fails is taken for the end of the body. *)
FailsAsEnd ==
  /\ stage = "reading"
  /\ stage' = "ok"
  /\ UNCHANGED <<length, declared, rest, body>>

(* The connection is lost, or config.timeout is over. *)
Fails ==
  /\ stage = "reading"
  /\ stage' = "failed"
  /\ UNCHANGED <<length, declared, rest, body>>

Read == CheckDeclared \/ (\E n \in ChunkSizes : Chunk(n)) \/ End

Next == Read \/ Fails
Spec == Init /\ [][Next]_vars

(* The reader asks for the next chunk as long as there may be one, and the      *)
(* server goes on sending bytes (one that stops runs into config.timeout, which *)
(* is Fails).  No connection needs to be lost for a read to end.                *)
FairSpec == Spec /\ WF_vars(Read)

-----------------------------------------------------------------------------
Ended == stage \in {"ok", "too_large", "failed"}

(* However a small body inflates, no more than max_response_size bytes of it    *)
(* are ever held.                                                               *)
CapKept == body <= MaxSize

(* A response is never handed on with a part of its body: neither a lost        *)
(* connection nor the limit passes for the end of it.                           *)
WholeBody == stage = "ok" => body = length

(* The limit is exact: a body is refused only if all of it is longer than       *)
(* max_response_size, whether the declared length or the chunks tell.           *)
OnlyTooLarge == stage = "too_large" => length = Endless \/ length > MaxSize

(* Every read comes to an end, that of an endless body too, though no           *)
(* connection is lost and no timeout strikes.                                   *)
ReadEnds == <>Ended
=============================================================================
