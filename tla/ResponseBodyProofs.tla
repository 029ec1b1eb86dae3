------------------------- MODULE ResponseBodyProofs -------------------------
(***************************************************************************)
(* What ResponseBody keeps for every limit, every length of a body and     *)
(* every way of cutting it into chunks.                                    *)
(***************************************************************************)
EXTENDS ResponseBody, TLAPS

(* The inductive invariant: the bytes held and the bytes to come make up the    *)
(* body, and a verdict on it agrees with its length.                            *)
Accounted ==
  /\ TypeOK
  /\ length = Endless <=> rest = Endless
  /\ declared \in {None, length}
  /\ body <= MaxSize
  /\ stage = "head" => body = 0
  /\ stage \in {"head", "reading", "ok"} /\ length # Endless => body + rest = length
  /\ stage = "ok" => rest = 0
  /\ stage = "too_large" /\ length # Endless => length > MaxSize

LEMMA AccountedInvariant == Spec => []Accounted
<1> USE BodyAssumption DEF Accounted, TypeOK
<1>1. Init => Accounted
  BY DEF Init
<1>2. Accounted /\ [Next]_vars => Accounted'
  <2> SUFFICES ASSUME Accounted, [Next]_vars PROVE Accounted'
    OBVIOUS
  <2>1. CASE CheckDeclared
    BY <2>1 DEF CheckDeclared
  <2>2. ASSUME NEW n \in ChunkSizes, Chunk(n) PROVE Accounted'
    <3>1. n \in Nat /\ MaxSize \in Nat
      OBVIOUS
    <3>2. CASE rest = Endless
      BY <2>2, <3>1, <3>2 DEF Chunk, Overflows
    <3>3. CASE rest # Endless
      <4>1. rest \in Nat /\ length \in Nat /\ n <= rest /\ rest' = rest - n
        BY <2>2, <3>3 DEF Chunk
      <4>2. rest' \in Nat /\ rest' # Endless
        BY <3>1, <4>1
      <4> QED BY <2>2, <3>1, <4>1, <4>2 DEF Chunk, Overflows
    <3> QED BY <3>2, <3>3
  <2>3. CASE End
    BY <2>3 DEF End
  <2>4. CASE Fails
    BY <2>4 DEF Fails
  <2>5. CASE UNCHANGED vars
    BY <2>5 DEF vars
  <2> QED BY <2>1, <2>2, <2>3, <2>4, <2>5 DEF Next, Read
<1> QED BY <1>1, <1>2, PTL DEF Spec

(* The read buffer never holds more than max_response_size bytes, whatever the  *)
(* server sends and however it is cut.                                          *)
THEOREM BufferIsCapped == Spec => []CapKept
<1>1. Accounted => CapKept
  BY DEF Accounted, CapKept
<1> QED BY <1>1, AccountedInvariant, PTL

(* A read that succeeds has the whole body.                                     *)
THEOREM SuccessIsWhole == Spec => []WholeBody
<1>1. Accounted => WholeBody
  <2> SUFFICES ASSUME Accounted, stage = "ok" PROVE body = length
    BY DEF WholeBody
  <2>1. rest = 0 /\ rest # Endless
    BY BodyAssumption DEF Accounted
  <2> QED BY <2>1, BodyAssumption DEF Accounted, TypeOK
<1> QED BY <1>1, AccountedInvariant, PTL

(* A body that fits is never refused for its size.                              *)
THEOREM LimitExact == Spec => []OnlyTooLarge
<1>1. Accounted => OnlyTooLarge
  BY DEF Accounted, OnlyTooLarge
<1> QED BY <1>1, AccountedInvariant, PTL
=============================================================================
