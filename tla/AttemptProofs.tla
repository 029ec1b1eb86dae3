----------------------------- MODULE AttemptProofs -----------------------------
(***************************************************************************)
(* The redirect policy and the egress policy look at one hop at a time;    *)
(* these theorems are about the whole attempt, for any limit on redirects. *)
(***************************************************************************)
EXTENDS Attempt, SequenceTheorems, TLAPS

TypeOK == config \in Configs /\ chain \in Seq(URLs) /\ chain # <<>>

(* The properties of a chain, in the form a hop preserves. *)
ChainSafe ==
  /\ TypeOK
  /\ HopsBounded
  /\ NeverDowngraded
  /\ OneOrigin

(* What the type invariant says of the chain, once for all. *)
LEMMA ChainFacts ==
  ASSUME TypeOK
  PROVE  /\ config.max_redirects \in Nat
         /\ Len(chain) \in Nat /\ Len(chain) >= 1
         /\ DOMAIN chain = 1..Len(chain)
         /\ \A i \in 1..Len(chain) : chain[i] \in URLs
BY AttemptAssumption DEF TypeOK, Configs

(* The policy's literal checks leave no address that it bars. *)
LEMMA ClearedLiteral ==
  ASSUME NEW policy \in Policies, NEW u \in URLs, CheckUrl(policy, u), u.host \in Addresses
  PROVE  IsAllowedIp(policy, u.host)
BY DEF CheckUrl, IsAllowedIp, Addresses

(* A hop the policy lets through keeps the chain safe: what it compares with    *)
(* the last or the first URL carries over to every pair of URLs of the chain.   *)
LEMMA HopKeepsChain ==
  ASSUME ChainSafe, NEW next \in URLs, Follow(next), UNCHANGED config
  PROVE  ChainSafe'
<1> USE DEF ChainSafe, TypeOK
<1> DEFINE n == Len(chain)
<1>1. /\ n \in Nat /\ n >= 1
      /\ DOMAIN chain = 1..n
      /\ \A i \in 1..n : chain[i] \in URLs
      /\ config.max_redirects \in Nat
  BY ChainFacts
<1>2. /\ chain' = Append(chain, next)
      /\ chain' \in Seq(URLs)
      /\ Len(chain') = n + 1
      /\ DOMAIN chain' = 1..(n + 1)
      /\ chain'[n + 1] = next
      /\ \A i \in 1..n : chain'[i] = chain[i]
  BY <1>1 DEF Follow
<1>3. TypeOK'
  BY <1>1, <1>2
<1>4. HopsBounded'
  BY <1>1, <1>2 DEF Follow, TooMany, HopsBounded
<1>5. NeverDowngraded'
  <2>1. \A i \in 1..n : chain[i].scheme = "https" => chain[n].scheme = "https"
    BY <1>1 DEF NeverDowngraded
  <2>2. chain[n].scheme = "https" \/ config.https_only => next.scheme = "https"
    BY <1>1 DEF Follow, Downgrades, Prev
  <2> QED BY <1>1, <1>2, <2>1, <2>2 DEF NeverDowngraded
<1>6. OneOrigin'
  <2>1. ~config.allow_cross_origin_redirects => Origin(chain[1]) = Origin(next)
    BY DEF Follow, CrossesOrigin, First
  <2> QED BY <1>1, <1>2, <2>1 DEF OneOrigin, Origin
<1> QED BY <1>3, <1>4, <1>5, <1>6

(* No step of an attempt changes the configuration, and only a followed         *)
(* redirect changes the chain.                                                  *)
LEMMA StepCases ==
  ASSUME [Next]_vars
  PROVE  /\ UNCHANGED <<config, rewritten>>
         /\ \/ UNCHANGED chain
            \/ \E next \in URLs : Redirected(next) /\ Follow(next)
BY DEF Next, Connecting, DialLiteral, Reuse, LookUp, Resolved, LookupFails, Dial, DialFails,
       Answered, Redirected, Refuse, vars

(* The chain keeps its properties from the first request on. *)
THEOREM ChainIsSafe == Spec => []ChainSafe
<1>1. Init => ChainSafe
  <2> SUFFICES ASSUME config \in Configs, NEW u \in URLs, chain = <<u>>,
                      config.https_only => u.scheme = "https"
               PROVE  ChainSafe
    BY DEF Init, HttpsOnly
  <2>1. chain \in Seq(URLs) /\ Len(chain) = 1 /\ DOMAIN chain = {1} /\ chain[1] = u
    OBVIOUS
  <2>2. TypeOK
    BY <2>1 DEF TypeOK
  <2>3. config.max_redirects \in Nat
    BY <2>2, ChainFacts
  <2> QED BY <2>1, <2>2, <2>3 DEF ChainSafe, HopsBounded, NeverDowngraded, OneOrigin
<1>2. ChainSafe /\ [Next]_vars => ChainSafe'
  <2> SUFFICES ASSUME ChainSafe, [Next]_vars PROVE ChainSafe'
    OBVIOUS
  <2>1. UNCHANGED config
    BY StepCases
  <2>2. CASE UNCHANGED chain
    BY <2>1, <2>2 DEF ChainSafe, TypeOK, HopsBounded, NeverDowngraded, OneOrigin
  <2>3. CASE \E next \in URLs : Redirected(next) /\ Follow(next)
    BY <2>1, <2>3, HopKeepsChain
  <2> QED BY <2>2, <2>3, StepCases
<1> QED BY <1>1, <1>2, PTL DEF Spec

(* Without allow_cross_origin_redirects every request of the chain goes to the  *)
(* origin of the first.                                                         *)
THEOREM StaysAtOneOrigin == Spec => []OneOrigin
<1>1. ChainSafe => OneOrigin
  BY DEF ChainSafe
<1> QED BY <1>1, ChainIsSafe, PTL

(* A chain that has been on https stays on it; with https_only it never leaves. *)
THEOREM StaysOnHttps == Spec => []NeverDowngraded
<1>1. ChainSafe => NeverDowngraded
  BY DEF ChainSafe
<1> QED BY <1>1, ChainIsSafe, PTL

(* At most max_redirects redirects are followed.                                *)
THEOREM RedirectsAreBounded == Spec => []HopsBounded
<1>1. ChainSafe => HopsBounded
  BY DEF ChainSafe
<1> QED BY <1>1, ChainIsSafe, PTL

-----------------------------------------------------------------------------
(* An attempt that goes on has no verdict yet. *)
Undecided == stage # "done" => verdict = "pending"

(* The limit refuses nothing early: the hop it refuses is the one after the     *)
(* last it allows.                                                              *)
THEOREM LimitIsExact == Spec => []LimitReached
<1>1. Init => Undecided /\ LimitReached
  BY DEF Init, Undecided, LimitReached
<1>2. ChainSafe /\ Undecided /\ LimitReached /\ [Next]_vars => Undecided' /\ LimitReached'
  <2> SUFFICES ASSUME ChainSafe, Undecided, LimitReached, [Next]_vars
               PROVE  Undecided' /\ LimitReached'
    OBVIOUS
  <2>1. /\ config.max_redirects \in Nat
        /\ Len(chain) \in Nat
        /\ Len(chain) <= config.max_redirects + 1
    BY ChainFacts DEF ChainSafe, HopsBounded
  <2>2. CASE Connecting
    BY <2>2 DEF Connecting, DialLiteral, Reuse, LookUp, Resolved, LookupFails, Dial, DialFails,
                Stop, Undecided, LimitReached
  <2>3. CASE Answered
    BY <2>3 DEF Answered, Stop, Undecided, LimitReached
  <2>4. ASSUME NEW next \in URLs, Redirected(next) PROVE Undecided' /\ LimitReached'
    <3>1. CASE Refuse(next)
      BY <2>1, <2>4, <3>1 DEF Redirected, Refuse, TooMany, Stop, Undecided, LimitReached
    <3>2. CASE Follow(next)
      BY <2>4, <3>2 DEF Redirected, Follow, Undecided, LimitReached
    <3> QED BY <2>4, <3>1, <3>2 DEF Redirected
  <2>5. CASE UNCHANGED vars
    BY <2>5 DEF vars, Undecided, LimitReached
  <2> QED BY <2>2, <2>3, <2>4, <2>5 DEF Next
<1> QED BY <1>1, <1>2, ChainIsSafe, PTL DEF Spec

-----------------------------------------------------------------------------
(* The addresses an egress policy lets an attempt dial, and the one it has no   *)
(* say about: the literal address an interceptor put into the first URL.        *)
Spared(a) == IsAllowedIp(config.egress, a) \/ (rewritten /\ a = First.host)

(* No other address stands in a URL of the chain, waits to be dialed or has     *)
(* been dialed.                                                                 *)
NothingBarred ==
  config.egress # None =>
    /\ \A a \in answers \cup dialed : Spared(a)
    /\ \A i \in DOMAIN chain : chain[i].host \in Addresses => Spared(chain[i].host)

LEMMA InitNothingBarred == Init => NothingBarred
<1> SUFFICES ASSUME Init, config.egress # None PROVE NothingBarred
  BY DEF NothingBarred
<1>1. PICK u \in URLs : /\ ~rewritten /\ config.egress # None => CheckUrl(config.egress, u)
                        /\ chain = <<u>>
  BY DEF Init
<1>2. DOMAIN chain = {1} /\ chain[1] = u /\ First = u
  BY <1>1 DEF First
<1>3. config.egress \in Policies
  BY DEF Init, Configs
<1>4. CASE rewritten
  BY <1>2, <1>4 DEF Init, NothingBarred, Spared
<1>5. CASE ~rewritten
  <2>1. u.host \in Addresses => IsAllowedIp(config.egress, u.host)
    BY <1>1, <1>3, <1>5, ClearedLiteral
  <2> QED BY <1>2, <2>1 DEF Init, NothingBarred, Spared
<1> QED BY <1>4, <1>5 DEF Init

LEMMA StepNothingBarred ==
  ASSUME TypeOK, NothingBarred, [Next]_vars
  PROVE  NothingBarred'
<1> SUFFICES ASSUME config'.egress # None PROVE NothingBarred'
  BY DEF NothingBarred
<1>1. UNCHANGED <<config, rewritten>>
  BY StepCases
<1>2. /\ Len(chain) \in Nat /\ Len(chain) >= 1
      /\ DOMAIN chain = 1..Len(chain)
      /\ Prev = chain[Len(chain)]
  BY ChainFacts DEF Prev
<1>3. First' = First
  <2>1. CASE UNCHANGED chain
    BY <2>1 DEF First
  <2>2. CASE \E next \in URLs : Redirected(next) /\ Follow(next)
    BY <2>2, <1>2 DEF Follow, First, TypeOK
  <2> QED BY <2>1, <2>2, StepCases
<1>4. config.egress # None /\ config.egress \in Policies
  BY <1>1 DEF TypeOK, Configs
<1>5. /\ \A a \in answers \cup dialed : Spared(a)
      /\ \A i \in DOMAIN chain : chain[i].host \in Addresses => Spared(chain[i].host)
  BY <1>4 DEF NothingBarred
<1>same. \A a : Spared(a)' <=> Spared(a)
  BY <1>1, <1>3 DEF Spared
<1>spared. \A a : IsAllowedIp(config.egress, a) => Spared(a)
  BY DEF Spared
<1>6. ASSUME UNCHANGED chain, \A a \in answers' \cup dialed' : Spared(a)
      PROVE  NothingBarred'
  BY <1>same, <1>5, <1>6 DEF NothingBarred
<1>7. CASE DialLiteral
  BY <1>2, <1>5, <1>6, <1>7 DEF DialLiteral
<1>8. ASSUME NEW found \in SUBSET Addresses, Resolved(found) PROVE NothingBarred'
  BY <1>4, <1>5, <1>6, <1>8, <1>spared DEF Resolved, Vets
<1>9. ASSUME NEW a \in answers, Dial(a) PROVE NothingBarred'
  BY <1>5, <1>6, <1>9 DEF Dial
<1>10. CASE Reuse \/ LookUp \/ LookupFails \/ DialFails \/ Answered \/ UNCHANGED vars
  BY <1>5, <1>6, <1>10 DEF Reuse, LookUp, LookupFails, DialFails, Answered, vars
<1>11. ASSUME NEW next \in URLs, Redirected(next) PROVE NothingBarred'
  <2>1. CASE Refuse(next)
    BY <1>5, <1>6, <1>11, <2>1 DEF Redirected, Refuse
  <2>2. CASE Follow(next)
    <3>1. next.host \in Addresses => IsAllowedIp(config.egress, next.host)
      BY <1>4, <2>2, ClearedLiteral DEF Follow, Barred
    <3>2. /\ DOMAIN chain' = 1..(Len(chain) + 1)
          /\ chain'[Len(chain) + 1] = next
          /\ \A i \in 1..Len(chain) : chain'[i] = chain[i]
      BY <1>2, <2>2 DEF Follow, TypeOK
    <3>3. UNCHANGED <<answers, dialed>>
      BY <1>11 DEF Redirected
    <3> QED BY <1>2, <1>5, <1>same, <1>spared, <3>1, <3>2, <3>3 DEF NothingBarred
  <2> QED BY <1>11, <2>1, <2>2 DEF Redirected
<1> QED BY <1>7, <1>8, <1>9, <1>10, <1>11 DEF Next, Connecting

(* With an egress policy no barred address is dialed, on any hop and whatever   *)
(* the lookups answer: for the URLs that build_url or the redirect policy let   *)
(* through, and for every name.  The literal address an interceptor puts into   *)
(* the URL (client.rs:218) is excepted: nothing checks it, and it is dialed.    *)
THEOREM DialsAreAllowed == Spec => []OnlyAllowedDialed
<1>1. ChainSafe => TypeOK
  BY DEF ChainSafe
<1>2. TypeOK /\ NothingBarred /\ [Next]_vars => NothingBarred'
  BY StepNothingBarred
<1>3. NothingBarred => OnlyAllowedDialed
  BY DEF NothingBarred, Spared, OnlyAllowedDialed
<1> QED BY <1>1, <1>2, <1>3, InitNothingBarred, ChainIsSafe, PTL DEF Spec
=============================================================================
