------------------------------- MODULE Attempt -------------------------------
(***************************************************************************)
(* One attempt as reqwest carries it out for the client: every hop is      *)
(* connected to, through the guarded resolver of src/src/egress.rs when    *)
(* there is an egress policy, and answered, perhaps with a redirect that   *)
(* redirect_policy of src/src/client.rs judges.  What the resolver and the *)
(* servers answer is a choice.                                             *)
(***************************************************************************)
EXTENDS Naturals, Sequences

CONSTANTS RedirectBound,   \* the largest max_redirects configured
          None             \* Option::None

(* Addresses, up to what the policy tells apart (module Addresses has the      *)
(* ranges), and the host names it does.  An IP-literal host is its address.    *)
Addresses == {"public", "loopback", "internal"}
Names == {"localhost", "denied", "other"}

Policies == [allow_http : BOOLEAN, allow_loopback : BOOLEAN]

ASSUME AttemptAssumption == RedirectBound \in Nat /\ None \notin Policies

VARIABLES config,     \* the fields of HttpClientConfig an attempt depends on
          rewritten,  \* has an interceptor replaced the URL
          chain,      \* the URLs requested so far: attempt.previous()
          stage,      \* what the attempt is doing with the last of them
          answers,    \* the addresses left to dial
          dialed,     \* history: the addresses dialed
          verdict     \* what became of the attempt

vars == <<config, rewritten, chain, stage, answers, dialed, verdict>>

Configs == [follow_redirects : BOOLEAN, max_redirects : 0..RedirectBound,
            allow_cross_origin_redirects : BOOLEAN, https_only : BOOLEAN,
            egress : Policies \cup {None}]

URLs == [scheme : {"http", "https"}, host : Addresses \cup Names]

Origin(u) == <<u.scheme, u.host>>

First == chain[1]
Prev == chain[Len(chain)]

-----------------------------------------------------------------------------
(* EgressPolicy *)

IsAllowedIp(policy, a) == a = "public" \/ (a = "loopback" /\ policy.allow_loopback)

CheckUrl(policy, u) ==
  IF u.host \in {"loopback", "localhost"}
    THEN policy.allow_loopback
    ELSE /\ u.scheme = "https" \/ policy.allow_http
         /\ u.host \in Addresses => IsAllowedIp(policy, u.host)
         /\ u.host # "denied"

(* The names resolve_name looks up at all. *)
LooksUp(policy, name) ==
  IF name = "localhost" THEN policy.allow_loopback ELSE name # "denied"

(* Plausible bug: a name is refused only if all its answers are. *)
VetsSome(policy, found) == \E a \in found : IsAllowedIp(policy, a)

Vets(policy, found) == found # {} /\ \A a \in found : IsAllowedIp(policy, a)

-----------------------------------------------------------------------------
(* https_only as reqwest is given it *)
HttpsOnly ==
  \/ config.https_only
  \/ config.egress # None /\ ~config.egress.allow_http /\ ~config.egress.allow_loopback

(* build_url has let the URL through, unless an interceptor has replaced it     *)
(* since; reqwest itself refuses http when it was told https_only.              *)
Init ==
  /\ config \in Configs
  /\ rewritten \in BOOLEAN
  /\ \E u \in URLs :
       /\ ~rewritten => /\ config.https_only => u.scheme = "https"
                        /\ config.egress # None => CheckUrl(config.egress, u)
       /\ HttpsOnly => u.scheme = "https"
       /\ chain = <<u>>
  /\ stage = "connect"
  /\ answers = {}
  /\ dialed = {}
  /\ verdict = "pending"

Stop(reason) == stage' = "done" /\ verdict' = reason

(* The host is an address: no resolver sees it. *)
DialLiteral ==
  /\ stage = "connect" /\ Prev.host \in Addresses
  /\ dialed' = dialed \cup {Prev.host}
  /\ \/ stage' = "answering" /\ UNCHANGED verdict
     \/ Stop("connect")
  /\ UNCHANGED <<config, rewritten, chain, answers>>

(* A connection made and vetted for an earlier request is used again. *)
Reuse ==
  /\ stage = "connect" /\ Prev.host \in Names
  /\ config.egress # None => LooksUp(config.egress, Prev.host)
  /\ stage' = "answering"
  /\ UNCHANGED <<config, rewritten, chain, answers, dialed, verdict>>

LookUp ==
  /\ stage = "connect" /\ Prev.host \in Names
  /\ IF config.egress # None /\ ~LooksUp(config.egress, Prev.host)
       THEN Stop("egress")
       ELSE stage' = "lookup" /\ UNCHANGED verdict
  /\ UNCHANGED <<config, rewritten, chain, answers, dialed>>

(* The lookup answers, with other addresses than last time if it pleases. *)
Resolved(found) ==
  /\ stage = "lookup"
  /\ IF config.egress = None \/ Vets(config.egress, found)
       THEN /\ stage' = "dial" /\ answers' = found
            /\ UNCHANGED verdict
       ELSE Stop("egress") /\ UNCHANGED answers
  /\ UNCHANGED <<config, rewritten, chain, dialed>>

(* An error of the lookup, or resolve_timeout. *)
LookupFails ==
  /\ stage = "lookup"
  /\ Stop(IF config.egress = None THEN "connect" ELSE "egress")
  /\ UNCHANGED <<config, rewritten, chain, answers, dialed>>

(* The connector dials the answers in an order of its own until one answers. *)
Dial(a) ==
  /\ stage = "dial" /\ a \in answers
  /\ dialed' = dialed \cup {a}
  /\ \/ stage' = "answering" /\ answers' = {}
     \/ stage' = "dial" /\ answers' = answers \ {a}
  /\ UNCHANGED <<config, rewritten, chain, verdict>>

DialFails ==
  /\ stage = "dial" /\ answers = {}
  /\ Stop("connect")
  /\ UNCHANGED <<config, rewritten, chain, answers, dialed>>

-----------------------------------------------------------------------------
(* redirect_policy: its four checks, and plausible bugs of them. *)
TooManyLate == Len(chain) > config.max_redirects + 1
TooManyEarly == Len(chain) >= config.max_redirects
DowngradesFirst(next) ==
  (First.scheme = "https" \/ config.https_only) /\ next.scheme # "https"
CrossesHost(next) == ~config.allow_cross_origin_redirects /\ First.host # next.host

TooMany == Len(chain) > config.max_redirects
Downgrades(next) ==
  (Prev.scheme = "https" \/ config.https_only) /\ next.scheme # "https"
CrossesOrigin(next) ==
  ~config.allow_cross_origin_redirects /\ Origin(First) # Origin(next)
Barred(next) == config.egress # None /\ ~CheckUrl(config.egress, next)

Refuse(next) ==
  /\ \/ TooMany /\ Stop("too_many")
     \/ ~TooMany /\ Downgrades(next) /\ Stop("downgrade")
     \/ ~TooMany /\ ~Downgrades(next) /\ CrossesOrigin(next) /\ Stop("cross_origin")
     \/ /\ ~TooMany /\ ~Downgrades(next) /\ ~CrossesOrigin(next)
        /\ Barred(next) /\ Stop("egress")
  /\ UNCHANGED chain

Follow(next) ==
  /\ ~TooMany /\ ~Downgrades(next) /\ ~CrossesOrigin(next) /\ ~Barred(next)
  /\ chain' = Append(chain, next)
  /\ stage' = "connect"
  /\ UNCHANGED verdict

Redirected(next) ==
  /\ stage = "answering"
  /\ config.follow_redirects
  /\ Refuse(next) \/ Follow(next)
  /\ UNCHANGED <<config, rewritten, answers, dialed>>

(* A final response, a redirect that Policy::none hands back as one, or an      *)
(* error in transit.                                                            *)
Answered ==
  /\ stage = "answering"
  /\ Stop("response")
  /\ UNCHANGED <<config, rewritten, chain, answers, dialed>>

Connecting ==
  \/ DialLiteral \/ Reuse \/ LookUp
  \/ \E found \in SUBSET Addresses : Resolved(found)
  \/ LookupFails
  \/ \E a \in answers : Dial(a)
  \/ DialFails

Next == Connecting \/ Answered \/ \E u \in URLs : Redirected(u)

Spec == Init /\ [][Next]_vars

-----------------------------------------------------------------------------
(* At most max_redirects hops are followed after the first request.             *)
HopsBounded == Len(chain) <= config.max_redirects + 1

(* The limit refuses nothing before it is reached: an attempt refused for too   *)
(* many redirects has followed max_redirects of them.                           *)
LimitReached == verdict = "too_many" => Len(chain) = config.max_redirects + 1

(* Once an attempt has been on https it never leaves it, over the whole chain   *)
(* and not only from one hop to the next; with https_only it was never off it.  *)
NeverDowngraded ==
  /\ \A i, j \in DOMAIN chain :
       i < j /\ chain[i].scheme = "https" => chain[j].scheme = "https"
  /\ config.https_only => \A i \in DOMAIN chain : chain[i].scheme = "https"

(* Unless cross-origin redirects are allowed, the whole chain stays at the      *)
(* origin of the first request, so its headers reach no other.                  *)
OneOrigin ==
  ~config.allow_cross_origin_redirects =>
    \A i, j \in DOMAIN chain : Origin(chain[i]) = Origin(chain[j])

(* The literal checks and the vetting of answers together: with an egress       *)
(* policy no address it bars is ever dialed, on any hop, however a name's       *)
(* answers change from one lookup to the next.  The address that an interceptor *)
(* has put into the URL is the exception, because nothing checks it again; the  *)
(* redirects that follow it make no other.                                      *)
OnlyAllowedDialed ==
  config.egress # None => \A a \in dialed :
    IsAllowedIp(config.egress, a) \/ (rewritten /\ a = First.host)
=============================================================================
