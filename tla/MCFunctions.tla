----------------------------- MODULE MCFunctions -----------------------------
(***************************************************************************)
(* The pure functions of the client against what they are meant to         *)
(* compute, each input built up piece by piece: the addresses and names an *)
(* egress policy bars, the paths base_url lets through, and the delays of  *)
(* one retry after another.                                                *)
(***************************************************************************)
EXTENDS Backoff, AddressTables, BaseUrl, HostNames, FiniteSets, SequencesExt

CONSTANTS Durations, Multipliers, LastAttempt,  \* bounds of the strategies
          PathLength, NameLength                \* bounds of the paths and names

VARIABLES of,      \* the function asked
          given,   \* its first argument, where it has two
          input    \* the pieces of the other

vars == <<of, given, input>>

Strategies ==
       [kind : {"None"}]
  \cup [kind : {"Constant"}, delay : Durations]
  \cup [kind : {"Linear"}, delay : Durations, max : Durations]
  \cup [kind : {"Exponential"}, initial : Durations, max : Durations,
        multiplier : Multipliers]

(* Paths of a base_url as Url::parse leaves them.                               *)
Bases == {<<"/">>, <<"/", "v1">>, <<"/", "v1", "/">>}
PathTokens == {"/", "\\", "tab", " ", ":", "?", ".", "%2e", "v1", "x"}

Domains == {<<"local">>, <<".", "local">>, <<"my", ".", "local">>, <<"localhost">>}
NameTokens == {".", "my", "local", "localhost"}

Init ==
  /\ input = <<>>
  /\ \/ of = "is_internal_v4" /\ given = <<>>
     \/ of = "is_internal_v6" /\ given = <<>>
     \/ of = "resolve_name" /\ given \in Domains
     \/ of = "resolve_against_base" /\ given \in Bases
     \/ of = "delay_for_attempt" /\ given \in Strategies

(* What the next piece may be; no more pieces at the bound. *)
Pieces ==
  LET i == Len(input) + 1 IN
  CASE of = "is_internal_v4"       -> IF i <= 4 THEN EndsV4[i] ELSE {}
    [] of = "is_internal_v6"       -> IF i <= 8 THEN EndsV6[i] ELSE {}
    [] of = "resolve_name"       -> IF i <= NameLength THEN NameTokens ELSE {}
    [] of = "resolve_against_base" -> IF i <= PathLength THEN PathTokens ELSE {}
    [] of = "delay_for_attempt"    -> {Len(input)} \cap (0..LastAttempt)

Next == \E piece \in Pieces : input' = Append(input, piece) /\ UNCHANGED <<of, given>>

Spec == Init /\ [][Next]_vars

Address == IF of = "is_internal_v4" THEN Len(input) = 4 ELSE of = "is_internal_v6" /\ Len(input) = 8

-----------------------------------------------------------------------------
(* is_internal_v4 refuses exactly the ranges its documentation lists.           *)
V4AsTabled ==
  of = "is_internal_v4" /\ Address => (IsInternalV4(input) <=> BarredV4(input))

(* is_internal_v6 refuses its native ranges and the embeddings of refused IPv4  *)
(* addresses: no early return for one form hides another range.  Beyond them it *)
(* refuses 3ff0::/12 (egress.rs:552) and nothing else.                          *)
V6CoversTable ==
  of = "is_internal_v6" /\ Address =>
    (IsInternalV6(input) <=> BarredV6(input) \/ Within(input, WiderV6))

(* The documentation (egress.rs:505-509): it refuses nothing else at all.       *)
V6AsTabled ==
  of = "is_internal_v6" /\ Address => (IsInternalV6(input) <=> BarredV6(input))

(* allow_insecure_loopback relaxes no range but loopback (egress.rs:215), in    *)
(* the spellings is_loopback_ip names.                                          *)
OnlyLoopbackRelaxed ==
  Address /\ IsAllowed(TRUE, input) /\ ~IsAllowed(FALSE, input) =>
    IF Len(input) = 4
      THEN Within(input, Prefix(<<127>>, 8))
      ELSE \/ Within(input, Prefix(Zeros(7) \o <<1>>, 128))
           \/ /\ \E p \in MappedV4 : Within(input, p)
              /\ Within(Octets(input[7], input[8]), Prefix(<<127>>, 8))

-----------------------------------------------------------------------------
(* The labels of the domain a suffix stands for, which may begin with a dot, and *)
(* those of a name below the root, which it may end with.                       *)
DomainLabels(suffix) ==
  LET labels == Split(suffix, ".") IN IF Head(suffix) = "." THEN Tail(labels) ELSE labels

NameLabels(name) ==
  LET labels == Split(name, ".") IN IF Last(labels) = <<>> THEN Front(labels) ELSE labels

(* deny_host_suffix denies a domain and everything below it, at the root's dot  *)
(* or not, and no other domain that merely ends in the same letters; localhost  *)
(* and what is below it is for the loopback flag alone to decide.               *)
NamesDenied ==
  of = "resolve_name" /\ input # <<>> => \A allow_loopback \in BOOLEAN :
    LooksUp(allow_loopback, {DeniedSuffix(given)}, input) <=>
      IF IsSuffix(<< <<"localhost">> >>, NameLabels(input))
        THEN allow_loopback
        ELSE ~IsSuffix(DomainLabels(given), NameLabels(input))

-----------------------------------------------------------------------------
Resolved == ResolveAgainstBase(given, input)

(* With base_url set, whatever the path is put together from, the request goes  *)
(* to the base path or below it, segment by segment: /v1 does not admit /v1x.   *)
BaseConfines ==
  of = "resolve_against_base" /\ Resolved # "refused" =>
    IsPrefix(Split(TrimEnd(given, "/"), "/"), Split(Resolved, "/"))

(* The segments of a path itself; it climbs no higher than where it starts if   *)
(* no part of it, from the start, has more double dots than names.              *)
OwnSegments(path) ==
  Split(Before(TrimEnd(TrimStart(Cleaned(path), "/"), " "), {"?"}), "/")

Climbs(segs, n) == {i \in 1..n : segs[i] \in Double}
Names(segs, n) == {i \in 1..n : segs[i] \notin Single \cup Double}

StaysAbove(segs) ==
  \A n \in DOMAIN segs : Cardinality(Climbs(segs, n)) <= Cardinality(Names(segs, n))

(* A path that has no scheme or authority and never climbs above where it       *)
(* started is not refused, with or without a slash at the end of the base.      *)
BaseAdmits ==
  of = "resolve_against_base" /\ ~IsAbsolute(Cleaned(input)) /\ StaysAbove(OwnSegments(input))
    => ~Refuses(given, input)

-----------------------------------------------------------------------------
Delay(i) == DelayForAttempt(given, input[i])

(* A retry's delay follows from the one before it: longer by the linear         *)
(* increment, or by the multiplier, until the maximum is reached, and the       *)
(* maximum from then on.  The code computes each from the attempt's number, in  *)
(* saturating and truncating arithmetic: no product runs over, loses a rounded  *)
(* millisecond once more or falls out of step with the attempts.                *)
GrowsToCap ==
  of = "delay_for_attempt" => \A i \in DOMAIN input :
    /\ given.kind = "Linear" => Delay(i) =
         Shortest(IF i = 1 THEN given.delay ELSE Delay(i - 1) + given.delay, given.max)
    /\ given.kind = "Exponential" => Delay(i) =
         Shortest(IF i = 1 THEN given.initial - (given.initial % Millisecond)
                           ELSE Delay(i - 1) * given.multiplier, given.max)

(* A later retry never comes sooner than an earlier one: backing off does not   *)
(* turn into hammering when a product saturates.                                *)
NeverSooner ==
  of = "delay_for_attempt" => \A i, j \in DOMAIN input : i < j => Delay(i) <= Delay(j)
=============================================================================
