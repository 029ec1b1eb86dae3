--------------------------- MODULE RequestBuilder ---------------------------
(***************************************************************************)
(* src/src/request.rs, RequestBuilder, up to the request that goes to      *)
(* HttpClient::execute and through the AuthInterceptor of                  *)
(* src/src/interceptor.rs: which headers and which body a request carries, *)
(* after any sequence of calls of the builder's methods.                   *)
(***************************************************************************)
EXTENDS Naturals, Sequences, SequencesExt

CONSTANTS MaxCalls,    \* how many methods are called before send()
          MaxDefaults, \* how many default headers are configured
          None

(* The headers that more than one place sets; X-Api-Key is like authorization.  *)
(* The value "malformed" stands for a pair whose name or value HTTP refuses.    *)
Names == {"authorization", "content-type"}
Types == {"text", "json", "form"}
WellFormed == {"a", "b", "basic"} \cup Types
Values == WellFormed \cup {"malformed"}
HeaderMaps == [Names -> WellFormed \cup {None}]
Settings == [name : Names, value : {"a", "malformed"}]

Bodies == {None, "raw"} \cup Types
Requests ==
  [headers : HeaderMaps, query : Seq({"p", "q"}), body : Bodies, timeout : {None, 1}]
Errors == [error : {"InvalidUrl", "Json", "RequestBuild", "Interceptor"}]

ASSUME BuilderAssumption ==
  /\ {MaxCalls, MaxDefaults} \subseteq Nat
  /\ None # 1 /\ None \notin Values \cup {"raw"} \cup Requests \cup Errors

VARIABLES
  default_headers,  \* config.default_headers
  auth,             \* the AuthInterceptor, if there is one: the header it sets
  headers, query, body, timeout,   \* RequestBuilder
  sent,             \* the request that goes out, or why there is none
  calls             \* history: what each call asked for

config == <<default_headers, auth>>
vars == <<config, headers, query, body, timeout, sent, calls>>

TypeOK ==
  /\ default_headers \in Seq(Settings) /\ auth \in Settings \cup {None}
  /\ headers \in HeaderMaps /\ query \in Seq({"p", "q"})
  /\ body \in Bodies /\ timeout \in {None, 1}
  /\ sent \in {None} \cup Requests \cup Errors
  /\ Len(calls) <= MaxCalls

NoHeaders == [n \in Names |-> None]
Only(name, value) == [NoHeaders EXCEPT ![name] = value]

Init ==
  /\ default_headers \in BoundedSeq(Settings, MaxDefaults)
  /\ auth \in Settings \cup {None}
  /\ headers = NoHeaders /\ query = <<>> /\ body = None /\ timeout = None
  /\ sent = None /\ calls = <<>>

Nothing == [headers |-> NoHeaders, query |-> <<>>, body |-> None, timeout |-> None]

(* A call of a method; the history keeps what it was given, malformed or not.   *)
Call(given) ==
  /\ sent = None /\ Len(calls) < MaxCalls
  /\ calls' = Append(calls, given)
  /\ UNCHANGED config

Insert(map, name, value) ==
  IF value = "malformed" THEN map ELSE [map EXCEPT ![name] = value]

Extend(map, other) == [n \in Names |-> IF other[n] = None THEN map[n] ELSE other[n]]

-----------------------------------------------------------------------------
Header(name, value) ==
  /\ Call([Nothing EXCEPT !.headers = Only(name, value)])
  /\ headers' = Insert(headers, name, value)
  /\ UNCHANGED <<query, body, timeout, sent>>

BearerAuth(token) == Header("authorization", token)
BasicAuth == Header("authorization", "basic")   \* base64: never malformed

Headers(map) ==
  /\ Call([Nothing EXCEPT !.headers = map])
  /\ headers' = Extend(headers, map)
  /\ UNCHANGED <<query, body, timeout, sent>>

(* query(), and queries() with several *)
Query(pairs) ==
  /\ Call([Nothing EXCEPT !.query = pairs])
  /\ query' = query \o pairs
  /\ UNCHANGED <<headers, body, timeout, sent>>

Body ==
  /\ Call([Nothing EXCEPT !.body = "raw"])
  /\ body' = "raw"
  /\ UNCHANGED <<headers, query, timeout, sent>>

(* text(), and json() and form() that succeed *)
Typed(type) ==
  /\ Call([Nothing EXCEPT !.headers = Only("content-type", type), !.body = type])
  /\ headers' = Insert(headers, "content-type", type)
  /\ body' = type
  /\ UNCHANGED <<query, timeout, sent>>

(* Plausible bug: the request is built on without the body that failed. *)
SerializesNotSilently(type) ==
  /\ Call([Nothing EXCEPT !.body = type])
  /\ UNCHANGED <<headers, query, body, timeout, sent>>

(* json() and form() that fail: the builder is gone. *)
SerializesNot(type) ==
  /\ Call([Nothing EXCEPT !.body = type])
  /\ sent' = [error |-> IF type = "json" THEN "Json" ELSE "RequestBuild"]
  /\ UNCHANGED <<headers, query, body, timeout>>

Timeout ==
  /\ Call([Nothing EXCEPT !.timeout = 1])
  /\ timeout' = 1
  /\ UNCHANGED <<headers, query, body, sent>>

-----------------------------------------------------------------------------
Defaults ==
  FoldLeft(LAMBDA map, d : Insert(map, d.name, d.value), NoHeaders, default_headers)

(* Plausible bug: the defaults are laid over the request's own headers. *)
BuiltDefaultsLast == Extend(headers, Defaults)
Built == Extend(Defaults, headers)

(* AuthInterceptor::intercept: no request without the credential. *)
Authorized(request) ==
  IF auth.value = "malformed" THEN [error |-> "Interceptor"]
  ELSE [request EXCEPT !.headers = [@ EXCEPT ![auth.name] = auth.value]]

Send ==
  LET request == [headers |-> Built, query |-> query, body |-> body, timeout |-> timeout]
  IN  /\ sent = None
      /\ sent' = IF auth = None THEN request ELSE Authorized(request)
      /\ UNCHANGED <<config, headers, query, body, timeout, calls>>

(* build_url() has failed: nothing else is looked at. *)
UrlRefused ==
  /\ sent = None
  /\ sent' = [error |-> "InvalidUrl"]
  /\ UNCHANGED <<config, headers, query, body, timeout, calls>>

Next ==
  \/ \E n \in Names, v \in {"b", "malformed"} : Header(n, v)
  \/ BearerAuth("a") \/ BearerAuth("malformed") \/ BasicAuth
  \/ \E map \in [Names -> {None, "b"}] : Headers(map)
  \/ Body \/ Timeout \/ Query(<<"q">>) \/ Query(<<"p", "q">>)
  \/ \E type \in Types : Typed(type)
  \/ \E type \in Types \ {"text"} : SerializesNot(type)
  \/ Send \/ UrlRefused

Spec == Init /\ [][Next]_vars

-----------------------------------------------------------------------------
GoesOut == sent \in Requests

(* The last of the values that test well, in the order they were asked for.     *)
LastOf(values, Test(_)) ==
  LET i == SelectLastInSeq(values, Test) IN IF i = 0 THEN None ELSE values[i]

(* What was asked of the header: by the configuration, then by the calls.       *)
Asked(n) ==
  [i \in DOMAIN default_headers |->
     Only(default_headers[i].name, default_headers[i].value)[n]]
    \o [i \in DOMAIN calls |-> calls[i].headers[n]]

(* A header goes out with the last well-formed value anybody asked for: the     *)
(* request's own before a default, a later call before an earlier one, a typed  *)
(* body's type as the method that sets it.  With an AuthInterceptor it is the   *)
(* credential: where the builder drops a malformed one with a warning, nothing  *)
(* goes out.                                                                    *)
LastWellFormedWins ==
  GoesOut => \A n \in Names :
    sent.headers[n] =
      IF auth # None /\ auth.name = n THEN auth.value
      ELSE LastOf(Asked(n), LAMBDA v : v \in WellFormed)

(* The body that goes out is the one last asked for: one that cannot be         *)
(* serialised is not replaced by an earlier one or by none.  So is the timeout; *)
(* query parameters are all kept, in order.                                     *)
BodyAsAsked ==
  GoesOut =>
    /\ sent.query = FlattenSeq([i \in DOMAIN calls |-> calls[i].query])
    /\ sent.body = LastOf([i \in DOMAIN calls |-> calls[i].body], LAMBDA b : b # None)
    /\ sent.timeout = LastOf([i \in DOMAIN calls |-> calls[i].timeout], LAMBDA t : t # None)
=============================================================================
