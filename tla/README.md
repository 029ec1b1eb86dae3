# armature-http-client in TLA+

`armature-http-client` wraps `reqwest` in a client with retries, a circuit
breaker, interceptors, a redirect policy and an egress policy. This directory
models the parts that have state, concurrency or arithmetic worth checking,
model-checks them with TLC and proves the main results with TLAPS. Paths below
are relative to the repository (`src/circuit_breaker.rs`); `PROJECT.json` maps
every definition to its lines.

## 1. The system

| component | file | state it keeps | operations |
|---|---|---|---|
| Circuit breaker | `circuit_breaker.rs` | `state` and `opened_at`, `last_failure_time` behind `RwLock`s, three `AtomicU32`s | `is_allowed`, `state`, `record_success`, `record_failure`, `reset` |
| Request execution | `client.rs` | per request: the spec, the retry loop's `attempt`, `start`, `first_request` | `execute`, `execute_with_retry`, `execute_once` |
| Redirect policy | `client.rs` | none of its own; reqwest's `previous()` | the closure of `redirect_policy` |
| Retry and backoff | `retry.rs` | none | `delay_for_attempt`, `should_retry`, `should_retry_status` |
| Interceptors | `interceptor.rs` | none (configuration) | `intercept`, `intercept_request`, `intercept_response` |
| Request builder | `request.rs` | the request being built | setters, `build_url`, `resolve_against_base`, `send` |
| Response body reader | `response.rs` | the bytes read so far | `from_reqwest`, accessors |
| Egress policy | `egress.rs` | none (configuration) | `check_url`, `resolve_name`, the address classes |
| Errors, configuration, façade | `error.rs`, `config.rs`, `lib.rs` | none | constructors, setters |

How they interact. An application shares one `HttpClient` between tasks. A
request goes `RequestBuilder::send` → `execute`: the breaker is asked **once**,
the request interceptors run once, then the retry loop calls `execute_once` per
attempt, each of which sends through reqwest (which calls the redirect policy on
every hop and the guarded resolver on every name), reads the body under a cap and
tells the breaker how it went. The response interceptors run once at the end.
The breaker is the only state requests share, and it is entered by all of them
without a lock around a whole operation.

What is hard here, and what makes each part correct:

* **Breaker**: every operation is several independent accesses to locks and
  atomics, so that decisions are made on values that are no longer true. Correct
  means: a threshold that is reached is acted on, an open circuit can be left, a
  half-open phase keeps its limit and cannot run out of slots, phases change only
  for the documented reasons.
* **Execution**: attempts, deadlines, backoff sleeps, dropped futures and errors
  of interceptors interleave with other requests' effects on the breaker. Correct
  means: attempts are bounded, every attempt carries the same request, a request
  gives up only when something is used up, and everything that started returns.
* **Redirects and egress**: each hop is judged alone, names are looked up at
  connect time and literal addresses are not; correct means the *chain* stays on
  https, at its origin and within the limit, and no barred address is ever dialed.
* **Address classes and host names**: octets, masks, embedded addresses, suffixes with and
  without dots; correct means the ranges of the documentation, read as prefixes, and
  domains, read as labels.
* **Backoff**: saturating and truncating arithmetic on the attempt's number; correct means
  that each delay follows from the one before it, up to the maximum, and none is shorter.
* **Body reader**: a bound checked piece by piece on a body whose length nobody knows;
  correct means the cap holds, is exact, and never shortens a body silently.
* **base_url**: a path is cleaned, joined, parsed and compared by prefix, each in its own
  reading of slashes, dots and blanks; correct means it stays below the base and is
  refused only for leaving it.
* **Request builder and credentials**: configuration, calls in any order and interceptors
  set the same headers and skip or refuse what is malformed; correct means the last
  well-formed value goes out, and a credential that is configured always does.

`PROJECT.json` lists every hazard at its line with the properties that cover it.

## 2. Modules

| module | models | extends or uses |
|---|---|---|
| `CircuitBreaker` | the breaker at the granularity of its memory accesses | `BreakerContract`, `AtomicBreaker` |
| `BreakerContract` | what a breaker promises: the abstract specification | |
| `BreakerOps` | the breaker's operations taken whole, as functions of its fields | |
| `AtomicBreaker` | a breaker with callers, each call of which takes effect in one step: the second abstract specification | `BreakerOps` |
| `HttpClient` | `execute` … `execute_once` at the granularity of awaits | `BreakerOps`, `Backoff` |
| `Backoff` | `BackoffStrategy::delay_for_attempt` | |
| `Attempt` | one attempt: `redirect_policy` over whole chains, `check_url`, the guarded resolver | |
| `ResponseBody` | `Response::from_reqwest`, chunk by chunk | |
| `RequestBuilder` | the builder's setters and `send`, default headers, `AuthInterceptor` | |
| `BaseUrl` | `resolve_against_base` and what it relies on in the URL parser | |
| `Addresses` | `is_internal_v4`, `is_internal_v6`, `is_loopback_ip`, `is_allowed_ip` | |
| `HostNames` | `deny_host_suffix`, `is_denied_name`, `is_localhost_name`, the name checks of `resolve_name` | |
| `AddressTables` | the documented ranges as prefixes, and addresses around their ends | `Addresses` |
| `MCFunctions` | the inputs of the pure functions, built up piece by piece, and what they are meant to compute | `Backoff`, `AddressTables`, `BaseUrl`, `HostNames` |
| `MCCircuitBreaker`, `MCHttpClient` | symmetry, inputs, and statements of comments that a run refutes | the module of that name |
| `CircuitBreakerProofs`, `HttpClientProofs`, `AttemptProofs`, `ResponseBodyProofs`, `RequestBuilderProofs` | theorems | the module of that name, TLAPS |
| `FunctionProofs`, `EgressProofs` | theorems about the pure functions: delays and paths, addresses and names | `MCFunctions`, TLAPS |
| `ListLemmas` | induction over the natural numbers, and what the folds and flattened lists of the models are | TLAPS |

### CircuitBreaker

The six fields of the struct are six variables. `pc[t]` says which access caller
`t` makes next, `instant[t]` is the `Instant` it holds in a local. One action is
one access: `CheckState`, `ReadOpenedAt`, `CheckExpiry` and `EnterHalfOpen` are
`maybe_transition_to_half_open`; `Admit` and `TakeSlot` the rest of `is_allowed`;
`SuccessState` … `Close` are `record_success`; `FailureState` … `Reopen` are
`record_failure`; `Reset` is the application. `state()` shares the transition with
`is_allowed` and ends in `StateReturns`. `Finish` and `Abandon` stand for the
caller in `client.rs`, which asks once, records once per attempt (`recorded` may
be followed by another outcome: a retry), and may record nothing at all.

*Critical sections.* `open`, `close` and the transition hold the write lock of
`state` while they touch several fields, and are one step each. Whoever reads
`state` waits for the lock. A caller that is already past its read of `state`
makes at most one access to any counter before it needs the lock again, so its
access can be placed before or after the section. The guards of reads are
dropped at the end of their statements and `opened_at` is locked for writing only
inside `state`'s lock, so no caller waits for another in a circle.

*Time.* An `Instant` is its age. `Tick` makes all of them older; an age stops at
`Horizon`, beyond every comparison the code makes (`ConfigAssumption` states
that). `duration_since` between a stored stamp and a local `now` becomes a
difference of ages. `MaxStall` bounds the time one caller spends inside
`record_failure`, so that its `now` never reaches `Horizon`.

*History variables* `probes` (slots granted in this half-open phase) and `owing`
(callers that hold one) are written and never read by the code's actions. `owing`
is what `SlotsAccounted` of the proofs is about.

*Overlap.* The breaker's methods never await. On a runtime with several worker threads
calls of different tasks overlap (`Overlapping = TRUE`); on one with a single thread, such
as the one under `#[tokio::test]`, a call that has begun ends before any other begins,
while requests still interleave between their calls. `Overlapping = FALSE` is that runtime:
`MayCall` lets nobody start a call while another caller is inside one (`InCall`).

### BreakerContract, BreakerOps and AtomicBreaker

`BreakerContract` has four variables and no callers: opening takes the threshold,
turning half-open takes the full timeout, closing takes enough successes recorded in that
half-open phase, one failure recorded in it reopens. It does not say whose outcomes these
are: the breaker is not told which request an outcome belongs to, and a request admitted
before the circuit opened may answer in the half-open phase and count in it (section 5).
`CircuitBreaker` implements the contract (`ContractSpec`) when calls do not overlap; the
refinement mapping renames fields. When they do, it does not: section 5 lists where the
code leaves it.

`BreakerOps` is the same operations without interleaving, for `HttpClient`, whose
requests await between the breaker's calls and never inside one. That it is the same
breaker is what `AtomicBreaker` is for: there a caller invokes a method, the method takes
effect in one step as `BreakerOps` says, with the answer it gives, and time may pass
before, after and in between. `CircuitBreaker` without overlap implements it (`AtomicSpec`).
The mapping is `Settled`, the fields as they are once the call under way has had the effect
it is bound to have or has taken back what it did early, and `Stage`, which of a call's two
halves a caller is in. `is_allowed` changes the breaker twice, by the transition and by
the slot, so the transition is a step of its own; taking it first does not change what the
call does next. What overlap adds inside a call is the subject of `CircuitBreaker`;
`HttpClient` is about what happens between calls.

### HttpClient

`pc[r]` is the await a request stands at: an interceptor (`intercepting`,
`responding`), an attempt on the wire (`sending`), the sleep (`backoff`). `loop` is
the head of the retry loop. A request as it goes out has a `target`, which stands
for method, url and headers, and a `body`: absent, buffered or a stream.
`Tick` ages the retry loop at `loop` too: time may pass before its first look at the
deadline (up to `MaxStall`), so that a `max_retry_time` shorter than that gives up unsent.
`Intercepted` lets the interceptors return any request. `Retry` and `Settle` are the
two ends of an attempt, on any of the `Outcomes` the run allows: statuses that
differ in how the code lists treat them (`s200`; `s408`, retried but no failure;
`s501`, a failure but not retried; `s503`, both; `s429`, which a response interceptor may
wait on), ways to fail in transit, and policy
refusals, which the breaker is not told of. `Record` is the
match in `execute_once`. `Drop` drops the future at an await, `Rebuild` is the next
request of the same task. `RetryAfter` is `RateLimitInterceptor`: after the last attempt, and
after the breaker has heard of the 429, the request sleeps for up to `RateLimitWait` more,
whatever its deadline says. Per-request timeouts are not part of a request here. The model
is of a client that has a breaker; one without it is the same loop with fewer ways to end.

### Attempt

`Attempt` is what `HttpClient` takes as one step from `sending` to an outcome. It keeps
the configuration, chosen once in `Init`, and the `chain` of URLs requested
(`previous()`). `stage` says what happens to the last of them: `connect` tells literal
addresses from names, `lookup` and `dial` are the guarded resolver and the connector
behind it, `answering` the server, which may send any `Location`; `Refuse` and `Follow`
are the checks of `redirect_policy` in their order. A URL is a scheme (http or https;
any other is refused by everything that looks at it) and a host: a class of addresses, or a
class of names as `is_localhost_name` and `is_denied_name` tell them apart. Each lookup answers
with any set of addresses, so names are free to change their answers. `rewritten` says that
an interceptor has replaced the URL after `build_url` checked it. `dialed` is a history
variable.

### ResponseBody

The server chooses the length of the body (or an endless one), whether it is declared, and
how the bytes are cut into chunks; `rest` is what it still has to send, `body` what the
client holds. `CheckDeclared` is the comparison before the loop, `Chunk` one turn of it,
`End` the end of the stream, `Fails` an error of `chunk()`: a lost connection or
`config.timeout`. Lengths are those of decoded bytes, so a compressed body has no declared
length. Contents are left out: a chunk is added at the end or the read is over.

### RequestBuilder

One action per method, in any order, then `Send` or, where `build_url` fails,
`UrlRefused`. Two header names stand for those that several places set. A value is a
token, the type of a typed body, or "malformed", which stands for a pair of name and value
that HTTP refuses: `header()` and the default headers skip it, `AuthInterceptor` returns an
error. `json()` and `form()` end the builder when they fail. `calls` is a history variable:
what each call was given, and the properties speak about that. A `HeaderMap` has one
value per name here.

### The pure functions

`Addresses` has the address classes as functions of octets and segments, in the order
of the code; `AddressTables` has the same ranges as sets of prefixes, and no order.
`HostNames` has names as sequences of dots and words, in lower case; the reference
compares labels. `BaseUrl` has paths as sequences of tokens: the code's own steps
(`Cleaned`, `IsAbsolute`, `Joined`, `AsDir`) and `Normal`, the part of the URL parser they
rely on, which is outside the repository. `Backoff` counts
durations in ticks of which a millisecond has several, so the truncation of
`as_millis` can be seen, and saturates at `DurationMax`.
`MCFunctions` chooses a function and appends one piece of its input per step; the
invariants compare the function's value with the reference in every state.

## 3. Fairness

`HttpClient!FairSpec`: interceptors return, attempts end (by `config.timeout`, 30 s by
default, `client.rs:61`), sleeps end, time passes.
Fairness is on the disjunction `Proceed`, so TLC may choose every outcome for
ever; no particular outcome is fair. Nobody is obliged to send a request:
`RecoversUnderTraffic` states the traffic it needs as its premise (`KeepAsking`). A
half-open phase in which `CallBound` stops further requests counts as one that is asked:
without that, a phase that never ends would be excluded by the bound and not by the
code. `CircuitBreaker` has no liveness of its own: what recovery needs of its single
accesses are the safety properties `NoMissedClose`, `NeverStarved` and `OpenHasTimer`.

`ResponseBody!FairSpec`: the reader goes on reading and the server goes on sending.
`Fails` is not fair: a read ends though no connection is lost and no timeout strikes. A
chunk may be empty, but fairness is on `Read`, which an empty chunk satisfies only by
stuttering: it changes nothing, so it is no step of `Read` that fairness would count.

## 4. Runs

Passing runs:

| run | instance | shows |
|---|---|---|
| `BreakerSafety` | 3 callers, thresholds and slots 2, resets | thresholds are never missed, open circuits are timed, half-open phases keep their limit and never run out of slots with nobody left to decide them |
| `BreakerSequential` | 2 callers whose calls do not overlap, threshold 3, timeout 2, abandoned requests | the breaker implements `BreakerContract`, and `AtomicBreaker`: every call is the whole operation of `BreakerOps` |
| `ClientRetries` | 2 requests, interceptors, 3 attempts, deadline, drops | attempts are bounded, carry the same request, and end only when spent |
| `ClientReturns` | 2 requests, all outcomes recorded, waits of up to 2 on a 429, fair | every request that starts returns, the breaker under the real client does not starve, and under traffic without further failures it closes again and again |
| `Attempt` | every configuration with at most 2 redirects, 6 classes of hosts | the limit is exact; the chain stays on https and at its origin; no barred address is dialed, except the literal one of a URL an interceptor put in |
| `ResponseBody` | limit 5, bodies of up to 9 bytes and endless ones, chunks of up to 8 | the buffer is capped, the limit exact, no part passes for the whole, every read ends |
| `RequestBuilder` | up to 3 calls, 2 default headers, any credential | the last well-formed header wins; body, timeout and query are the ones asked for |
| `Functions` | 288 000 addresses around the ends of all ranges, names and paths of up to 5 tokens, all strategies over 8 durations and 7 attempts | the classes are the documented prefixes, embedded addresses included, but for `3ff0::/12` in place of `3fff::/20`; names are denied by label; paths stay below the base, and are refused only for leaving it; each delay follows from the one before it up to the maximum, and none shrinks |

`BreakerSafety` takes callers that always record (`Abandonable = FALSE`), which
`NeverStarved` needs; that the other four invariants hold with abandoned requests
too is proved (section 6).

Runs that refute what a comment says. Each is a finding, quoted in `PROJECT.json`:

| run | what TLC shows |
|---|---|
| `BreakerDirectClose` | a close decided in a half-open phase closes the circuit that another caller has just reopened |
| `BreakerThresholdOne` | with threshold 1 the failure that restarts the count does not open the circuit |
| `ClientStarved` | a half-open slot whose request ends in a refusal is never given back, and the breaker refuses every call from then on |
| `DocumentedV6` | `3ff0::` is refused, which is in none of the documented ranges |

### Bounds, and why they are enough

* *Callers.* The breaker's races need a caller that acts on an old read and others
  that move the circuit on meanwhile: two to close or reopen, a third to be inside
  the new phase. The counterexamples of section 5 need two. The proofs hold for any number.
* *Thresholds* of 2 make "one short of it" and "at it" different states. The
  refinement run takes 3.
* *`ResetTimeout`, `FailureWindow`* of 1 (2 in the refinement run) with `Horizon` 3
  give before, at and after for both comparisons.
* *`CallBound`* limits the calls started within a half-open phase to one more than
  the slots, so that refused callers exist; the counter itself grows by the callers
  already under way.
* *`CounterWidth`* is out of reach in every run: a wrap takes 2^32 calls in one
  half-open phase. The theorem that needs this names it as a premise.
* *`MaxStall`* of 1 lets time pass between taking `now` and using it, and in `HttpClient`
  before a retry loop's first look at the time. There it does not exceed `MaxRetryTime`;
  with a `max_retry_time` of 0 a request may give up unsent (section 5).
* *`Overlapping`* is `FALSE` in `BreakerSequential` alone, whose two properties hold only
  then. Its two callers take turns between calls; the proofs are for any number.
* *Attempts.* 3 gives a first, a middle and a last one. With a wait of 1 between them and
  a `max_retry_time` of 3, one attempt too many would still be in time, and a slow
  attempt uses the time up: both ends of the loop are reached. `started` stops growing
  one past the deadline. With liveness, 2 attempts and a deadline of 1.
* *Outcomes.* Two bits matter to the loop and the breaker: is it retried, is it a
  failure. `s200`, `s408`, `s501`, `connect` and the refusal `egress` are their
  combinations and the one the breaker does not hear of. The other runs take fewer.
* *`FailureWindow`* 0 in `ClientRetries` keeps "within" and "after"; `ClientReturns`
  and the breaker's runs take 1. `ClientReturns` has no interceptor that can fail and no refusals,
  because they are what `NeverStarved` does not survive (`ClientStarved`).
* *Backoff.* `DurationMax` 63 is reached by both products within 7 attempts. The proofs
  hold for durations and attempts of any size.
* *`RateLimitWait`* 2 outlasts the deadline of 1 in `ClientReturns`, so the wait after it is
  one the retry loop would not have allowed. It is 0, no such interceptor, in the other runs.
* *`MaxSize`* 5: `Lengths` and `ChunkSizes` hold values below, at and above the limit, and
  chunks whose sums reach it exactly, cross it, and stop one short of it. Empty chunks are
  among them. The proofs hold for any limit.
* *`MaxCalls`* 3 and *`MaxDefaults`* 2: a header can be set by a default, overridden, and
  overridden again; a malformed value can come before, between and after well-formed ones; a
  typed body can be followed by a raw one and a failing one.
* *`PathLength`* 5 holds a climb and what it climbs to (`v1`, `/`, `..` as two dots), and
  every combination of two special tokens around it. *`NameLength`* 5 holds a label, the suffix
  and dots at either end.
* *`RedirectBound`* 2 gives limits of 0, 1 and 2, and chains in which the first, the
  previous and the next URL are three different ones; the proofs hold for any limit.
* *Addresses.* `EndsV4` and `EndsV6` hold, segment by segment, the first and last value of
  every range and their neighbours, and whole addresses are all their combinations. A
  range is decided by comparisons of single segments with these values, so two addresses
  between the same ends are treated alike. The theorems are about all addresses.

`CHECK_DEADLOCK FALSE` appears where a behaviour ends: the last attempt of
`MCFunctions` or the last piece of another input, a finished `Attempt`, a body that has been
read, a request that has been sent. Symmetry is used in
safety runs only.

## 5. Where the code leaves its comments

Four divergences have a run. The others met while modelling are listed with a
statement that the modules refute: TLC finds each within seconds on two callers or
one request. They are not kept as runs, because they say nothing new about the
structure of the code; each is a place where a fix would start.

| place | the comment says | the code does | refuted statement |
|---|---|---|---|
| `circuit_breaker.rs:227` | half-open "if timeout has elapsed" (215) | the expiry is checked before the write lock; a circuit probed and reopened meanwhile turns half-open at once | `[][state = "Open" /\ state' = "HalfOpen" => opened_at >= ResetTimeout]_vars` |
| `circuit_breaker.rs:182` | "consecutive failures to open" (23) | one failure that saw the half-open circuit opens it after others closed it | `[][\A t \in Callers : Reopen(t) /\ state = "Closed" => failure_count >= FailureThreshold]_vars` |
| `circuit_breaker.rs:137` | "limited requests are allowed for testing" (16) | successes of requests admitted before the circuit opened close it with no test request answered | `[][state = "HalfOpen" /\ state' = "Closed" => probes > Cardinality(owing)]_vars`, also without overlap |
| `circuit_breaker.rs:143` | "should not happen" (144) | successes arrive while the circuit is open | `[][\A t \in Callers : SuccessState(t) => state # "Open"]_vars` |
| `circuit_breaker.rs:178` | "most recent recorded failure" (84) | an earlier stamp overwrites a later one | `[][\A t \in Callers : StampFailure(t) => last_failure_time = None \/ instant[t] <= last_failure_time]_vars` |
| `circuit_breaker.rs:170` | reset "once `failure_window` has elapsed" (84-86) | two restarts store 1 twice and lose a failure | `[][\A t \in Callers : RestartCount(t) => last_failure_time > instant[t] + FailureWindow]_vars` |
| `circuit_breaker.rs:123` | "automatic recovery" (`lib.rs:9`) | `success_threshold` above `half_open_requests`: half-open for ever | `NeverStarved` with these constants |
| `circuit_breaker.rs:122` | "requests to allow in half-open state" (29) | refused calls are counted in a `u32` that wraps | `HalfOpenLimit` with a small `CounterWidth` |
| `client.rs:305` | open: "requests are rejected" (`circuit_breaker.rs:14`) | a request retries against the circuit its own attempts opened | `[][\A r \in Requests : Send(r) => breaker.state # "Open"]_vars` |
| `client.rs:297` | `RetryExhausted`: "after all retries exhausted" (`error.rs:13`) | it means out of time, with attempts left | `result[r] = "RetryExhausted" => sends[r] >= MaxAttempts` |
| `client.rs:295` | `RetryExhausted`: "after all retries exhausted" (`error.rs:13`) | a `max_retry_time` that is over before the first attempt, always so with 0, sends nothing and keeps the half-open slot | `NeverStarved` with `MaxRetryTime = 0` |
| `client.rs:488` | failure statuses "mirror" the retried ones (484) | 408 is retried and recorded as a success | `Retry(r, s) => Record(breaker, s) = Ops!RecordFailure(breaker)` |
| `client.rs:325` | delays are "0-indexed" (`retry.rs:145`) | the first retry waits for the delay of attempt 1 | `Retry(r, o) /\ attempt[r] = 0 => wait'[r] = DelayForAttempt(Backoff, 0)` |
| `client.rs:355` | "Number of attempts made" (`error.rs:16`) | the counter is already ahead when the loop breaks: one more is reported | `[][\A r \in Requests : GiveUp(r) => attempt[r] + 1 = sends[r]]_vars` |
| `client.rs:217` | any mutation "is preserved across every retry attempt" (202-203) | a timeout set by an interceptor reaches the first attempt only | not stated: timeouts are left out of `HttpClient` |
| `request.rs:303` | a path is "*appended* to the base path" (255) | the base keeps its slashes in the comparison and loses them in the join: with `/v1//` the path `x` is refused | `BaseAdmits` with `<<"/", "v1", "/", "/">>` in `Bases` |
| `request.rs:275` | a check of "the path the way the parser will see it" (271) | a backslash in the query, which the parser leaves alone, is rewritten too | not stated: the query is cut off in `BaseUrl` |
| `request.rs:88` | "Set the request body as raw bytes" (87) | after `json()` the raw body still goes out as `application/json` | `[][Body => headers'["content-type"] = None]_vars` |
| `request.rs:49` | request headers "take precedence" over defaults (234) | after a malformed `bearer_auth` the default credential goes out | `GoesOut /\ auth = None /\ calls # <<>> /\ calls[Len(calls)].headers["authorization"] = "malformed" => sent.headers["authorization"] = None` |
| `egress.rs:225` | refuses "host names ending in `suffix`" (222) | a suffix with a dot at its end matches nothing: names lose theirs | `NamesDenied` for `<<"local", ".">>`, with the root's dot dropped from the reference's domain |
| `client.rs:218` | the literal checks "must run on every request URL before it is sent" (`egress.rs:32`) | a URL put in by an interceptor is not checked again | `OnlyAllowedDialed` without its exception for `rewritten` |
| `retry.rs:160` | "initial delay" (135) | a delay below a millisecond becomes none | `attempt = 0 => Delay = Shortest(strategy.initial, strategy.max)` |

## 6. Proofs

All hold for every value of the constants that the named `ASSUME` of the module
admits. `tlapm` checks them with Z3, Zenon and LS4.

**CircuitBreakerProofs.** `TypeCorrect` is inductive as it stands.
`NoTripMissed` and `NoCloseMissed` are inductive relative to `TypeOK`: a count can
reach its threshold only in `CountFailure` / `CountSuccess`, which leave the caller
at `trip` / `close`; a caller can leave these points only through the section that
changes `state`, and no other action raises the count while the state stays. The
first needs `FailureThreshold > 1`: `BreakerThresholdOne` is the counterexample at
1. Most actions move a caller between two other points and touch none of this;
`ObservingStep` and `StepCases` say that once for all of them.
`HalfOpenLimited` needs `SlotsCounted`: in a half-open phase the number of slots
granted is at most the counter and at most the limit. It is proved under the
premise `[]NoWrap`, that the counter does not reach its width (section 5 for what
happens without it). The premise is not vacuous: `CallBound` keeps every
passing run under it.
`SlotsNeverStarve` needs `SlotsAccounted`: every call counted in this phase is either
owed by a caller or counted as a success, so a phase with no slot left and nobody in
progress would have its successes, hence a caller at `close`. It assumes that nothing
is abandoned and that `success_threshold` is between 1 and `half_open_requests`; `ClientStarved`
and `success_threshold` above `half_open_requests` (section 5) are the two ways of breaking this.
`KeepsContract` is the refinement of `BreakerContract`, step by step, for any number of
callers whose calls do not overlap. It says of a close that enough successes were recorded
since the circuit turned half-open, not that they are test requests'. It needs `NoOverlap` (at most one caller is inside a
call, kept by `StepKeepsApart`) and `DecisionsHold`: what the caller inside has read is
still true when it acts on it, so the state it saw is the state it changes, the stamp it
compares is the stamp of the open circuit, and a threshold it found reached is reached.
Each line of it (`StillTrue`) is what an overlapping caller could falsify, which is the premise's
reason (`BreakerDirectClose` is two such callers). The threshold is at least 2, for the reason of
`NoTripMissed`; `reset()` is no step of the contract and is left out.
`CallsAreAtomic` is the refinement of `AtomicBreaker` under the same `NoOverlap` and
`DecisionsHold`. Each call has one access that stands for it. What
comes before is taken back by `Settled`: the increment of a caller at `trip` or `close` has
not happened yet, because the operation either counts or opens. What comes after is
anticipated: a caller at `stamp` has already stamped. `WindowKept` is why comparing the stamps
of an old `now` gives the answer of the whole operation, whatever time has passed inside the
call. The premise `CallBound < CounterWidth` keeps `half_open_count` from wrapping, which
whole operations count without a width.

**HttpClientProofs.** `AttemptsAreBounded` needs `AttemptsCounted`, which ties `sends`
to `attempt` at every await: equal before a send, one ahead after it, and a retry
only below the limit. `AttemptsCarryTheSame` needs `SpecKept`: what has been sent is
what `first` or `spec` will send next, and a stream is never in `first` when another
attempt is possible. `EndsWhenSpent` is inductive relative to `AttemptsCounted`: the
counter at the refusal to retry is one less than the attempts on the wire.
`TypeCorrect` needs `BreakerTyped`, that the breaker's whole operations keep the types of its
fields. Its premise is that the backoff yields a delay, a natural number, for every attempt;
`StrategyDelays` of `FunctionProofs` shows that of every strategy.
`ClientNeverStarves` needs `SlotsHeld`: in a half-open phase the counter is at most the
successes of the phase plus the requests whose first attempt has no answer yet
(`Unanswered`), or the phase has as many of the two as it has slots. A slot is taken by
asking, moves to nobody else, and is given back by recording an outcome:
`AskingHoldsSlot` and its neighbours say so of the breaker's operations, `FirstAttemptFree`
that a request that has sent nothing has spent no more than `MaxStall`, and so cannot have
given up for time. Its premises are those of the run: no interceptor that fails, no dropped
future, no refusal (`ClientStarved` is what happens with one), `success_threshold` between 1
and `half_open_requests`, and a `max_retry_time`, if there is one, of at least `MaxStall`:
with a shorter one a request may give up before its first attempt and keep its slot.

**ResponseBodyProofs.** All three theorems follow from `Accounted`: bytes held and bytes to
come make up the body, and a verdict agrees with its length. None of the three is
inductive alone: `WholeBody` needs the sum, `LimitExact` needs it before the chunk that is
refused.

**AttemptProofs.** `ChainSafe` states three properties of a chain together with its
type; `HopKeepsChain` shows that a followed hop keeps it: what the policy compares with
the last or the first URL carries over to every pair. Three theorems are its parts;
`LimitIsExact` follows from it, because a chain within the limit that is over it has
exactly the limit. `DialsAreAllowed` needs `NothingBarred`: not only what has been dialed is
allowed, but also every answer still waiting to be dialed, and every literal address of
the chain, which `ClearedLiteral` derives from `check_url`. The literal address of a URL
that an interceptor put in is excepted throughout (`Spared`), because the code does dial it.

**RequestBuilderProofs.** The properties speak of a request that has been sent, and nothing
about it is known before, so neither is inductive. `BuilderInv` is about the builder:
while nothing is sent each field *answers* the calls made so far (`Answers`): the header
map, laid over the defaults, has of each name the last well-formed value in the list of what
configuration and calls asked for; the query is the calls' pairs glued together; body and
timeout are the last ones asked for. `CallAnswers` is the step: a method appends one call to
the lists, and every field changes as `LastOf` and `FlattenSeq` of a list with one more at
its end (`ListLemmas`). The defaults are a fold of the code's `Insert`; `DefaultsAre`, by
induction on the number of default headers, makes them the first part of that list.
`HeadersAsAsked` and `RestAsAsked` then hold at `Send`, for any number of calls and of
defaults; the only assumption is that `None` is none of the values.

**EgressProofs**, of addresses. `V4Refused` and `V6Refused` compare the code's masks, octets and early
returns with the tables for *all* addresses, not those around the ends of ranges: a prefix of
`n` bits is an interval of one, two or three segments (`OneSegment` and the lemmas after it),
a mask is a division, and the early returns hide nothing because what they return for is
disjoint from the ranges behind them (`Disjoint`) or is embedded. `V6Refused` names the one
range that is wider than its documentation, `WiderV6`, which holds it (`WiderCovers`). The
three theorems about the run's properties add `AddressTyped`: what `MCFunctions` puts together is octets or segments.

**EgressProofs**, of names. `LabelsDecide` is about every domain and every name. The code
compares characters from the end of a name, `NamesDenied` labels. One token more at the end of
a name is one step more of `Split` (`SplitAppend`), so two splits end alike just if the last
tokens are the same and the splits before them end alike (`StepsEndAlike`); by induction on
the length of the domain, the labels of a name end with those of the domain just if the domain
stands at its end, whole or behind a dot (`SplitsEndAlike`). The dot a suffix may begin with
and the root's at the end of a name are what `DomainLabelsAre` and `NameLabelsAre` are for.

**FunctionProofs**, of delays. `Powi` is a recursive function over the naturals. That it exists, and
so is the function its definition chooses, is proved by building it up to each number
(`PowersToExist`, `PowersToAgree`); powers of whole multipliers do not shrink, products and
their saturation preserve the order. `DelaysGrowToCap` rests on `CutSums` and `CutProducts`:
with a maximum no longer than `Duration::MAX` it makes no difference whether a product is
saturated and cut once at the end or after every factor. Both theorems take multipliers to be
whole numbers of at least 1, without which exponential backoff shrinks by design. The
invariant of both, `AttemptsInTurn`, is that a strategy is asked for attempts 0, 1, 2 and so on.

**FunctionProofs**, of paths. `ResolveConfines` is about every base and every path, of any
length and any tokens. `AsDir` puts a slash behind both paths before they are compared as
characters; so the base without its trailing slashes begins the resolved path, and is all of
it or is followed by a slash there. `SplitPrefix` turns that into segments: what is closed by
a separator splits into the first segments of whatever follows. The rest is that nothing on
the way leaves the tokens (`CleanedTyped`, `JoinedTyped`, `NormalTyped`). What the walk over
dot segments makes of a path does not matter: the theorem rests on the comparison that comes
after it, as the code does. `PathsStayBelowBase` adds `PathsOfTokens`, the invariant of what
the run puts together.

`ResolveAdmits` is the converse, for every base path made of words and every path that
names no authority or scheme and never climbs above its start. Nothing the code or the parser
trims or cuts off reaches into the base (`TrimEndBehind`, `BeforeBehind`), so the segments
of the whole are the base's and then the path's own (`SplitGlued`). The walk starts with the
base's words, which it keeps (`WordsArePlain`), and then stands below them by as many segments
as the path has names more than climbs (`WalkStaysUnder`, with `Depth`): as that is never
negative, no climb pops a segment of the base. What is left begins with the base, a slash and
something more (`SlashedBehind`), which is what `AsDir` compares. `PathsAreAdmitted` adds
`PathsOfTokens` and that the run's bases are such base paths. A base with slashes doubled at its end
is not one of them; section 5 says what happens with it.

*Induction.* `ListLemmas!Induction` is induction over a **set** of naturals. It
follows from the well-foundedness of `<` (`WFMin`), so no theorem with an operator as a
parameter is used, and each property to be proved by induction is stated as membership in such
a set; `SequencesGrow` does the same for sequences that grow at their end. What a fold computes is reached the same way: the function that `FoldLeft` or
`FlattenSeq` chooses is shown to exist, and its values are compared index by index.

Only model-checked: liveness (`RecoversUnderTraffic`, `EveryRequestReturns`, `ReadEnds`),
which the prover does not reach. Every safety invariant and both refinements of the
passing runs are theorems.

## 7. Environment

reqwest, the servers and the application's interceptors are not in the repository.
They appear as choices: any outcome of an attempt, any redirect target, any request
out of an interceptor, an error of it, a dropped future. The `RwLock`s and the
atomics, all of them `SeqCst`, are taken as linearisable single accesses.

## 8. Not modelled

* Accessors, verbs, `Display` texts, logging (`LoggingInterceptor`): no state, or set once. Of
  the configuration's setters only `default_header` is more than a constant.
* Contents: of bodies, of queries, of headers other than the two that several places set.
* Several values of one header; per-request timeouts inside `HttpClient`.
* reqwest's connection pool and TLS, and the URL parser apart from what `BaseUrl` needs of
  it (paths; a base in a special scheme): outside the repository.
* The stand-alone `EgressPolicy::resolve`: the same checks in one call.
* `delay_for_attempt` beyond attempts the retry loop reaches (`attempt as i32`,
  `attempt + 1` at `u32::MAX`), and fractional multipliers.

## 9. Plan

1. Done: all modules of section 2, their runs and first proofs.
2. `Attempt` and `ResponseBody` as the environment of `HttpClient`: the outcomes of an
   attempt as the verdicts of its chain and its body, and `from_reqwest`'s classification of
   them.
3. Done: `BreakerOps` linked to `CircuitBreaker` (`CallsAreAtomic`), for calls that do not
   overlap. Open: the same for `HttpClient` over the breaker of single accesses, where
   calls do.
4. Timeouts per request in `HttpClient`, with the interceptors' changes to them.
5. Done: proofs of every safety invariant the runs check.
