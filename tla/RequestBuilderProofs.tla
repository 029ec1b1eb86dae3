------------------------ MODULE RequestBuilderProofs ------------------------
(***************************************************************************)
(* That a request carries what was asked for, for any number of calls of   *)
(* the builder's methods and of default headers.  Before the request is    *)
(* sent nothing says what it will carry, so the invariant is about the     *)
(* builder: while nothing is sent, each of its fields answers the calls    *)
(* made so far (Answers).  A method appends one call to the history: what  *)
(* the last fitting value of a list is, and what a flattened list is, when *)
(* the list has grown by one (ListLemmas), shows that it keeps answering.  *)
(***************************************************************************)
EXTENDS RequestBuilder, ListLemmas

(* What a call of a method can be given. *)
Calls == [headers : [Names -> Values \cup {None}], query : Seq({"p", "q"}),
          body : Bodies, timeout : {None, 1}]

(* The types that matter: every header asked for is a value or none. *)
TypedBuilder ==
  /\ default_headers \in Seq(Settings) /\ auth \in Settings \cup {None}
  /\ headers \in HeaderMaps /\ query \in Seq({"p", "q"})
  /\ body \in Bodies /\ timeout \in {None, 1}
  /\ calls \in Seq(Calls)

(* What LastOf selects. *)
Fitting(values, S) == AtLast(values, {i \in 1..Len(values) : values[i] \in S}, None)

(* What fits last in a list with one more at its end. *)
LEMMA FittingAppend ==
  ASSUME NEW s, NEW t, NEW S, Len(s) \in Nat, Len(t) = Len(s) + 1,
         \A i \in 1..Len(s) : s[i] = t[i]
  PROVE  Fitting(t, S) = IF t[Len(t)] \in S THEN t[Len(t)] ELSE Fitting(s, S)
<1> DEFINE I == {i \in 1..Len(s) : s[i] \in S}
           J == {i \in 1..Len(t) : t[i] \in S}
           n == Len(s)
<1>1. n \in Nat /\ \A i \in 1..n : s[i] = t[i]
  OBVIOUS
<1>2. OneMore(s, I, t, J, n)
  BY DEF OneMore
<1>2a. Len(t) = n + 1 /\ (n + 1 \in J <=> t[n + 1] \in S)
  OBVIOUS
<1> HIDE DEF I, J, n
<1>3. AtLast(t, J, None) = IF n + 1 \in J THEN t[n + 1] ELSE AtLast(s, I, None)
  BY <1>1, <1>2, AtLastAppend
<1> QED BY <1>2a, <1>3 DEF Fitting, I, J

(* In an empty list nothing fits. *)
LEMMA FittingNothing ==
  ASSUME NEW s, NEW S, Len(s) = 0
  PROVE  Fitting(s, S) = None
<1>1. {i \in 1..Len(s) : s[i] \in S} = {}
  OBVIOUS
<1> QED BY <1>1 DEF Fitting, AtLast

-----------------------------------------------------------------------------
(* What the pair d sets of the header n. *)
Value(d, n) == Only(d.name, d.value)[n]
(* f folds Insert over the pairs of d, from the greatest index down. *)
Folds(d, f) ==
  f = [t \in SUBSET (DOMAIN d) |->
         IF t = {} THEN NoHeaders
         ELSE Insert(f[t \ {Max(t)}], d[Max(t)].name, d[Max(t)].value)]

(* The function that the fold over the defaults chooses exists. *)
LEMMA FoldExists ==
  ASSUME NEW d, NEW n \in Nat, DOMAIN d = 1..n
  PROVE  \E f : Folds(d, f)
<1> DEFINE F(k, f) == f = [t \in SUBSET (1..k) |->
                             IF t = {} THEN NoHeaders
                             ELSE Insert(f[t \ {Max(t)}], d[Max(t)].name, d[Max(t)].value)]
           S == {k \in Nat : \E f : F(k, f)}
<1>1. 0 \in S
  <2>1. \A t \in SUBSET (1..0) : t = {}
    OBVIOUS
  <2>2. F(0, [t \in SUBSET (1..0) |-> NoHeaders])
    BY <2>1
  <2> QED BY <2>2
<1>2. ASSUME NEW k \in Nat, k \in S PROVE k + 1 \in S
  <2>1. PICK f : F(k, f)
    BY <1>2
  <2> DEFINE g == [t \in SUBSET (1..(k + 1)) |->
                     IF k + 1 \in t THEN Insert(f[t \ {k + 1}], d[k + 1].name, d[k + 1].value)
                     ELSE f[t]]
  <2>2. ASSUME NEW t \in SUBSET (1..(k + 1))
        PROVE  g[t] = IF t = {} THEN NoHeaders
                      ELSE Insert(g[t \ {Max(t)}], d[Max(t)].name, d[Max(t)].value)
    <3>1. CASE k + 1 \in t
      <4>1. Max(t) = k + 1
        <5>1. \A m \in Nat : t \subseteq 1..m /\ m \in t => Max(t) = m
          BY MaxIs
        <5> QED BY <3>1, <5>1
      <4>2. t \ {k + 1} \in SUBSET (1..(k + 1)) /\ k + 1 \notin t \ {k + 1}
        OBVIOUS
      <4>3. g[t \ {k + 1}] = f[t \ {k + 1}]
        BY <4>2
      <4> QED BY <3>1, <4>1, <4>3
    <3>2. CASE k + 1 \notin t
      <4>1. t \in SUBSET (1..k)
        BY <3>2
      <4>2. t # {} => Max(t) \in t
        BY <4>1, MaxOf
      <4>3. t \ {Max(t)} \in SUBSET (1..(k + 1)) /\ k + 1 \notin t \ {Max(t)}
        BY <3>2
      <4>4. g[t] = f[t] /\ g[t \ {Max(t)}] = f[t \ {Max(t)}]
        BY <3>2, <4>3
      <4>5. f[t] = IF t = {} THEN NoHeaders
                   ELSE Insert(f[t \ {Max(t)}], d[Max(t)].name, d[Max(t)].value)
        BY <2>1, <4>1
      <4> QED BY <4>4, <4>5
    <3> QED BY <3>1, <3>2
  <2>3. F(k + 1, g)
    BY <2>2
  <2> HIDE DEF g, F
  <2> QED BY <2>3
<1> HIDE DEF S
<1>3. n \in S
  BY <1>1, <1>2, Induction
<1> QED BY <1>3 DEF S, Folds

(* The default headers: of each, the last well-formed value. *)
LEMMA DefaultsAre ==
  ASSUME NEW d \in Seq(Settings), NEW f, Folds(d, f), NEW name \in Names
  PROVE  f[DOMAIN d] \in HeaderMaps
         /\ f[DOMAIN d][name] = Fitting([i \in DOMAIN d |-> Value(d[i], name)], WellFormed)
<1> DEFINE some(k) == [i \in 1..k |-> Value(d[i], name)]
           S == {k \in Nat : k <= Len(d) =>
                   f[1..k] \in HeaderMaps /\ f[1..k][name] = Fitting(some(k), WellFormed)}
<1>0. DOMAIN d = 1..Len(d) /\ Len(d) \in Nat
  OBVIOUS
<1>1. 0 \in S
  <2>1. 1..0 = {} /\ {} \in SUBSET (DOMAIN d)
    OBVIOUS
  <2>2. f[1..0] = NoHeaders
    BY <2>1 DEF Folds
  <2>3. Len(some(0)) = 0
    OBVIOUS
  <2>4. Fitting(some(0), WellFormed) = None
    BY <2>3, FittingNothing
  <2> QED BY <2>2, <2>4 DEF NoHeaders, HeaderMaps
<1>2. ASSUME NEW k \in Nat, k \in S PROVE k + 1 \in S
  <2> SUFFICES ASSUME k + 1 <= Len(d)
               PROVE  /\ f[1..(k + 1)] \in HeaderMaps
                      /\ f[1..(k + 1)][name] = Fitting(some(k + 1), WellFormed)
    OBVIOUS
  <2>1. f[1..k] \in HeaderMaps /\ f[1..k][name] = Fitting(some(k), WellFormed)
    BY <1>2
  <2>2. Max(1..(k + 1)) = k + 1 /\ (1..(k + 1)) \ {k + 1} = 1..k /\ 1..(k + 1) # {}
    <3> DEFINE m == k + 1
    <3>1. m \in Nat /\ 1..m \subseteq 1..m /\ m \in 1..m
      OBVIOUS
    <3>2. \A i : i \in (1..m) \ {m} <=> i \in 1..k
      OBVIOUS
    <3> HIDE DEF m
    <3>3. Max(1..m) = m
      BY <3>1, MaxIs
    <3>4. (1..m) \ {m} = 1..k /\ 1..m # {}
      BY <3>1, <3>2, Zenon
    <3> QED BY <3>3, <3>4 DEF m
  <2>3. 1..(k + 1) \in SUBSET (DOMAIN d)
    BY <1>0
  <2>4. f[1..(k + 1)] = Insert(f[1..k], d[k + 1].name, d[k + 1].value)
    BY <2>2, <2>3 DEF Folds
  <2>5. d[k + 1] \in Settings
    BY <1>0
  <2>6. Fitting(some(k + 1), WellFormed) =
          IF Value(d[k + 1], name) \in WellFormed THEN Value(d[k + 1], name)
          ELSE Fitting(some(k), WellFormed)
    <3>1. /\ Len(some(k)) = k /\ Len(some(k + 1)) = k + 1
          /\ \A i \in 1..k : some(k)[i] = some(k + 1)[i]
      OBVIOUS
    <3>2. some(k + 1)[k + 1] = Value(d[k + 1], name)
      OBVIOUS
    <3> DEFINE s == some(k)
               t == some(k + 1)
    <3>3. /\ Len(s) \in Nat /\ Len(t) = Len(s) + 1 /\ t[Len(t)] = Value(d[k + 1], name)
          /\ \A i \in 1..Len(s) : s[i] = t[i]
      BY <3>1, <3>2
    <3> HIDE DEF s, t
    <3>4. Fitting(t, WellFormed) =
            IF t[Len(t)] \in WellFormed THEN t[Len(t)] ELSE Fitting(s, WellFormed)
      BY <3>3, FittingAppend
    <3> QED BY <3>3, <3>4 DEF s, t
  <2>7. Value(d[k + 1], name) = IF d[k + 1].name = name THEN d[k + 1].value ELSE None
    BY <2>5 DEF Value, Only, NoHeaders, Settings
  <2>8. d[k + 1].value \in {"a", "malformed"} /\ d[k + 1].name \in Names
    BY <2>5 DEF Settings
  <2>9. None \notin WellFormed /\ "malformed" \notin WellFormed /\ "a" \in WellFormed
    BY BuilderAssumption DEF Values, WellFormed, Types
  <2>10. CASE d[k + 1].value = "malformed"
    <3>1. f[1..(k + 1)] = f[1..k]
      BY <2>4, <2>10 DEF Insert
    <3> QED BY <2>1, <2>6, <2>7, <2>9, <2>10, <3>1
  <2>11. CASE d[k + 1].value = "a"
    <3>1. f[1..(k + 1)] = [f[1..k] EXCEPT ![d[k + 1].name] = "a"]
      BY <2>4, <2>11 DEF Insert
    <3> QED BY <2>1, <2>6, <2>7, <2>8, <2>9, <2>11, <3>1 DEF HeaderMaps
  <2> QED BY <2>8, <2>10, <2>11
<1> HIDE DEF S
<1>3. Len(d) \in S
  BY <1>0, <1>1, <1>2, Induction
<1> QED BY <1>0, <1>3 DEF S
-----------------------------------------------------------------------------
(* Defaults is a fold over the sets of the configured headers' indices. *)
LEMMA DefaultsFold ==
  Defaults = (CHOOSE f : Folds(default_headers, f))[DOMAIN default_headers]
BY DEF Defaults, FoldLeft, MapThenFoldSet, Folds

(* The defaults depend on the configuration alone. *)
LEMMA DefaultsSame ==
  ASSUME default_headers' = default_headers
  PROVE  Defaults' = Defaults
<1>1. Defaults' = (CHOOSE f : Folds(default_headers', f))[DOMAIN default_headers']
  BY DEF Defaults, FoldLeft, MapThenFoldSet, Folds
<1> QED BY <1>1, DefaultsFold

(* The last well-formed value that the property selects. *)
LEMMA LastWellFormed ==
  ASSUME NEW s
  PROVE  LastOf(s, LAMBDA v : v \in WellFormed) = Fitting(s, WellFormed)
BY DEF LastOf, SelectLastInSeq, Fitting, AtLast

(* The last value given at all, where the others are none. *)
LEMMA LastGiven ==
  ASSUME NEW S, NEW s \in Seq(S \cup {None}), None \notin S
  PROVE  LastOf(s, LAMBDA v : v # None) = Fitting(s, S)
<1>1. {i \in 1..Len(s) : s[i] # None} = {i \in 1..Len(s) : s[i] \in S}
  OBVIOUS
<1> QED BY <1>1 DEF LastOf, SelectLastInSeq, Fitting, AtLast

(* What the calls asked for, of each kind. *)
Queries == [i \in DOMAIN calls |-> calls[i].query]
BodiesAsked == [i \in DOMAIN calls |-> calls[i].body]
TimeoutsAsked == [i \in DOMAIN calls |-> calls[i].timeout]

(* The builder answers the calls made of it. *)
Answers ==
  /\ \A n \in Names : Built[n] = Fitting(Asked(n), WellFormed)
  /\ query = FlattenSeq(Queries)
  /\ body = Fitting(BodiesAsked, Bodies \ {None})
  /\ timeout = Fitting(TimeoutsAsked, {1})

(* No value asked for is the absent one. *)
LEMMA NoneIsNothing ==
  /\ None \notin WellFormed /\ None # "malformed" /\ "malformed" \notin WellFormed
  /\ None \notin Bodies \ {None} /\ None # "raw" /\ Types \subseteq WellFormed
  /\ {"a", "b", "basic"} \subseteq WellFormed /\ None # 1
BY BuilderAssumption DEF Values, WellFormed, Types

(* Of one header, what each of the configured pairs sets. *)
DefaultValues(n) == [i \in DOMAIN default_headers |-> Value(default_headers[i], n)]

(* The configured defaults are of each header the last well-formed value. *)
LEMMA DefaultsTyped ==
  ASSUME TypedBuilder
  PROVE  /\ Defaults \in HeaderMaps
         /\ \A n \in Names : Defaults[n] = Fitting(DefaultValues(n), WellFormed)
<1>1. default_headers \in Seq(Settings) /\ Len(default_headers) \in Nat
      /\ DOMAIN default_headers = 1..Len(default_headers)
  BY DEF TypedBuilder
<1>2. \E f : Folds(default_headers, f)
  BY <1>1, FoldExists
<1>3. PICK f : Folds(default_headers, f) /\ Defaults = f[DOMAIN default_headers]
  BY <1>2, DefaultsFold
<1>4. \A n \in Names :
        /\ f[DOMAIN default_headers] \in HeaderMaps
        /\ f[DOMAIN default_headers][n] =
             Fitting(DefaultValues(n), WellFormed)
  BY <1>1, <1>3, DefaultsAre DEF DefaultValues
<1>5. Names # {}
  BY DEF Names
<1> QED BY <1>3, <1>4, <1>5

(* A new builder answers for the defaults alone. *)
LEMMA InitAnswers ==
  ASSUME TypedBuilder, headers = NoHeaders, query = <<>>, body = None, timeout = None,
         calls = <<>>
  PROVE  Answers
<1>1. ASSUME NEW n \in Names PROVE Built[n] = Fitting(Asked(n), WellFormed)
  <2>1. Built[n] = Defaults[n]
    BY DEF Built, Extend, NoHeaders
  <2>2. Asked(n) = DefaultValues(n)
    BY DEF Asked, DefaultValues, Value, TypedBuilder
  <2> QED BY <2>1, <2>2, DefaultsTyped
<1>2. Queries = <<>> /\ BodiesAsked = <<>> /\ TimeoutsAsked = <<>>
  BY DEF Queries, BodiesAsked, TimeoutsAsked
<1>3. FlattenSeq(<<>>) = <<>>
  BY DEF FlattenSeq
<1>4. \A S : Fitting(<<>>, S) = None
  BY FittingNothing
<1> QED BY <1>1, <1>2, <1>3, <1>4 DEF Answers

-----------------------------------------------------------------------------
(* A call that does to the builder what it was given for keeps the answers. *)
LEMMA CallAnswers ==
  ASSUME TypedBuilder, Answers, NEW given \in Calls, calls' = Append(calls, given),
         UNCHANGED config, headers' \in HeaderMaps,
         \A n \in Names : headers'[n] = IF given.headers[n] \in WellFormed
                                        THEN given.headers[n] ELSE headers[n],
         query' = query \o given.query,
         body' = IF given.body # None THEN given.body ELSE body,
         timeout' = IF given.timeout # None THEN given.timeout ELSE timeout
  PROVE  Answers'
<1> DEFINE k == Len(calls)
<1>0. /\ calls \in Seq(Calls) /\ k \in Nat /\ DOMAIN calls = 1..k
      /\ Len(calls') = k + 1 /\ DOMAIN calls' = 1..(k + 1) /\ calls'[k + 1] = given
      /\ \A i \in 1..k : calls'[i] = calls[i]
  BY DEF TypedBuilder
<1>a. default_headers' = default_headers /\ Defaults' = Defaults
  BY DefaultsSame DEF config
<1> HIDE DEF k
<1>1. ASSUME NEW n \in Names PROVE Built'[n] = Fitting(Asked(n)', WellFormed)
  <2> DEFINE s == Asked(n)
             t == Asked(n)'
             d == Len(default_headers)
             a == [i \in DOMAIN default_headers |->
                     Only(default_headers[i].name, default_headers[i].value)[n]]
             b == [i \in DOMAIN calls |-> calls[i].headers[n]]
             c == [i \in DOMAIN calls' |-> calls'[i].headers[n]]
  <2>1. s = a \o b /\ t = a \o c
    BY <1>a DEF Asked
  <2>2. /\ d \in Nat /\ DOMAIN a = 1..d /\ Len(a) = d
    BY DEF TypedBuilder
  <2>3. /\ Len(b) = k /\ Len(c) = k + 1 /\ DOMAIN b = 1..k /\ DOMAIN c = 1..(k + 1)
        /\ \A i \in 1..k : b[i] = c[i]
        /\ c[k + 1] = given.headers[n]
    BY <1>0
  <2> HIDE DEF a, b, c, d, s, t
  <2>5. /\ Len(s) \in Nat /\ Len(t) = Len(s) + 1 /\ t[Len(t)] = given.headers[n]
        /\ \A i \in 1..Len(s) : s[i] = t[i]
    <3>1. OneLonger(b, c) /\ Len(a) \in Nat /\ DOMAIN a = 1..Len(a) /\ Len(c) = k + 1
      BY <1>0, <2>2, <2>3 DEF OneLonger
    <3>2. OneLonger(a \o b, a \o c) /\ (a \o c)[Len(a \o c)] = c[Len(c)]
      BY <3>1, ConcatGrows
    <3> QED BY <2>1, <2>3, <3>1, <3>2 DEF OneLonger
  <2>6. Fitting(t, WellFormed) =
          IF t[Len(t)] \in WellFormed THEN t[Len(t)] ELSE Fitting(s, WellFormed)
    BY <2>5, FittingAppend
  <2>7. Built[n] = Fitting(s, WellFormed)
    BY DEF Answers, s
  <2>8. Built[n] = IF headers[n] = None THEN Defaults[n] ELSE headers[n]
    BY DEF Built, Extend
  <2>9. Built'[n] = IF headers'[n] = None THEN Defaults[n] ELSE headers'[n]
    BY <1>a DEF Built, Extend
  <2>10. Built'[n] = Fitting(t, WellFormed)
    BY <2>5, <2>6, <2>7, <2>8, <2>9, NoneIsNothing
  <2> QED BY <2>10 DEF t
<1>2. query' = FlattenSeq(Queries')
  <2> DEFINE s == Queries
             t == Queries'
  <2>1. /\ Len(s) = k /\ Len(t) = k + 1 /\ t[k + 1] = given.query
        /\ \A i \in 1..k : s[i] = t[i]
    BY <1>0 DEF Queries
  <2>2. query = FlattenSeq(s) /\ {query, given.query} \subseteq Seq({"p", "q"})
    BY DEF Answers, TypedBuilder, Calls
  <2>3. k = 0 => s = <<>>
    BY <1>0 DEF Queries
  <2> HIDE DEF s, t
  <2>4. /\ Len(s) \in Nat /\ Len(t) = Len(s) + 1 /\ t[Len(t)] = given.query
        /\ \A i \in 1..Len(s) : s[i] = t[i]
    BY <1>0, <2>1
  <2>5. FlattenSeq(t) = IF Len(s) = 0 THEN t[1] ELSE FlattenSeq(s) \o t[Len(t)]
    BY <2>4, FlattenSeqAppend
  <2>6. CASE k = 0
    <3>1. FlattenSeq(<<>>) = <<>>
      BY DEF FlattenSeq
    <3>2. query = <<>>
      BY <2>2, <2>3, <2>6, <3>1
    <3>3. query' = given.query
      BY <2>2, <3>2
    <3>4. FlattenSeq(t) = given.query
      BY <2>1, <2>5, <2>6
    <3> QED BY <3>3, <3>4 DEF t
  <2>7. CASE k # 0
    <3>1. FlattenSeq(t) = FlattenSeq(s) \o given.query
      BY <2>1, <2>4, <2>5, <2>7
    <3> QED BY <2>2, <3>1 DEF t
  <2> QED BY <2>6, <2>7
<1>3. body' = Fitting(BodiesAsked', Bodies \ {None})
  <2> DEFINE s == BodiesAsked
             t == BodiesAsked'
  <2>1. /\ Len(s) = k /\ Len(t) = k + 1 /\ t[k + 1] = given.body
        /\ \A i \in 1..k : s[i] = t[i]
    BY <1>0 DEF BodiesAsked
  <2>2. body = Fitting(s, Bodies \ {None}) /\ given.body \in Bodies
    BY DEF Answers, Calls
  <2> HIDE DEF s, t
  <2>4. /\ Len(s) \in Nat /\ Len(t) = Len(s) + 1 /\ t[Len(t)] = given.body
        /\ \A i \in 1..Len(s) : s[i] = t[i]
    BY <1>0, <2>1
  <2>5. \A S : Fitting(t, S) = IF t[Len(t)] \in S THEN t[Len(t)] ELSE Fitting(s, S)
    BY <2>4, FittingAppend
  <2>6. Fitting(t, Bodies \ {None}) =
          IF t[Len(t)] \in Bodies \ {None} THEN t[Len(t)] ELSE Fitting(s, Bodies \ {None})
    BY <2>5
  <2>7. body' = Fitting(t, Bodies \ {None})
    BY <2>2, <2>4, <2>6
  <2> QED BY <2>7 DEF t
<1>4. timeout' = Fitting(TimeoutsAsked', {1})
  <2> DEFINE s == TimeoutsAsked
             t == TimeoutsAsked'
  <2>1. /\ Len(s) = k /\ Len(t) = k + 1 /\ t[k + 1] = given.timeout
        /\ \A i \in 1..k : s[i] = t[i]
    BY <1>0 DEF TimeoutsAsked
  <2>2. timeout = Fitting(s, {1}) /\ given.timeout \in {None, 1} /\ None # 1
    BY BuilderAssumption DEF Answers, Calls
  <2> HIDE DEF s, t
  <2>4. /\ Len(s) \in Nat /\ Len(t) = Len(s) + 1 /\ t[Len(t)] = given.timeout
        /\ \A i \in 1..Len(s) : s[i] = t[i]
    BY <1>0, <2>1
  <2>5. \A S : Fitting(t, S) = IF t[Len(t)] \in S THEN t[Len(t)] ELSE Fitting(s, S)
    BY <2>4, FittingAppend
  <2>6. Fitting(t, {1}) = IF t[Len(t)] \in {1} THEN t[Len(t)] ELSE Fitting(s, {1})
    BY <2>5
  <2>7. timeout' = Fitting(t, {1})
    BY <2>2, <2>4, <2>6
  <2> QED BY <2>7 DEF t
<1> QED BY <1>1, <1>2, <1>3, <1>4 DEF Answers
-----------------------------------------------------------------------------
(* What LastWellFormedWins and BodyAsAsked say, in the terms of the answers. *)
HeadersFit ==
  GoesOut => \A n \in Names :
    sent.headers[n] = IF auth # None /\ auth.name = n THEN auth.value
                      ELSE Fitting(Asked(n), WellFormed)

RestFits ==
  GoesOut => /\ sent.query = FlattenSeq(Queries)
             /\ sent.body = Fitting(BodiesAsked, Bodies \ {None})
             /\ sent.timeout = Fitting(TimeoutsAsked, {1})

(* The inductive invariant: the builder answers, and what went out is as asked. *)
BuilderInv ==
  /\ TypedBuilder
  /\ sent = None => Answers
  /\ HeadersFit
  /\ RestFits

(* A method that has not failed has done what it was given for. *)
Does(given) ==
  /\ calls' = Append(calls, given) /\ UNCHANGED config
  /\ headers' \in HeaderMaps
  /\ \A n \in Names : headers'[n] = IF given.headers[n] \in WellFormed
                                    THEN given.headers[n] ELSE headers[n]
  /\ query' = query \o given.query
  /\ body' = IF given.body # None THEN given.body ELSE body
  /\ timeout' = IF given.timeout # None THEN given.timeout ELSE timeout

(* The invariant after a method that has done what it was given for. *)
LEMMA DoesKeeps ==
  ASSUME BuilderInv, NEW given \in Calls, Does(given), sent = None, sent' = None
  PROVE  BuilderInv'
<1>1. Answers'
  BY CallAnswers DEF BuilderInv, Does
<1>2. TypedBuilder'
  <2>1. TypedBuilder /\ default_headers' = default_headers /\ auth' = auth
    BY DEF BuilderInv, Does, config
  <2>2. calls' \in Seq(Calls)
    BY <2>1 DEF Does, TypedBuilder
  <2>3. query' \in Seq({"p", "q"})
    BY <2>1 DEF Does, TypedBuilder, Calls
  <2>4. body' \in Bodies /\ timeout' \in {None, 1} /\ headers' \in HeaderMaps
    BY <2>1 DEF Does, TypedBuilder, Calls
  <2> QED BY <2>1, <2>2, <2>3, <2>4 DEF TypedBuilder
<1>3. ~GoesOut'
  BY BuilderAssumption DEF GoesOut
<1> QED BY <1>1, <1>2, <1>3 DEF BuilderInv, HeadersFit, RestFits

(* What a method that names one or two of its fields is given. *)
LEMMA NothingIs ==
  /\ \A h : [Nothing EXCEPT !.headers = h] =
              [headers |-> h, query |-> <<>>, body |-> None, timeout |-> None]
  /\ \A q : [Nothing EXCEPT !.query = q] =
              [headers |-> NoHeaders, query |-> q, body |-> None, timeout |-> None]
  /\ \A b : [Nothing EXCEPT !.body = b] =
              [headers |-> NoHeaders, query |-> <<>>, body |-> b, timeout |-> None]
  /\ \A h, b : [Nothing EXCEPT !.headers = h, !.body = b] =
              [headers |-> h, query |-> <<>>, body |-> b, timeout |-> None]
  /\ \A t : [Nothing EXCEPT !.timeout = t] =
              [headers |-> NoHeaders, query |-> <<>>, body |-> None, timeout |-> t]
<1>1. \A h : [Nothing EXCEPT !.headers = h] =
               [headers |-> h, query |-> <<>>, body |-> None, timeout |-> None]
  BY DEF Nothing
<1>2. \A q : [Nothing EXCEPT !.query = q] =
               [headers |-> NoHeaders, query |-> q, body |-> None, timeout |-> None]
  BY DEF Nothing
<1>3. \A b : [Nothing EXCEPT !.body = b] =
               [headers |-> NoHeaders, query |-> <<>>, body |-> b, timeout |-> None]
  BY DEF Nothing
<1>4. \A h, b : [Nothing EXCEPT !.headers = h, !.body = b] =
               [headers |-> h, query |-> <<>>, body |-> b, timeout |-> None]
  <2> SUFFICES ASSUME NEW h, NEW b
               PROVE  [Nothing EXCEPT !.headers = h, !.body = b] =
                      [headers |-> h, query |-> <<>>, body |-> b, timeout |-> None]
    OBVIOUS
  <2> DEFINE given == [Nothing EXCEPT !.headers = h]
  <2>1. [Nothing EXCEPT !.headers = h, !.body = b] = [given EXCEPT !.body = b]
    OBVIOUS
  <2>2. given = [headers |-> h, query |-> <<>>, body |-> None, timeout |-> None]
    BY <1>1
  <2> HIDE DEF given
  <2> QED BY <2>1, <2>2
<1>5. \A t : [Nothing EXCEPT !.timeout = t] =
               [headers |-> NoHeaders, query |-> <<>>, body |-> None, timeout |-> t]
  BY DEF Nothing
<1> QED BY <1>1, <1>2, <1>3, <1>4, <1>5

(* The headers a method asks for that sets one of them. *)
LEMMA OnlyIs ==
  ASSUME NEW name \in Names, NEW value \in Values
  PROVE  /\ Only(name, value) \in [Names -> Values \cup {None}]
         /\ \A n \in Names : Only(name, value)[n] = IF n = name THEN value ELSE None
         /\ NoHeaders \in [Names -> Values \cup {None}]
         /\ \A n \in Names : NoHeaders[n] = None
BY DEF Only, NoHeaders

(* header(), bearer_auth() and basic_auth(): a malformed pair changes nothing. *)
LEMMA HeaderStep ==
  ASSUME BuilderInv, NEW name \in Names, NEW value \in Values, Header(name, value)
  PROVE  BuilderInv'
<1> DEFINE given == [headers |-> Only(name, value), query |-> <<>>,
                     body |-> None, timeout |-> None]
<1>1. [Nothing EXCEPT !.headers = Only(name, value)] = given
  BY NothingIs
<1>2. given \in Calls
  BY OnlyIs DEF Calls, Bodies
<1>3. /\ sent = None /\ sent' = None /\ calls' = Append(calls, given) /\ UNCHANGED config
      /\ headers' = Insert(headers, name, value)
      /\ query' = query /\ body' = body /\ timeout' = timeout
  BY <1>1 DEF Header, Call
<1>4. headers \in HeaderMaps /\ query \in Seq({"p", "q"})
  BY DEF BuilderInv, TypedBuilder
<1>5. /\ headers' \in HeaderMaps
      /\ \A n \in Names : headers'[n] = IF given.headers[n] \in WellFormed
                                        THEN given.headers[n] ELSE headers[n]
  <2>1. given.headers = Only(name, value)
    OBVIOUS
  <2>2. value \in WellFormed \/ value = "malformed"
    BY DEF Values
  <2>3. /\ headers' \in HeaderMaps
        /\ \A n \in Names : headers'[n] = IF n = name /\ value # "malformed"
                                          THEN value ELSE headers[n]
    BY <1>3, <1>4, <2>2, NoneIsNothing DEF Insert, HeaderMaps
  <2> HIDE DEF given
  <2> QED BY <2>1, <2>2, <2>3, OnlyIs, NoneIsNothing
<1>6. Does(given)
  BY <1>3, <1>4, <1>5 DEF Does
<1> HIDE DEF given
<1> QED BY <1>2, <1>3, <1>6, DoesKeeps

(* headers(): each of the pairs given overwrites. *)
LEMMA HeadersStep ==
  ASSUME BuilderInv, NEW map \in [Names -> WellFormed \cup {None}], Headers(map)
  PROVE  BuilderInv'
<1> DEFINE given == [headers |-> map, query |-> <<>>,
                     body |-> None, timeout |-> None]
<1>1. [Nothing EXCEPT !.headers = map] = given
  BY NothingIs
<1>2. given \in Calls
  BY DEF Calls, Bodies, Values
<1>3. /\ sent = None /\ sent' = None /\ calls' = Append(calls, given) /\ UNCHANGED config
      /\ headers' = Extend(headers, map)
      /\ query' = query /\ body' = body /\ timeout' = timeout
  BY <1>1 DEF Headers, Call
<1>4. headers \in HeaderMaps /\ query \in Seq({"p", "q"})
  BY DEF BuilderInv, TypedBuilder
<1>5. /\ headers' \in HeaderMaps
      /\ \A n \in Names : headers'[n] = IF given.headers[n] \in WellFormed
                                        THEN given.headers[n] ELSE headers[n]
  BY <1>3, <1>4, NoneIsNothing DEF Extend, HeaderMaps
<1>6. Does(given)
  BY <1>3, <1>4, <1>5 DEF Does
<1> HIDE DEF given
<1> QED BY <1>2, <1>3, <1>6, DoesKeeps

(* query() and queries(): the pairs are added behind the others. *)
LEMMA QueryStep ==
  ASSUME BuilderInv, NEW pairs \in Seq({"p", "q"}), Query(pairs)
  PROVE  BuilderInv'
<1> DEFINE given == [headers |-> NoHeaders, query |-> pairs,
                     body |-> None, timeout |-> None]
<1>1. [Nothing EXCEPT !.query = pairs] = given
  BY NothingIs
<1>2. given \in Calls
  BY DEF Calls, Bodies, NoHeaders
<1>3. /\ sent = None /\ sent' = None /\ calls' = Append(calls, given) /\ UNCHANGED config
      /\ query' = query \o pairs
      /\ headers' = headers /\ body' = body /\ timeout' = timeout
  BY <1>1 DEF Query, Call
<1>4. headers \in HeaderMaps
  BY DEF BuilderInv, TypedBuilder
<1>6. Does(given)
  BY <1>3, <1>4, NoneIsNothing DEF Does, NoHeaders
<1> HIDE DEF given
<1> QED BY <1>2, <1>3, <1>6, DoesKeeps

(* body(). *)
LEMMA BodyStep ==
  ASSUME BuilderInv, Body
  PROVE  BuilderInv'
<1> DEFINE given == [headers |-> NoHeaders, query |-> <<>>,
                     body |-> "raw", timeout |-> None]
<1>1. [Nothing EXCEPT !.body = "raw"] = given
  BY NothingIs
<1>2. given \in Calls
  BY DEF Calls, Bodies, NoHeaders
<1>3. /\ sent = None /\ sent' = None /\ calls' = Append(calls, given) /\ UNCHANGED config
      /\ body' = "raw"
      /\ headers' = headers /\ query' = query /\ timeout' = timeout
  BY <1>1 DEF Body, Call
<1>4. headers \in HeaderMaps /\ query \in Seq({"p", "q"})
  BY DEF BuilderInv, TypedBuilder
<1>6. Does(given)
  BY <1>3, <1>4, NoneIsNothing DEF Does, NoHeaders
<1> HIDE DEF given
<1> QED BY <1>2, <1>3, <1>6, DoesKeeps

(* text(), json() and form() that succeed set the body and its type. *)
LEMMA TypedStep ==
  ASSUME BuilderInv, NEW type \in Types, Typed(type)
  PROVE  BuilderInv'
<1> DEFINE given == [headers |-> Only("content-type", type), query |-> <<>>,
                     body |-> type, timeout |-> None]
<1>1. [Nothing EXCEPT !.headers = Only("content-type", type), !.body = type] = given
  BY NothingIs
<1>2. type \in Values /\ type \in WellFormed /\ "content-type" \in Names /\ type # None
  BY NoneIsNothing DEF Values, WellFormed, Names
<1>3. given \in Calls
  BY <1>2, OnlyIs DEF Calls, Bodies
<1>4. /\ sent = None /\ sent' = None /\ calls' = Append(calls, given) /\ UNCHANGED config
      /\ headers' = Insert(headers, "content-type", type)
      /\ body' = type /\ query' = query /\ timeout' = timeout
  BY <1>1 DEF Typed, Call
<1>5. headers \in HeaderMaps /\ query \in Seq({"p", "q"})
  BY DEF BuilderInv, TypedBuilder
<1>6. /\ headers' \in HeaderMaps
      /\ \A n \in Names : headers'[n] = IF given.headers[n] \in WellFormed
                                        THEN given.headers[n] ELSE headers[n]
  <2>1. given.headers = Only("content-type", type)
    OBVIOUS
  <2>2. /\ headers' \in HeaderMaps
        /\ \A n \in Names : headers'[n] = IF n = "content-type" THEN type ELSE headers[n]
    BY <1>2, <1>4, <1>5, NoneIsNothing DEF Insert, HeaderMaps
  <2> HIDE DEF given
  <2> QED BY <1>2, <2>1, <2>2, OnlyIs, NoneIsNothing
<1>7. Does(given)
  BY <1>2, <1>4, <1>5, <1>6 DEF Does
<1> HIDE DEF given
<1> QED BY <1>3, <1>4, <1>7, DoesKeeps

(* timeout(). *)
LEMMA TimeoutStep ==
  ASSUME BuilderInv, Timeout
  PROVE  BuilderInv'
<1> DEFINE given == [headers |-> NoHeaders, query |-> <<>>,
                     body |-> None, timeout |-> 1]
<1>1. [Nothing EXCEPT !.timeout = 1] = given
  BY NothingIs
<1>2. given \in Calls
  BY DEF Calls, Bodies, NoHeaders
<1>3. /\ sent = None /\ sent' = None /\ calls' = Append(calls, given) /\ UNCHANGED config
      /\ timeout' = 1
      /\ headers' = headers /\ query' = query /\ body' = body
  BY <1>1 DEF Timeout, Call
<1>4. headers \in HeaderMaps /\ query \in Seq({"p", "q"})
  BY DEF BuilderInv, TypedBuilder
<1>6. Does(given)
  BY <1>3, <1>4, NoneIsNothing DEF Does, NoHeaders
<1> HIDE DEF given
<1> QED BY <1>2, <1>3, <1>6, DoesKeeps

(* An error is not a request. *)
LEMMA ErrorsAreNot ==
  ASSUME NEW e PROVE [error |-> e] \notin Requests
BY DEF Requests

(* json() and form() that fail: nothing goes out. *)
LEMMA SerializesNotStep ==
  ASSUME BuilderInv, NEW type \in Types, SerializesNot(type)
  PROVE  BuilderInv'
<1> DEFINE given == [headers |-> NoHeaders, query |-> <<>>,
                     body |-> type, timeout |-> None]
<1>1. [Nothing EXCEPT !.body = type] = given
  BY NothingIs
<1>2. given \in Calls
  BY DEF Calls, Bodies, NoHeaders
<1>3. calls' = Append(calls, given) /\ default_headers' = default_headers /\ auth' = auth
      /\ headers' = headers /\ query' = query /\ body' = body /\ timeout' = timeout
  BY <1>1 DEF SerializesNot, Call, config
<1>4. ~GoesOut' /\ sent' \in Errors
  BY ErrorsAreNot DEF SerializesNot, GoesOut, Errors
<1>5. sent' # None
  BY <1>4, BuilderAssumption
<1> HIDE DEF given
<1>6. TypedBuilder'
  BY <1>2, <1>3 DEF BuilderInv, TypedBuilder
<1> QED BY <1>4, <1>5, <1>6 DEF BuilderInv, HeadersFit, RestFits

(* build_url() that fails: nothing goes out. *)
LEMMA UrlRefusedStep ==
  ASSUME BuilderInv, UrlRefused
  PROVE  BuilderInv'
<1>1. calls' = calls /\ default_headers' = default_headers /\ auth' = auth
      /\ headers' = headers /\ query' = query /\ body' = body /\ timeout' = timeout
  BY DEF UrlRefused, config
<1>2. ~GoesOut' /\ sent' \in Errors
  BY ErrorsAreNot DEF UrlRefused, GoesOut, Errors
<1>3. sent' # None
  BY <1>2, BuilderAssumption
<1>4. TypedBuilder'
  BY <1>1 DEF BuilderInv, TypedBuilder
<1> QED BY <1>2, <1>3, <1>4 DEF BuilderInv, HeadersFit, RestFits
(* What the properties name is what the answers are about. *)
LEMMA AskedIs ==
  ASSUME TypedBuilder
  PROVE  /\ \A n \in Names : LastOf(Asked(n), LAMBDA v : v \in WellFormed) =
                               Fitting(Asked(n), WellFormed)
         /\ LastOf(BodiesAsked, LAMBDA b : b # None) =
              Fitting(BodiesAsked, Bodies \ {None})
         /\ LastOf(TimeoutsAsked, LAMBDA t : t # None) = Fitting(TimeoutsAsked, {1})
<1>1. \A n \in Names : LastOf(Asked(n), LAMBDA v : v \in WellFormed) =
                         Fitting(Asked(n), WellFormed)
  BY LastWellFormed
<1>2. /\ BodiesAsked \in Seq((Bodies \ {None}) \cup {None})
      /\ TimeoutsAsked \in Seq({1} \cup {None})
  <2>1. calls \in Seq(Calls)
    BY DEF TypedBuilder
  <2>2. \A c \in Calls : /\ c.body \in (Bodies \ {None}) \cup {None}
                        /\ c.timeout \in {1} \cup {None}
    BY DEF Calls
  <2> QED BY <2>1, <2>2 DEF BodiesAsked, TimeoutsAsked
<1>3. None \notin Bodies \ {None} /\ None \notin {1}
  BY NoneIsNothing
<1>4. LastOf(BodiesAsked, LAMBDA b : b # None) = Fitting(BodiesAsked, Bodies \ {None})
  BY <1>2, <1>3, LastGiven
<1>5. LastOf(TimeoutsAsked, LAMBDA t : t # None) = Fitting(TimeoutsAsked, {1})
  BY <1>2, <1>3, LastGiven
<1> QED BY <1>1, <1>4, <1>5

(* A request that goes out has the headers of H, and of the rest what is asked. *)
SentWith(H) ==
  sent' = [headers |-> H, query |-> query, body |-> body, timeout |-> timeout]

(* send(): an error, or a request with the interceptor's header over the built ones. *)
LEMMA SendIs ==
  ASSUME BuilderInv, Send
  PROVE  \/ sent' \in Errors \ Requests
         \/ \E H \in HeaderMaps :
              /\ SentWith(H)
              /\ \A n \in Names :
                   H[n] = IF auth # None /\ auth.name = n THEN auth.value ELSE Built[n]
<1> DEFINE request == [headers |-> Built, query |-> query,
                       body |-> body, timeout |-> timeout]
<1>1. sent' = IF auth = None THEN request ELSE Authorized(request)
  BY DEF Send
<1>2. Built \in HeaderMaps
  BY DefaultsTyped DEF BuilderInv, TypedBuilder, Built, Extend, HeaderMaps
<1>3. CASE auth = None
  BY <1>1, <1>2, <1>3 DEF SentWith
<1>4. CASE auth # None /\ auth.value = "malformed"
  BY <1>1, <1>4, ErrorsAreNot DEF Authorized, Errors
<1>5. CASE auth # None /\ auth.value # "malformed"
  <2> DEFINE H == [Built EXCEPT ![auth.name] = auth.value]
  <2>1. auth \in Settings /\ auth.name \in Names /\ auth.value = "a"
    BY <1>5 DEF BuilderInv, TypedBuilder, Settings
  <2>2. [request EXCEPT !.headers = H] =
          [headers |-> H, query |-> query, body |-> body, timeout |-> timeout]
    OBVIOUS
  <2>3. sent' = [request EXCEPT !.headers = H]
    BY <1>1, <1>5 DEF Authorized
  <2>4. SentWith(H)
    BY <2>2, <2>3 DEF SentWith
  <2>5. H \in HeaderMaps
    BY <1>2, <2>1, NoneIsNothing DEF HeaderMaps
  <2>6. \A n \in Names : H[n] = IF auth.name = n THEN auth.value ELSE Built[n]
    BY <1>2, <2>1 DEF HeaderMaps
  <2> HIDE DEF H
  <2> QED BY <1>5, <2>4, <2>5, <2>6
<1> QED BY <1>3, <1>4, <1>5

(* send(): what goes out is what the builder answered for. *)
LEMMA SendStep ==
  ASSUME BuilderInv, Send
  PROVE  BuilderInv'
<1>1. /\ sent = None /\ TypedBuilder /\ Answers
      /\ calls' = calls /\ default_headers' = default_headers /\ auth' = auth
      /\ headers' = headers /\ query' = query /\ body' = body /\ timeout' = timeout
  BY DEF Send, config, BuilderInv
<1>2. TypedBuilder'
  BY <1>1 DEF TypedBuilder
<1>3. CASE sent' \in Errors \ Requests
  <2>1. sent' # None /\ ~GoesOut'
    BY <1>3, BuilderAssumption DEF GoesOut
  <2> QED BY <1>2, <2>1 DEF BuilderInv, HeadersFit, RestFits
<1>4. ASSUME NEW H \in HeaderMaps, SentWith(H),
             \A n \in Names :
               H[n] = IF auth # None /\ auth.name = n THEN auth.value ELSE Built[n]
      PROVE  BuilderInv'
  <2>1. sent' \in Requests
    BY <1>1, <1>4 DEF SentWith, Requests, TypedBuilder
  <2>2. sent' # None
    BY <2>1, BuilderAssumption
  <2>3. /\ sent'.headers = H /\ sent'.query = query
        /\ sent'.body = body /\ sent'.timeout = timeout
    BY <1>4 DEF SentWith
  <2>4. HeadersFit'
    <3>1. \A n \in Names : Asked(n)' = Asked(n)
      BY <1>1 DEF Asked
    <3>2. \A n \in Names : Built[n] = Fitting(Asked(n), WellFormed)
      BY <1>1 DEF Answers
    <3>3. \A n \in Names : sent'.headers[n] =
            IF auth' # None /\ auth'.name = n THEN auth'.value
            ELSE Fitting(Asked(n)', WellFormed)
      BY <1>1, <1>4, <2>3, <3>1, <3>2
    <3> QED BY <3>3 DEF HeadersFit
  <2>5. RestFits'
    <3>1. <<Queries, BodiesAsked, TimeoutsAsked>>' = <<Queries, BodiesAsked, TimeoutsAsked>>
      BY <1>1 DEF Queries, BodiesAsked, TimeoutsAsked
    <3> QED BY <1>1, <2>3, <3>1 DEF Answers, RestFits
  <2> QED BY <1>2, <2>2, <2>4, <2>5 DEF BuilderInv
<1> QED BY <1>3, <1>4, SendIs

(* The invariant holds of a new builder. *)
LEMMA InitBuilder ==
  ASSUME Init
  PROVE  BuilderInv
<1>1. TypedBuilder
  <2>1. default_headers \in Seq(Settings)
    <3>1. default_headers \in BoundedSeq(Settings, MaxDefaults)
      BY DEF Init
    <3>2. PICK m \in 0..MaxDefaults : default_headers \in [1..m -> Settings]
      BY <3>1 DEF BoundedSeq, SeqOf
    <3>3. m \in Nat
      BY <3>2, BuilderAssumption
    <3> QED BY <3>2, <3>3
  <2>2. NoHeaders \in HeaderMaps
    BY DEF NoHeaders, HeaderMaps
  <2> QED BY <2>1, <2>2 DEF Init, TypedBuilder, Bodies
<1>2. Answers
  BY <1>1, InitAnswers DEF Init
<1>3. ~GoesOut
  BY BuilderAssumption DEF Init, GoesOut
<1> QED BY <1>1, <1>2, <1>3 DEF BuilderInv, HeadersFit, RestFits

(* Every step keeps the invariant. *)
LEMMA NextBuilder ==
  ASSUME BuilderInv, [Next]_vars
  PROVE  BuilderInv'
<1>1. ASSUME NEW n \in Names, NEW v \in {"b", "malformed"}, Header(n, v) PROVE BuilderInv'
  BY <1>1, HeaderStep DEF Values, WellFormed
<1>2. CASE BearerAuth("a") \/ BearerAuth("malformed") \/ BasicAuth
  BY <1>2, HeaderStep DEF BearerAuth, BasicAuth, Values, WellFormed, Names
<1>3. ASSUME NEW map \in [Names -> {None, "b"}], Headers(map) PROVE BuilderInv'
  BY <1>3, HeadersStep DEF WellFormed
<1>4. CASE Body
  BY <1>4, BodyStep
<1>5. CASE Timeout
  BY <1>5, TimeoutStep
<1>6. CASE Query(<<"q">>) \/ Query(<<"p", "q">>)
  <2>1. <<"q">> \in Seq({"p", "q"}) /\ <<"p", "q">> \in Seq({"p", "q"})
    OBVIOUS
  <2> QED BY <1>6, <2>1, QueryStep
<1>7. ASSUME NEW type \in Types, Typed(type) PROVE BuilderInv'
  BY <1>7, TypedStep
<1>8. ASSUME NEW type \in Types \ {"text"}, SerializesNot(type) PROVE BuilderInv'
  BY <1>8, SerializesNotStep
<1>9. CASE Send
  BY <1>9, SendStep
<1>10. CASE UrlRefused
  BY <1>10, UrlRefusedStep
<1>11. CASE UNCHANGED vars
  <2>1. UNCHANGED <<default_headers, auth, headers, query, body, timeout, sent, calls>>
    BY <1>11 DEF vars, config
  <2>2. TypedBuilder'
    BY <2>1 DEF BuilderInv, TypedBuilder
  <2>3. \A n \in Names : Asked(n)' = Asked(n)
    BY <2>1 DEF Asked
  <2>4. <<Queries, BodiesAsked, TimeoutsAsked>>' = <<Queries, BodiesAsked, TimeoutsAsked>>
    BY <2>1 DEF Queries, BodiesAsked, TimeoutsAsked
  <2>5. Built' = Built
    BY <2>1, DefaultsSame DEF Built, Extend
  <2>6. sent = None => Answers'
    BY <2>1, <2>3, <2>4, <2>5 DEF BuilderInv, Answers
  <2>7. HeadersFit' /\ RestFits'
    BY <2>1, <2>3, <2>4 DEF BuilderInv, HeadersFit, RestFits, GoesOut
  <2> QED BY <2>1, <2>2, <2>6, <2>7 DEF BuilderInv
<1> QED BY <1>1, <1>2, <1>3, <1>4, <1>5, <1>6, <1>7, <1>8, <1>9, <1>10, <1>11 DEF Next

(* After any sequence of calls, over any defaults, a request that goes out has   *)
(* of each header the last well-formed value asked for, the request's own       *)
(* before a default, or the interceptor's credential.                           *)
THEOREM HeadersAsAsked == Spec => []LastWellFormedWins
<1>1. Init => BuilderInv
  BY InitBuilder
<1>2. BuilderInv /\ [Next]_vars => BuilderInv'
  BY NextBuilder
<1>3. BuilderInv => LastWellFormedWins
  BY AskedIs DEF BuilderInv, HeadersFit, LastWellFormedWins
<1> QED BY <1>1, <1>2, <1>3, PTL DEF Spec

(* It has the body and the timeout last asked for and all query parameters in    *)
(* order: a body that cannot be serialised is never replaced by another.        *)
THEOREM RestAsAsked == Spec => []BodyAsAsked
<1>1. Init => BuilderInv
  BY InitBuilder
<1>2. BuilderInv /\ [Next]_vars => BuilderInv'
  BY NextBuilder
<1>3. BuilderInv => BodyAsAsked
  BY AskedIs DEF BuilderInv, RestFits, BodyAsAsked, Queries, BodiesAsked, TimeoutsAsked
<1> QED BY <1>1, <1>2, <1>3, PTL DEF Spec

(* Every variable keeps its type: what goes out is a request or one of the      *)
(* errors of the builder and the interceptor, and the history stays bounded.    *)
THEOREM TypeCorrect == Spec => []TypeOK
<1> DEFINE Inv == BuilderInv /\ TypeOK
<1>1. Init => Inv
  <2> SUFFICES ASSUME Init PROVE Inv
    OBVIOUS
  <2>1. BuilderInv
    BY InitBuilder
  <2>2. Len(calls) <= MaxCalls
    BY BuilderAssumption DEF Init
  <2> QED BY <2>1, <2>2 DEF Init, BuilderInv, TypedBuilder, TypeOK
<1>2. Inv /\ [Next]_vars => Inv'
  <2> SUFFICES ASSUME BuilderInv, TypeOK, [Next]_vars PROVE Inv'
    OBVIOUS
  <2>1. BuilderInv'
    BY NextBuilder
  <2> DEFINE Bounded == Len(calls') <= MaxCalls /\ sent' \in {None} \cup Requests \cup Errors
  <2>2. Bounded
    <3>1. ASSUME NEW given, Call(given) PROVE Len(calls') <= MaxCalls
      <4>1. calls \in Seq(Calls) /\ calls' = Append(calls, given)
        BY <3>1 DEF BuilderInv, TypedBuilder, Call
      <4> QED BY <3>1, <4>1, BuilderAssumption DEF Call
    <3>2. CASE UNCHANGED vars
      BY <3>2 DEF vars, TypeOK
    <3>3. ASSUME NEW n, NEW v, Header(n, v) PROVE Bounded
      BY <3>1, <3>3 DEF Header, TypeOK
    <3>4. CASE BearerAuth("a") \/ BearerAuth("malformed") \/ BasicAuth
      BY <3>3, <3>4 DEF BearerAuth, BasicAuth
    <3>5. ASSUME NEW map, Headers(map) PROVE Bounded
      BY <3>1, <3>5 DEF Headers, TypeOK
    <3>6. CASE Body
      BY <3>1, <3>6 DEF Body, TypeOK
    <3>7. CASE Timeout
      BY <3>1, <3>7 DEF Timeout, TypeOK
    <3>8. ASSUME NEW pairs, Query(pairs) PROVE Bounded
      BY <3>1, <3>8 DEF Query, TypeOK
    <3>9. ASSUME NEW type, Typed(type) PROVE Bounded
      BY <3>1, <3>9 DEF Typed, TypeOK
    <3>10. ASSUME NEW type, SerializesNot(type) PROVE Bounded
      BY <3>1, <3>10 DEF SerializesNot, Errors
    <3>11. CASE Send
      <4>1. Len(calls') <= MaxCalls
        BY <3>11 DEF Send, TypeOK
      <4>2. ASSUME NEW H \in HeaderMaps, SentWith(H) PROVE sent' \in Requests
        BY <4>2 DEF SentWith, Requests, BuilderInv, TypedBuilder
      <4> QED BY <3>11, <4>1, <4>2, SendIs
    <3>12. CASE UrlRefused
      BY <3>12 DEF UrlRefused, Errors, TypeOK
    <3> QED BY <3>2, <3>3, <3>4, <3>5, <3>6, <3>7, <3>8, <3>9, <3>10, <3>11, <3>12 DEF Next
  <2> QED BY <2>1, <2>2 DEF BuilderInv, TypedBuilder, TypeOK
<1>3. Inv => TypeOK
  OBVIOUS
<1> HIDE DEF Inv
<1> QED BY <1>1, <1>2, <1>3, PTL DEF Spec
=============================================================================
