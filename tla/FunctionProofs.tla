--------------------------- MODULE FunctionProofs ---------------------------
(***************************************************************************)
(* What the delays before retries promise, for durations, multipliers and  *)
(* attempts of any size, and where a path given to a client with base_url  *)
(* can lead, for bases and paths of any length.                            *)
(*                                                                         *)
(* The folds of BaseUrl run over sets of indices; each is shown to run     *)
(* through the tokens one after the other (FoldRuns of ListLemmas).  From  *)
(* that, what is closed by a separator splits into the first segments of   *)
(* whatever follows (SplitPrefix), and that is why comparing paths with a  *)
(* slash behind each confines segments and not only characters.            *)
(*                                                                         *)
(* The other way round, a path glued behind a base of words splits into    *)
(* their segments together (SplitGlued), trimming and cutting leave those  *)
(* of the base alone, and the walk over them is as deep below the base as  *)
(* the path has names more than climbs: while that is never negative, no   *)
(* segment of the base is popped and the path is admitted.                 *)
(***************************************************************************)
EXTENDS MCFunctions, ListLemmas, FiniteSetTheorems

(* f multiplies once more at each number, without end or up to k. *)
Powers(m, f) == f = [n \in Nat |-> IF n = 0 THEN 1 ELSE m * f[n - 1]]
PowersTo(m, k, f) == f = [n \in 0..k |-> IF n = 0 THEN 1 ELSE m * f[n - 1]]

(* There is such a function up to any number. *)
LEMMA PowersToExist ==
  ASSUME NEW m
  PROVE  \A k \in Nat : \E f : PowersTo(m, k, f)
<1> DEFINE S == {k \in Nat : \E f : PowersTo(m, k, f)}
<1>1. 0 \in S
  <2>1. PowersTo(m, 0, [n \in 0..0 |-> 1])
    BY DEF PowersTo
  <2> QED BY <2>1
<1>2. ASSUME NEW k \in Nat, k \in S PROVE k + 1 \in S
  <2>1. PICK f : PowersTo(m, k, f)
    BY <1>2
  <2> DEFINE g == [n \in 0..(k + 1) |-> IF n <= k THEN f[n] ELSE m * f[n - 1]]
  <2>2. ASSUME NEW n \in 0..(k + 1) PROVE g[n] = IF n = 0 THEN 1 ELSE m * g[n - 1]
    <3>1. CASE n = k + 1
      BY <3>1
    <3>2. CASE n # k + 1
      <4>1. n \in 0..k /\ (n # 0 => n - 1 \in 0..k /\ n - 1 \in 0..(k + 1))
        BY <3>2
      <4>2. f[n] = IF n = 0 THEN 1 ELSE m * f[n - 1]
        BY <2>1, <4>1 DEF PowersTo
      <4> QED BY <4>1, <4>2
    <3> QED BY <3>1, <3>2
  <2>3. PowersTo(m, k + 1, g)
    BY <2>2 DEF PowersTo
  <2> QED BY <2>3
<1> HIDE DEF S
<1>3. Nat \subseteq S
  BY <1>1, <1>2, Induction
<1> QED BY <1>3 DEF S

(* Two of them agree as far as both go. *)
LEMMA PowersToAgree ==
  ASSUME NEW m, NEW j \in Nat, NEW k \in Nat, j <= k, NEW f, NEW g,
         PowersTo(m, j, f), PowersTo(m, k, g)
  PROVE  \A n \in 0..j : f[n] = g[n]
<1> DEFINE S == {n \in Nat : n <= j => f[n] = g[n]}
<1>1. 0 \in S
  <2>1. 0 \in 0..j /\ 0 \in 0..k
    OBVIOUS
  <2>2. f[0] = 1 /\ g[0] = 1
    BY <2>1 DEF PowersTo
  <2> QED BY <2>2
<1>2. ASSUME NEW n \in Nat, n \in S PROVE n + 1 \in S
  <2> SUFFICES ASSUME n + 1 <= j PROVE f[n + 1] = g[n + 1]
    OBVIOUS
  <2>1. n + 1 \in 0..j /\ n + 1 \in 0..k /\ n + 1 # 0 /\ (n + 1) - 1 = n
    OBVIOUS
  <2>2. f[n + 1] = m * f[n]
    BY <2>1 DEF PowersTo
  <2>3. g[n + 1] = m * g[n]
    BY <2>1 DEF PowersTo
  <2> QED BY <1>2, <2>2, <2>3
<1> HIDE DEF S
<1>3. Nat \subseteq S
  BY <1>1, <1>2, Induction
<1> QED BY <1>3 DEF S

(* So there is one for all numbers: the one Powi chooses. *)
LEMMA PowersExist ==
  ASSUME NEW m PROVE \E f : Powers(m, f)
<1> DEFINE To(k) == CHOOSE f : PowersTo(m, k, f)
           p == [n \in Nat |-> To(n)[n]]
<1>1. \A k \in Nat : PowersTo(m, k, To(k))
  BY PowersToExist
<1> HIDE DEF To
<1>2. ASSUME NEW n \in Nat PROVE p[n] = IF n = 0 THEN 1 ELSE m * p[n - 1]
  <2>1. n \in 0..n /\ PowersTo(m, n, To(n))
    BY <1>1
  <2>2. To(n)[n] = IF n = 0 THEN 1 ELSE m * To(n)[n - 1]
    BY <2>1 DEF PowersTo
  <2>3. CASE n # 0
    <3>1. /\ n - 1 \in Nat /\ n - 1 <= n /\ n - 1 \in 0..(n - 1)
          /\ PowersTo(m, n - 1, To(n - 1))
      BY <1>1, <2>3
    <3>2. To(n - 1)[n - 1] = To(n)[n - 1]
      BY <2>1, <3>1, PowersToAgree
    <3> QED BY <2>2, <2>3, <3>1, <3>2
  <2> QED BY <2>2, <2>3
<1>3. Powers(m, p)
  BY <1>2 DEF Powers
<1> QED BY <1>3

(* powi multiplies once more for each attempt. *)
LEMMA PowiIs ==
  ASSUME NEW m
  PROVE  \A n \in Nat : Powi(m, n) = IF n = 0 THEN 1 ELSE m * Powi(m, n - 1)
<1> DEFINE f == CHOOSE g : Powers(m, g)
<1>1. Powers(m, f)
  BY PowersExist
<1>2. \A n : Powi(m, n) = f[n]
  BY DEF Powi, Powers
<1> HIDE DEF f
<1> QED BY <1>1, <1>2 DEF Powers

-----------------------------------------------------------------------------
(* Products and their bounds, of whole numbers. *)
LEMMA ProductsGrow ==
  ASSUME NEW a \in Nat, NEW b \in Nat, NEW c \in Nat, a <= b
  PROVE  a * c \in Nat /\ b * c \in Nat /\ a * c <= b * c
<1>1. b - a \in Nat
  OBVIOUS
<1> DEFINE d == b - a
<1>2. b = a + d /\ d \in Nat
  BY <1>1
<1> HIDE DEF d
<1>3. b * c = a * c + d * c
  BY <1>2
<1>4. d * c \in Nat /\ a * c \in Nat
  BY <1>2
<1> QED BY <1>3, <1>4

(* The shorter of a duration and a maximum is at most that, and grows with it. *)
LEMMA ShortestGrows ==
  ASSUME NEW a \in Nat, NEW b \in Nat, NEW m \in Nat
  PROVE  /\ Shortest(a, m) \in Nat /\ Shortest(a, m) <= m
         /\ a <= b => Shortest(a, m) <= Shortest(b, m)
BY DEF Shortest

(* So does a product that saturates. *)
LEMMA SaturatingGrows ==
  ASSUME NEW a, NEW b, NEW n, NEW k, a * n \in Nat, b * k \in Nat
  PROVE  /\ SaturatingMul(a, n) \in Nat
         /\ a * n <= b * k => SaturatingMul(a, n) <= SaturatingMul(b, k)
BY BackoffAssumption DEF SaturatingMul, Shortest

(* Powers are whole numbers, and of a multiplier of one or more do not shrink. *)
LEMMA PowiGrows ==
  ASSUME NEW m \in Nat
  PROVE  /\ \A n \in Nat : Powi(m, n) \in Nat
         /\ m # 0 => \A n \in Nat : Powi(m, n) <= Powi(m, n + 1)
<1> DEFINE S == {n \in Nat : Powi(m, n) \in Nat}
<1>1. 0 \in S
  BY PowiIs
<1>2. ASSUME NEW n \in Nat, n \in S PROVE n + 1 \in S
  <2>1. Powi(m, n + 1) = m * Powi(m, (n + 1) - 1) /\ (n + 1) - 1 = n
    BY PowiIs
  <2>2. Powi(m, n) \in Nat
    BY <1>2
  <2> HIDE DEF S
  <2>3. Powi(m, n + 1) = m * Powi(m, n)
    BY <2>1
  <2>4. Powi(m, n + 1) \in Nat
    BY <2>2, <2>3
  <2> QED BY <2>4 DEF S
<1> HIDE DEF S
<1>3. \A n \in Nat : Powi(m, n) \in Nat
  <2>1. Nat \subseteq S
    BY <1>1, <1>2, Induction
  <2> QED BY <2>1 DEF S
<1>4. ASSUME NEW n \in Nat, m # 0 PROVE Powi(m, n) <= Powi(m, n + 1)
  <2>1. Powi(m, n + 1) = m * Powi(m, (n + 1) - 1) /\ (n + 1) - 1 = n
    BY PowiIs
  <2> DEFINE p == Powi(m, n)
  <2>2. p \in Nat /\ 1 <= m /\ Powi(m, n + 1) = m * p
    BY <1>3, <1>4, <2>1
  <2> HIDE DEF p
  <2>3. 1 * p <= m * p
    BY <2>2, ProductsGrow
  <2>4. p <= m * p
    BY <2>2, <2>3
  <2> QED BY <2>2, <2>4 DEF p
<1> QED BY <1>3, <1>4

(* Every strategy's delay is a duration and does not shrink from one attempt to  *)
(* the next.                                                                    *)
LEMMA StrategyDelays ==
  ASSUME Durations \subseteq Nat, Multipliers \subseteq Nat,
         NEW s \in Strategies, NEW n \in Nat
  PROVE  /\ DelayForAttempt(s, n) \in Nat
         /\ 0 \notin Multipliers => DelayForAttempt(s, n) <= DelayForAttempt(s, n + 1)
<1> DEFINE d == DelayForAttempt(s, n)
           e == DelayForAttempt(s, n + 1)
<1>1. CASE s \in [kind : {"None"}]
  <2>1. d = 0 /\ e = 0 /\ s.kind = "None"
    BY <1>1 DEF DelayForAttempt
  <2> QED BY <2>1
<1>2. CASE s \in [kind : {"Constant"}, delay : Durations]
  <2>1. d = s.delay /\ e = s.delay /\ s.kind = "Constant" /\ s.delay \in Nat
    BY <1>2 DEF DelayForAttempt
  <2> QED BY <2>1
<1>3. CASE s \in [kind : {"Linear"}, delay : Durations, max : Durations]
  <2>1. /\ s.kind = "Linear" /\ s.delay \in Nat /\ s.max \in Nat
        /\ d = Shortest(SaturatingMul(s.delay, n + 1), s.max)
        /\ e = Shortest(SaturatingMul(s.delay, (n + 1) + 1), s.max)
    BY <1>3 DEF DelayForAttempt
  <2>2. /\ s.delay * (n + 1) = (n + 1) * s.delay
        /\ s.delay * ((n + 1) + 1) = ((n + 1) + 1) * s.delay
    BY <2>1
  <2>3. /\ s.delay * (n + 1) \in Nat /\ s.delay * ((n + 1) + 1) \in Nat
        /\ s.delay * (n + 1) <= s.delay * ((n + 1) + 1)
    <3>1. n + 1 \in Nat /\ (n + 1) + 1 \in Nat /\ n + 1 <= (n + 1) + 1
      OBVIOUS
    <3> QED BY <2>1, <2>2, <3>1, ProductsGrow
  <2>4. /\ {SaturatingMul(s.delay, n + 1), SaturatingMul(s.delay, (n + 1) + 1)} \subseteq Nat
        /\ SaturatingMul(s.delay, n + 1) <= SaturatingMul(s.delay, (n + 1) + 1)
    BY <2>3, SaturatingGrows
  <2> DEFINE x == SaturatingMul(s.delay, n + 1)
             y == SaturatingMul(s.delay, (n + 1) + 1)
             m == s.max
  <2> HIDE DEF x, y, m, d, e
  <2>5. d = Shortest(x, m) /\ e = Shortest(y, m) /\ {x, y, m} \subseteq Nat /\ x <= y
    BY <2>1, <2>4 DEF x, y, m
  <2>6. d \in Nat /\ d <= e
    BY <2>5, ShortestGrows
  <2> QED BY <2>1, <2>6 DEF d, e, m
<1>4. CASE s \in [kind : {"Exponential"}, initial : Durations, max : Durations,
                  multiplier : Multipliers]
  <2> DEFINE i == s.initial \div Millisecond
             p == Powi(s.multiplier, n)
             q == Powi(s.multiplier, n + 1)
  <2>1. /\ s.kind = "Exponential" /\ s.initial \in Nat /\ s.max \in Nat
        /\ s.multiplier \in Nat /\ s.multiplier \in Multipliers
        /\ d = Shortest(SaturatingMul(i * p, Millisecond), s.max)
        /\ e = Shortest(SaturatingMul(i * q, Millisecond), s.max)
    BY <1>4 DEF DelayForAttempt, Exponential
  <2>2. i \in Nat
    BY <2>1, BackoffAssumption
  <2>3. p \in Nat /\ q \in Nat /\ (0 \notin Multipliers => p <= q)
    <3> DEFINE m == s.multiplier
    <3>1. m \in Nat /\ (0 \notin Multipliers => m # 0)
      BY <2>1
    <3> HIDE DEF m
    <3>2. /\ Powi(m, n) \in Nat /\ Powi(m, n + 1) \in Nat
          /\ m # 0 => Powi(m, n) <= Powi(m, n + 1)
      BY <3>1, PowiGrows
    <3> QED BY <3>1, <3>2 DEF m
  <2> HIDE DEF i, p, q
  <2>4. /\ i * p \in Nat /\ i * q \in Nat
        /\ p <= q => i * p <= i * q
    <3>1. i * p = p * i /\ i * q = q * i
      BY <2>2, <2>3
    <3> QED BY <2>2, <2>3, <3>1, ProductsGrow
  <2>5. /\ (i * p) * Millisecond \in Nat /\ (i * q) * Millisecond \in Nat
        /\ p <= q => (i * p) * Millisecond <= (i * q) * Millisecond
    BY <2>4, ProductsGrow, BackoffAssumption
  <2> DEFINE x == SaturatingMul(i * p, Millisecond)
             y == SaturatingMul(i * q, Millisecond)
             m == s.max
  <2>6. /\ x \in Nat /\ y \in Nat
        /\ p <= q => x <= y
    BY <2>5, SaturatingGrows
  <2> HIDE DEF x, y, m, d, e
  <2>7. d = Shortest(x, m) /\ e = Shortest(y, m) /\ m \in Nat
    BY <2>1 DEF x, y, m
  <2>8. d \in Nat /\ (p <= q => d <= e)
    BY <2>6, <2>7, ShortestGrows
  <2> QED BY <2>1, <2>3, <2>8 DEF d, e, m
<1> QED BY <1>1, <1>2, <1>3, <1>4 DEF Strategies

(* Each delay from the one before it: what both forms of a product come to,     *)
(* saturated and cut at a maximum below the saturation.                         *)
LEMMA CutSums ==
  ASSUME NEW x \in Nat, NEW d \in Nat, NEW m \in 0..DurationMax
  PROVE  Shortest(Shortest(x + d, DurationMax), m)
           = Shortest(Shortest(Shortest(x, DurationMax), m) + d, m)
BY BackoffAssumption DEF Shortest

LEMMA CutProducts ==
  ASSUME NEW x \in Nat, NEW k \in Nat \ {0}, NEW m \in 0..DurationMax
  PROVE  Shortest(Shortest(x * k, DurationMax), m)
           = Shortest(Shortest(Shortest(x, DurationMax), m) * k, m)
<1>1. m \in Nat /\ m <= DurationMax /\ DurationMax \in Nat
  BY BackoffAssumption
<1> DEFINE y == x * k
           z == m * k
<1>2. y \in Nat /\ z \in Nat /\ x <= y /\ m <= z
  <2>1. 1 <= k /\ 1 * x = x /\ 1 * m = m /\ k * x = y /\ k * m = z
    BY <1>1
  <2> HIDE DEF y, z
  <2>2. 1 * x <= k * x /\ 1 * m <= k * m /\ k * x \in Nat /\ k * m \in Nat
    BY <1>1, <2>1, ProductsGrow
  <2> QED BY <2>1, <2>2
<1>3. CASE x <= m
  <2>1. Shortest(Shortest(x, DurationMax), m) = x
    BY <1>1, <1>3 DEF Shortest
  <2> HIDE DEF y, z
  <2>2. Shortest(Shortest(y, DurationMax), m) = Shortest(y, m)
    BY <1>1, <1>2 DEF Shortest
  <2> QED BY <2>1, <2>2 DEF y
<1>4. CASE m < x
  <2>1. Shortest(Shortest(x, DurationMax), m) = m
    BY <1>1, <1>4 DEF Shortest
  <2> HIDE DEF y, z
  <2>2. Shortest(Shortest(y, DurationMax), m) = m /\ Shortest(z, m) = m
    BY <1>1, <1>2, <1>4 DEF Shortest
  <2> QED BY <2>1, <2>2 DEF y, z
<1> QED BY <1>1, <1>3, <1>4

LEMMA LinearDelays ==
  ASSUME NEW s \in [kind : {"Linear"}, delay : 0..DurationMax, max : 0..DurationMax],
         NEW n \in Nat
  PROVE  /\ DelayForAttempt(s, 0) = Shortest(s.delay, s.max)
         /\ DelayForAttempt(s, n + 1) = Shortest(DelayForAttempt(s, n) + s.delay, s.max)
<1> DEFINE d == s.delay
           m == s.max
           x == d * (n + 1)
<1>1. d \in Nat /\ d <= DurationMax /\ m \in 0..DurationMax /\ DurationMax \in Nat
  BY BackoffAssumption
<1>2. \A k \in Nat : DelayForAttempt(s, k) = Shortest(Shortest(d * (k + 1), DurationMax), m)
  BY DEF DelayForAttempt, SaturatingMul
<1>3. x \in Nat /\ d * ((n + 1) + 1) = x + d
  <2> HIDE DEF d
  <2>1. (n + 1) * d \in Nat /\ (n + 1) * d = d * (n + 1)
    BY <1>1
  <2>2. ((n + 1) + 1) * d = (n + 1) * d + d /\ d * ((n + 1) + 1) = ((n + 1) + 1) * d
    BY <1>1
  <2> QED BY <2>1, <2>2
<1>4. d * (0 + 1) = d
  BY <1>1
<1> HIDE DEF d, m, x
<1>5. DelayForAttempt(s, 0) = Shortest(d, m)
  <2>1. DelayForAttempt(s, 0) = Shortest(Shortest(d, DurationMax), m)
    BY <1>2, <1>4
  <2> QED BY <1>1, <2>1 DEF Shortest
<1>6. DelayForAttempt(s, n + 1) = Shortest(DelayForAttempt(s, n) + d, m)
  <2>1. DelayForAttempt(s, n + 1) = Shortest(Shortest(x + d, DurationMax), m)
    BY <1>2, <1>3
  <2>2. DelayForAttempt(s, n) = Shortest(Shortest(x, DurationMax), m)
    BY <1>2 DEF x
  <2> QED BY <1>1, <1>3, <2>1, <2>2, CutSums
<1> QED BY <1>5, <1>6 DEF d, m

LEMMA ExponentialDelays ==
  ASSUME NEW s \in [kind : {"Exponential"}, initial : 0..DurationMax, max : 0..DurationMax,
                    multiplier : Nat \ {0}],
         NEW n \in Nat
  PROVE  /\ DelayForAttempt(s, 0)
              = Shortest(s.initial - (s.initial % Millisecond), s.max)
         /\ DelayForAttempt(s, n + 1) = Shortest(DelayForAttempt(s, n) * s.multiplier, s.max)
<1> DEFINE i == s.initial \div Millisecond
           k == s.multiplier
           m == s.max
           p == Powi(k, n)
           x == (i * p) * Millisecond
           whole == s.initial - (s.initial % Millisecond)
<1>1. /\ i \in Nat /\ k \in Nat \ {0} /\ m \in 0..DurationMax /\ DurationMax \in Nat
      /\ Millisecond \in Nat
  BY BackoffAssumption
<1>2. \A j \in Nat : DelayForAttempt(s, j)
        = Shortest(Shortest((i * Powi(k, j)) * Millisecond, DurationMax), m)
  BY DEF DelayForAttempt, Exponential, SaturatingMul
<1>3. Powi(k, 0) = 1 /\ Powi(k, n + 1) = k * p /\ p \in Nat
  <2>1. (n + 1) - 1 = n /\ n + 1 # 0 /\ n + 1 \in Nat
    OBVIOUS
  <2> HIDE DEF k
  <2>2. Powi(k, 0) = 1 /\ Powi(k, n + 1) = k * Powi(k, (n + 1) - 1)
    BY <2>1, PowiIs
  <2>3. p \in Nat
    BY <1>1, PowiGrows
  <2> QED BY <2>1, <2>2, <2>3
<1>4. (i * 1) * Millisecond = whole /\ whole <= DurationMax /\ whole \in Nat
  <2> DEFINE a == s.initial
             rest == a % Millisecond
  <2>1. a \in Nat /\ a <= DurationMax /\ DurationMax \in Nat /\ Millisecond \in Nat \ {0}
    BY BackoffAssumption
  <2> HIDE DEF a
  <2>2. rest \in Nat /\ a = Millisecond * (a \div Millisecond) + rest
    BY <2>1
  <2>3. i = a \div Millisecond /\ whole = a - rest
    BY DEF a
  <2> HIDE DEF i, rest, whole
  <2>4. Millisecond * i \in Nat /\ (i * 1) * Millisecond = Millisecond * i
    BY <1>1, <2>1
  <2> DEFINE z == Millisecond * i
  <2>5. a = z + rest /\ z \in Nat /\ (i * 1) * Millisecond = z
    BY <2>2, <2>3, <2>4
  <2> HIDE DEF z
  <2> QED BY <2>1, <2>2, <2>3, <2>5
<1> HIDE DEF i, k, m, p, whole
<1>5. x \in Nat /\ (i * (k * p)) * Millisecond = x * k
  <2>1. i * p \in Nat /\ i * (k * p) = (i * p) * k
    BY <1>1, <1>3
  <2> DEFINE y == i * p
  <2>2. y \in Nat /\ i * (k * p) = y * k
    BY <2>1
  <2> HIDE DEF y
  <2>3. y * Millisecond \in Nat /\ (y * k) * Millisecond = (y * Millisecond) * k
    BY <1>1, <2>2
  <2> QED BY <2>2, <2>3 DEF y
<1> HIDE DEF x
<1>6. DelayForAttempt(s, 0) = Shortest(whole, m)
  <2>1. DelayForAttempt(s, 0) = Shortest(Shortest(whole, DurationMax), m)
    BY <1>2, <1>3, <1>4
  <2> QED BY <1>1, <1>4, <2>1 DEF Shortest
<1>7. DelayForAttempt(s, n + 1) = Shortest(DelayForAttempt(s, n) * k, m)
  <2>1. DelayForAttempt(s, n + 1) = Shortest(Shortest(x * k, DurationMax), m)
    BY <1>2, <1>3, <1>5
  <2>2. DelayForAttempt(s, n) = Shortest(Shortest(x, DurationMax), m)
    BY <1>2 DEF x, p
  <2> QED BY <1>1, <1>5, <2>1, <2>2, CutProducts
<1> QED BY <1>6, <1>7 DEF k, m, whole

(* From one attempt to any later one. *)
LEMMA LaterDelays ==
  ASSUME Durations \subseteq Nat, Multipliers \subseteq Nat \ {0}, NEW s \in Strategies,
         NEW a \in Nat, NEW b \in Nat, a <= b
  PROVE  DelayForAttempt(s, a) <= DelayForAttempt(s, b)
<1> DEFINE S == {n \in Nat : DelayForAttempt(s, a) <= DelayForAttempt(s, a + n)}
<1>1. 0 \in S
  BY StrategyDelays
<1>2. ASSUME NEW n \in Nat, n \in S PROVE n + 1 \in S
  <2>1. DelayForAttempt(s, a + n) <= DelayForAttempt(s, (a + n) + 1)
    BY StrategyDelays
  <2>2. /\ DelayForAttempt(s, a) \in Nat /\ DelayForAttempt(s, a + n) \in Nat
        /\ DelayForAttempt(s, (a + n) + 1) \in Nat
    BY StrategyDelays
  <2>3. DelayForAttempt(s, a) <= DelayForAttempt(s, (a + n) + 1)
    BY <1>2, <2>1, <2>2
  <2>4. (a + n) + 1 = a + (n + 1)
    OBVIOUS
  <2> QED BY <2>3, <2>4
<1> HIDE DEF S
<1>3. b - a \in Nat /\ b - a \in S /\ a + (b - a) = b
  BY <1>1, <1>2, Induction
<1> QED BY <1>3 DEF S

-----------------------------------------------------------------------------
(* The inductive invariant: a strategy is asked for the delays of attempts 0, 1, *)
(* 2 and so on.                                                                 *)
AttemptsInTurn ==
  of = "delay_for_attempt" =>
    /\ given \in Strategies /\ input \in Seq(Nat)
    /\ \A i \in DOMAIN input : input[i] = i - 1

(* So they are. *)
LEMMA AttemptsComeInTurn == Spec => []AttemptsInTurn
<1>1. Init => AttemptsInTurn
  BY DEF Init, AttemptsInTurn
<1>2. AttemptsInTurn /\ [Next]_vars => AttemptsInTurn'
  <2> SUFFICES ASSUME AttemptsInTurn, [Next]_vars PROVE AttemptsInTurn'
    OBVIOUS
  <2>1. CASE UNCHANGED vars
    BY <2>1 DEF vars, AttemptsInTurn
  <2>2. CASE Next /\ of' = "delay_for_attempt"
    <3>1. PICK piece \in Pieces :
            input' = Append(input, piece) /\ of' = of /\ given' = given
      BY <2>2 DEF Next
    <3>2. of = "delay_for_attempt"
      BY <2>2, <3>1
    <3>3. piece = Len(input)
      BY <3>1, <3>2 DEF Pieces
    <3>4. /\ input \in Seq(Nat) /\ given \in Strategies
          /\ \A i \in DOMAIN input : input[i] = i - 1
      BY <3>2 DEF AttemptsInTurn
    <3>5. input' \in Seq(Nat) /\ \A i \in DOMAIN input' : input'[i] = i - 1
      BY <3>1, <3>3, <3>4
    <3> QED BY <3>1, <3>4, <3>5 DEF AttemptsInTurn
  <2>3. CASE of' # "delay_for_attempt"
    BY <2>3 DEF AttemptsInTurn
  <2> QED BY <2>1, <2>2, <2>3
<1> QED BY <1>1, <1>2, PTL DEF Spec

(* With whole multipliers of at least one, every delay follows from the one     *)
(* before it by the increment or the multiplier until the maximum is reached,   *)
(* and is the maximum from then on (retry.rs, delay_for_attempt): for durations *)
(* and attempts of any size, wherever the products saturate.                    *)
THEOREM DelaysGrowToCap ==
  ASSUME Durations \subseteq 0..DurationMax, Multipliers \subseteq Nat \ {0}
  PROVE  Spec => []GrowsToCap
<1>1. AttemptsInTurn => GrowsToCap
  <2> SUFFICES ASSUME AttemptsInTurn, of = "delay_for_attempt", NEW i \in DOMAIN input
               PROVE  /\ given.kind = "Linear" => Delay(i) =
                           Shortest(IF i = 1 THEN given.delay
                                             ELSE Delay(i - 1) + given.delay, given.max)
                      /\ given.kind = "Exponential" => Delay(i) =
                           Shortest(IF i = 1 THEN given.initial - (given.initial % Millisecond)
                                             ELSE Delay(i - 1) * given.multiplier, given.max)
    BY DEF GrowsToCap
  <2>1. given \in Strategies /\ input \in Seq(Nat) /\ \A j \in DOMAIN input : input[j] = j - 1
    BY DEF AttemptsInTurn
  <2>2. /\ i \in Nat \ {0} /\ Delay(i) = DelayForAttempt(given, i - 1)
        /\ i # 1 => Delay(i - 1) = DelayForAttempt(given, (i - 1) - 1)
    <3>1. i \in 1..Len(input) /\ DOMAIN input = 1..Len(input) /\ Len(input) \in Nat
      BY <2>1
    <3>2. i # 1 => i - 1 \in 1..Len(input)
      BY <3>1
    <3> QED BY <2>1, <3>1, <3>2 DEF Delay
  <2> DEFINE n == (i - 1) - 1
  <2>3. /\ i = 1 => i - 1 = 0
        /\ i # 1 => n \in Nat /\ i - 1 = n + 1
    BY <2>2
  <2> HIDE DEF n
  <2>4. CASE given.kind = "Linear"
    <3>1. given \in [kind : {"Linear"}, delay : 0..DurationMax, max : 0..DurationMax]
      BY <2>1, <2>4 DEF Strategies
    <3>2. CASE i = 1
      BY <2>2, <2>3, <2>4, <3>1, <3>2, LinearDelays
    <3>3. CASE i # 1
      <4>1. DelayForAttempt(given, n + 1)
              = Shortest(DelayForAttempt(given, n) + given.delay, given.max)
        BY <2>3, <3>1, <3>3, LinearDelays
      <4> QED BY <2>2, <2>3, <2>4, <3>3, <4>1 DEF n
    <3> QED BY <3>2, <3>3
  <2>5. CASE given.kind = "Exponential"
    <3>1. given \in [kind : {"Exponential"}, initial : 0..DurationMax, max : 0..DurationMax,
                     multiplier : Nat \ {0}]
      BY <2>1, <2>5 DEF Strategies
    <3>2. CASE i = 1
      BY <2>2, <2>3, <2>5, <3>1, <3>2, ExponentialDelays
    <3>3. CASE i # 1
      <4>1. DelayForAttempt(given, n + 1)
              = Shortest(DelayForAttempt(given, n) * given.multiplier, given.max)
        BY <2>3, <3>1, <3>3, ExponentialDelays
      <4> QED BY <2>2, <2>3, <2>5, <3>3, <4>1 DEF n
    <3> QED BY <3>2, <3>3
  <2> QED BY <2>4, <2>5
<1> QED BY <1>1, AttemptsComeInTurn, PTL

(* With whole multipliers of at least one, a later retry never comes sooner     *)
(* after its failure than an earlier one did: for durations of any size, and    *)
(* from one attempt on to any later one.                                        *)
THEOREM RetriesNeverSooner ==
  ASSUME Durations \subseteq Nat, Multipliers \subseteq Nat \ {0}
  PROVE  Spec => []NeverSooner
<1>1. AttemptsInTurn => NeverSooner
  <2> SUFFICES ASSUME AttemptsInTurn, of = "delay_for_attempt",
                      NEW i \in DOMAIN input, NEW j \in DOMAIN input, i < j
               PROVE  Delay(i) <= Delay(j)
    BY DEF NeverSooner
  <2>1. /\ given \in Strategies /\ input[i] \in Nat /\ input[j] \in Nat
        /\ input[i] <= input[j]
    BY DEF AttemptsInTurn
  <2> QED BY <2>1, LaterDelays DEF Delay
<1> QED BY <1>1, AttemptsComeInTurn, PTL

-----------------------------------------------------------------------------
(* Splitting goes on from the segments found so far, token by token. *)
SplitStep(segs, t, sep) ==
  IF t = sep THEN Append(segs, <<>>) ELSE [segs EXCEPT ![Len(segs)] = Append(@, t)]

SegLists(T) == Seq(Seq(T)) \ {<<>>}
Splitting(T, sep) == [segs \in SegLists(T) |-> [t \in T |-> SplitStep(segs, t, sep)]]

(* A step keeps all segments but the one that is open. *)
LEMMA SplitStepTyped ==
  ASSUME NEW T, NEW segs \in SegLists(T), NEW t \in T, NEW sep
  PROVE  /\ SplitStep(segs, t, sep) \in SegLists(T)
         /\ Len(SplitStep(segs, t, sep)) >= Len(segs)
         /\ \A i \in 1..(Len(segs) - 1) : SplitStep(segs, t, sep)[i] = segs[i]
<1> USE DEF SegLists
<1>1. Len(segs) \in Nat /\ Len(segs) # 0 /\ Len(segs) \in 1..Len(segs)
  OBVIOUS
<1>2. CASE t = sep
  BY <1>1, <1>2 DEF SplitStep
<1>3. CASE t # sep
  <2>1. segs[Len(segs)] \in Seq(T)
    BY <1>1
  <2>2. Append(segs[Len(segs)], t) \in Seq(T)
    BY <2>1
  <2> QED BY <1>1, <1>3, <2>2 DEF SplitStep
<1> QED BY <1>2, <1>3

(* Split takes these steps, one for each token in turn. *)
LEMMA SplitRuns ==
  ASSUME NEW T, NEW s \in Seq(T), NEW sep
  PROVE  Runs(SegLists(T), Splitting(T, sep), << <<>> >>, s, Len(s), Split(s, sep))
<1> DEFINE n == Len(s)
           X == SegLists(T)
           G == Splitting(T, sep)
           b == << <<>> >>
           P(f) == f = [t \in SUBSET (DOMAIN s) |->
                          IF t = {} THEN b ELSE SplitStep(f[t \ {Max(t)}], s[Max(t)], sep)]
           h == CHOOSE f : P(f)
<1>1. DOMAIN s = 1..n /\ n \in Nat /\ \A i \in 1..n : s[i] \in T
  OBVIOUS
<1>2. Split(s, sep) = h[DOMAIN s]
  BY DEF Split, FoldLeft, MapThenFoldSet, SplitStep
<1>3. Foldable(X, T, G, b, s, n)
  BY SplitStepTyped DEF Foldable, Splitting, SegLists
<1>4. \A x \in X, y \in T : G[x][y] = SplitStep(x, y, sep)
  BY DEF Splitting
<1> HIDE DEF X, G, b, n
<1>5. HasFold(X, T, G, b, s, n)
  BY <1>3, FoldingExists
<1>6. PICK f : P(f)
  <2>1. PICK f \in [SUBSET (1..n) -> X] :
          /\ f[{}] = b
          /\ \A t \in SUBSET (1..n) : t # {} =>
               /\ f[t \ {Max(t)}] \in X /\ s[Max(t)] \in T
               /\ f[t] = G[f[t \ {Max(t)}]][s[Max(t)]]
    BY <1>5 DEF HasFold
  <2>2. ASSUME NEW t \in SUBSET (1..n), t # {}
        PROVE  f[t] = SplitStep(f[t \ {Max(t)}], s[Max(t)], sep)
    BY <1>4, <2>1, <2>2
  <2>3. P(f)
    BY <1>1, <2>1, <2>2
  <2> QED BY <2>3
<1>7. P(h)
  BY <1>6
<1> HIDE DEF h
<1>8. ASSUME NEW t \in SUBSET (1..n), t # {}, h[t \ {Max(t)}] \in X
      PROVE  h[t] = G[h[t \ {Max(t)}]][s[Max(t)]]
  BY <1>1, <1>4, <1>5, <1>7, <1>8 DEF HasFold
<1>9. h[{}] = b
  BY <1>7
<1>10. Runs(X, G, b, s, n, h[1..n])
  BY <1>3, <1>8, <1>9, FoldRuns
<1> QED BY <1>1, <1>2, <1>10 DEF n, X, G, b

(* It leaves one segment or more. *)
LEMMA SplitTyped ==
  ASSUME NEW T, NEW s \in Seq(T), NEW sep
  PROVE  Split(s, sep) \in SegLists(T)
<1> QED BY SplitRuns, RunsTyped

(* What begins s, and ends there or is followed by a separator, splits into the *)
(* first of the segments of s: a segment is closed by what follows it.          *)
LEMMA SplitPrefix ==
  ASSUME NEW T, NEW s \in Seq(T), NEW u \in Seq(T), NEW sep,
         Len(u) <= Len(s), \A i \in 1..Len(u) : u[i] = s[i],
         Len(u) # Len(s) => s[Len(u) + 1] = sep
  PROVE  IsPrefix(Split(u, sep), Split(s, sep))
<1> DEFINE X == SegLists(T)
           m == Len(u)
           n == Len(s)
<1>a. /\ Runs(X, Splitting(T, sep), << <<>> >>, u, m, Split(u, sep))
      /\ Runs(X, Splitting(T, sep), << <<>> >>, s, n, Split(s, sep))
  BY SplitRuns
<1>1. /\ m \in Nat /\ n \in Nat /\ m <= n /\ \A i \in 1..n : s[i] \in T
      /\ \A i \in 1..m : u[i] = s[i]
      /\ m # n => s[m + 1] = sep
  OBVIOUS
<1> HIDE DEF X, m, n
<1>2. PICK g \in [0..m -> X] :
        /\ g[0] = << <<>> >> /\ g[m] = Split(u, sep)
        /\ \A k \in 0..m : k < m => g[k + 1] = Splitting(T, sep)[g[k]][u[k + 1]]
  BY <1>a DEF Runs
<1>3. PICK h \in [0..n -> X] :
        /\ h[0] = << <<>> >> /\ h[n] = Split(s, sep)
        /\ \A k \in 0..n : k < n => h[k + 1] = Splitting(T, sep)[h[k]][s[k + 1]]
  BY <1>a DEF Runs
<1>4. g[m] = h[m]
  <2> DEFINE S == {k \in Nat : k <= m => g[k] = h[k]}
  <2>1. 0 \in S
    BY <1>2, <1>3
  <2>2. ASSUME NEW k \in Nat, k \in S PROVE k + 1 \in S
    <3> SUFFICES ASSUME k + 1 <= m PROVE g[k + 1] = h[k + 1]
      OBVIOUS
    <3>1. k \in 0..m /\ k \in 0..n /\ k < m /\ k < n /\ u[k + 1] = s[k + 1] /\ g[k] = h[k]
      BY <1>1, <2>2
    <3> QED BY <1>2, <1>3, <3>1
  <2> HIDE DEF S
  <2>3. m \in S
    BY <1>1, <2>1, <2>2, Induction
  <2> QED BY <1>1, <2>3 DEF S
<1> DEFINE segs == h[m]
           l == Len(h[m])
<1>5. segs \in X /\ segs \in Seq(Seq(T)) /\ l \in Nat /\ l # 0
  BY <1>1, <1>3 DEF X, SegLists
<1>6. ASSUME NEW k \in 0..n, k < n
      PROVE  /\ h[k] \in X /\ s[k + 1] \in T
             /\ h[k + 1] = SplitStep(h[k], s[k + 1], sep)
  <2>1. h[k] \in X /\ s[k + 1] \in T
    BY <1>1, <1>3, <1>6
  <2> QED BY <1>3, <1>6, <2>1 DEF Splitting, X
<1> HIDE DEF segs, l
<1>7. ASSUME m # n
      PROVE  Len(h[n]) > l /\ \A i \in 1..l : h[n][i] = segs[i]
  <2> DEFINE Kept(k) == Len(h[k]) > l /\ \A i \in 1..l : h[k][i] = segs[i]
             S == {j \in Nat : m + 1 + j <= n => Kept(m + 1 + j)}
  <2>1. Kept(m + 1)
    <3>1. h[m + 1] = Append(segs, <<>>)
      <4>1. m \in 0..n /\ m < n /\ s[m + 1] = sep
        BY <1>1, <1>7
      <4> QED BY <1>6, <4>1 DEF SplitStep, segs
    <3> QED BY <1>5, <3>1 DEF l, segs
  <2>2. ASSUME NEW k \in 0..n, k < n, Kept(k) PROVE Kept(k + 1)
    <3> DEFINE x == h[k]
               y == SplitStep(h[k], s[k + 1], sep)
    <3>1. /\ y \in X /\ x \in X /\ Len(y) >= Len(x)
          /\ \A i \in 1..(Len(x) - 1) : y[i] = x[i]
      BY <1>6, <2>2, SplitStepTyped DEF X
    <3>2. Len(x) \in Nat /\ Len(y) \in Nat
      BY <3>1 DEF X, SegLists
    <3>3. h[k + 1] = y
      BY <1>6, <2>2
    <3>4. Len(x) > l /\ \A i \in 1..l : x[i] = segs[i]
      BY <2>2
    <3> HIDE DEF x, y
    <3>5. Len(y) > l /\ \A i \in 1..l : y[i] = segs[i]
      <4>1. \A i \in 1..l : i \in 1..(Len(x) - 1)
        BY <1>5, <3>2, <3>4
      <4> QED BY <1>5, <3>1, <3>2, <3>4, <4>1
    <3> QED BY <3>3, <3>5
  <2> HIDE DEF Kept
  <2>3. 0 \in S
    BY <1>1, <2>1
  <2>4. ASSUME NEW j \in Nat, j \in S PROVE j + 1 \in S
    <3> SUFFICES ASSUME m + 1 + (j + 1) <= n PROVE Kept(m + 1 + (j + 1))
      OBVIOUS
    <3> DEFINE k == m + 1 + j
    <3>1. k \in 0..n /\ k < n /\ Kept(k) /\ m + 1 + (j + 1) = k + 1
      BY <1>1, <2>4
    <3> HIDE DEF k
    <3> QED BY <2>2, <3>1
  <2> HIDE DEF S
  <2>a. n - m - 1 \in Nat
    BY <1>1, <1>7
  <2>b. Nat \subseteq S
    BY <2>3, <2>4, Induction
  <2>5. n - m - 1 \in Nat /\ n - m - 1 \in S
    BY <2>a, <2>b
  <2>6. m + 1 + (n - m - 1) = n
    BY <1>1
  <2>7. Kept(n)
    BY <1>1, <2>5, <2>6 DEF S
  <2> QED BY <2>7 DEF Kept
<1>8. Len(segs) <= Len(h[n]) /\ \A i \in 1..Len(segs) : segs[i] = h[n][i]
  BY <1>5, <1>7 DEF l, segs
<1>9. segs = Split(u, sep) /\ h[n] = Split(s, sep) /\ h[n] \in Seq(Seq(T))
  BY <1>1, <1>2, <1>3, <1>4 DEF segs, X, SegLists
<1>10. IsPrefix(segs, h[n])
  BY <1>5, <1>8, <1>9, PrefixIs
<1> QED BY <1>9, <1>10

(* One token more makes one step more. *)
LEMMA SplitAppend ==
  ASSUME NEW T, NEW s \in Seq(T), NEW t \in T, NEW sep
  PROVE  Split(Append(s, t), sep) = SplitStep(Split(s, sep), t, sep)
<1> DEFINE X == SegLists(T)
           m == Len(s)
           r == Append(s, t)
<1>1. /\ m \in Nat /\ r \in Seq(T) /\ Len(r) = m + 1 /\ r[m + 1] = t
      /\ \A i \in 1..m : s[i] = r[i]
  OBVIOUS
<1>2. /\ Runs(X, Splitting(T, sep), << <<>> >>, s, m, Split(s, sep))
      /\ Runs(X, Splitting(T, sep), << <<>> >>, r, m + 1, Split(r, sep))
  <2> HIDE DEF r
  <2> QED BY <1>1, SplitRuns
<1> HIDE DEF X, m, r
<1>3. Split(s, sep) \in X /\ Split(r, sep) = Splitting(T, sep)[Split(s, sep)][t]
  BY <1>1, <1>2, RunsAppend
<1> QED BY <1>3 DEF Splitting, X, r

(* No token makes one segment, an empty one. *)
LEMMA SplitNothing ==
  ASSUME NEW sep PROVE Split(<<>>, sep) = << <<>> >>
<1> DEFINE s == <<>>
           X == SegLists({})
<1>1. s \in Seq({}) /\ Len(s) = 0
  OBVIOUS
<1> HIDE DEF s
<1>2. Runs(X, Splitting({}, sep), << <<>> >>, s, 0, Split(s, sep))
  BY <1>1, SplitRuns
<1> HIDE DEF X
<1>3. Split(s, sep) = << <<>> >>
  BY <1>2 DEF Runs
<1> QED BY <1>3 DEF s

(* The step, as what it puts at the end. *)
LEMMA SplitStepIs ==
  ASSUME NEW T, NEW segs \in SegLists(T), NEW t \in T, NEW sep
  PROVE  /\ Front(segs) \in Seq(Seq(T)) /\ Last(segs) \in Seq(T)
         /\ segs = Append(Front(segs), Last(segs))
         /\ t # sep => SplitStep(segs, t, sep) = Append(Front(segs), Append(Last(segs), t))
<1> DEFINE l == Len(segs)
           f == Front(segs)
           e == Last(segs)
<1>1. /\ segs \in Seq(Seq(T)) /\ segs # <<>> /\ l \in Nat /\ l # 0 /\ e = segs[l]
  BY DEF SegLists, Last
<1>2. f \in Seq(Seq(T)) /\ e \in Seq(T) /\ Len(f) = l - 1 /\ segs = Append(f, e)
  BY <1>1, FrontAndLast
<1>3. ASSUME t # sep PROVE SplitStep(segs, t, sep) = Append(f, Append(e, t))
  <2> DEFINE x == SplitStep(segs, t, sep)
             y == Append(f, Append(e, t))
  <2>1. x = [segs EXCEPT ![l] = Append(e, t)]
    BY <1>1, <1>3 DEF SplitStep
  <2>2. Append(e, t) \in Seq(T)
    BY <1>2
  <2> HIDE DEF e, f
  <2>3. x \in Seq(Seq(T)) /\ Len(x) = l /\ x[l] = Append(e, t)
        /\ \A i \in 1..(l - 1) : x[i] = segs[i]
    BY <1>1, <2>1, <2>2
  <2>4. y \in Seq(Seq(T)) /\ Len(y) = l /\ y[l] = Append(e, t)
        /\ \A i \in 1..(l - 1) : y[i] = f[i]
    BY <1>1, <1>2, <2>2
  <2>5. \A i \in 1..(l - 1) : segs[i] = f[i]
    BY <1>1, <1>2
  <2>6. \A i \in 1..l : i = l \/ i \in 1..(l - 1)
    BY <1>1
  <2> HIDE DEF x, y
  <2>7. \A i \in 1..l : x[i] = y[i]
    BY <2>3, <2>4, <2>5, <2>6
  <2>8. x = y
    BY <2>3, <2>4, <2>7, SameElements
  <2> QED BY <2>8 DEF x, y, f, e
<1> QED BY <1>1, <1>2, <1>3

(* A segment left open by a separator is empty, and no other is. *)
LEMMA StepEnds ==
  ASSUME NEW T, NEW segs \in SegLists(T), NEW t \in T, NEW sep
  PROVE  \E p \in Seq(Seq(T)), q \in Seq(T) :
           /\ SplitStep(segs, t, sep) = Append(p, q)
           /\ q = <<>> <=> t = sep
           /\ t = sep => p = segs
<1>1. CASE t = sep
  <2>1. SplitStep(segs, t, sep) = Append(segs, <<>>) /\ segs \in Seq(Seq(T)) /\ <<>> \in Seq(T)
    BY <1>1 DEF SplitStep, SegLists
  <2> QED BY <1>1, <2>1
<1>2. CASE t # sep
  <2> DEFINE f == Front(segs)
             e == Last(segs)
  <2>1. f \in Seq(Seq(T)) /\ e \in Seq(T) /\ SplitStep(segs, t, sep) = Append(f, Append(e, t))
    BY <1>2, SplitStepIs
  <2> HIDE DEF e, f
  <2>2. Append(e, t) \in Seq(T) /\ Append(e, t) # <<>>
    <3>1. Len(e) \in Nat /\ Len(Append(e, t)) = Len(e) + 1
      BY <2>1
    <3>2. Append(e, t) # <<>>
      BY <3>1
    <3> QED BY <2>1, <3>2
  <2> QED BY <1>2, <2>1, <2>2
<1> QED BY <1>1, <1>2

(* Segments in front do not matter to a step. *)
LEMMA StepBehind ==
  ASSUME NEW T, NEW e \in Seq(Seq(T)), NEW s \in SegLists(T), NEW t \in T, NEW sep
  PROVE  SplitStep(e \o s, t, sep) = e \o SplitStep(s, t, sep)
<1>1. /\ s \in Seq(Seq(T)) /\ Len(s) \in Nat /\ Len(s) # 0
      /\ Len(e \o s) = Len(e) + Len(s) /\ (e \o s)[Len(e) + Len(s)] = s[Len(s)]
  BY DEF SegLists
<1>2. CASE t = sep
  <2>1. <<>> \in Seq(T) /\ e \in Seq(Seq(T)) /\ s \in Seq(Seq(T))
    BY <1>1
  <2>2. Moves(e, s, <<>>)
    BY <2>1, AppendBehind
  <2> QED BY <1>2, <2>2 DEF SplitStep, Moves
<1>3. CASE t # sep
  <2> DEFINE v == Append(s[Len(s)], t)
  <2>1. v \in Seq(T)
    BY <1>1
  <2>2. [(e \o s) EXCEPT ![Len(e) + Len(s)] = v] = e \o [s EXCEPT ![Len(s)] = v]
    <3> HIDE DEF v
    <3> QED BY <1>1, <2>1, ChangedBehind
  <2> QED BY <1>1, <1>3, <2>2 DEF SplitStep
<1> QED BY <1>2, <1>3

(* Paths glued together by a separator: the segments of both. *)
LEMMA SplitGlued ==
  ASSUME NEW T, NEW sep \in T, NEW a \in Seq(T), NEW c \in Seq(T)
  PROVE  Split((a \o <<sep>>) \o c, sep) = Split(a, sep) \o Split(c, sep)
<1> DEFINE Glued(x) == Split((a \o <<sep>>) \o x, sep) = Split(a, sep) \o Split(x, sep)
           S == {x \in Seq(T) : Glued(x)}
           e == Split(a, sep)
<1>a. e \in Seq(Seq(T)) /\ e \in SegLists(T)
  BY SplitTyped DEF SegLists
<1>b. a \o <<sep>> = Append(a, sep) /\ a \o <<sep>> \in Seq(T)
  OBVIOUS
<1>1. <<>> \in S
  <2>1. (a \o <<sep>>) \o <<>> = Append(a, sep)
    BY <1>b
  <2>2. Split(Append(a, sep), sep) = Append(e, <<>>)
    BY SplitAppend DEF SplitStep
  <2>3. Append(e, <<>>) = e \o << <<>> >>
    <3> HIDE DEF e
    <3>1. <<>> \in Seq(T)
      OBVIOUS
    <3> QED BY <1>a, <3>1
  <2>4. Split(<<>>, sep) = << <<>> >> /\ <<>> \in Seq(T)
    BY SplitNothing
  <2> QED BY <2>1, <2>2, <2>3, <2>4
<1>2. ASSUME NEW x \in Seq(T), NEW t \in T, x \in S PROVE Append(x, t) \in S
  <2>1. Glued(x)
    BY <1>2
  <2> DEFINE ax == (a \o <<sep>>) \o x
             s == Split(x, sep)
  <2>2. ax \in Seq(T) /\ (a \o <<sep>>) \o Append(x, t) = Append(ax, t)
    BY <1>b
  <2>3. s \in SegLists(T)
    BY SplitTyped
  <2> HIDE DEF e, s, ax
  <2>4. Split(Append(x, t), sep) = SplitStep(s, t, sep)
    BY SplitAppend DEF s
  <2>5. Split(Append(ax, t), sep) = SplitStep(e \o s, t, sep)
    <3>1. Split(Append(ax, t), sep) = SplitStep(Split(ax, sep), t, sep)
      BY <2>2, SplitAppend
    <3>2. Split(ax, sep) = e \o s
      BY <2>1 DEF ax, e, s
    <3> QED BY <3>1, <3>2
  <2>6. SplitStep(e \o s, t, sep) = e \o SplitStep(s, t, sep)
    BY <1>a, <2>3, StepBehind
  <2>7. Append(x, t) \in Seq(T)
    OBVIOUS
  <2> QED BY <2>2, <2>4, <2>5, <2>6, <2>7 DEF e
<1> HIDE DEF S
<1>3. Seq(T) \subseteq S
  BY <1>1, <1>2, SequencesGrow
<1> QED BY <1>3 DEF S

(* A separator in front opens one segment more. *)
LEMMA SplitBehind ==
  ASSUME NEW T, NEW sep \in T
  PROVE  \A c \in Seq(T) : Tail(Split(<<sep>> \o c, sep)) = Split(c, sep)
<1> SUFFICES ASSUME NEW c \in Seq(T) PROVE Tail(Split(<<sep>> \o c, sep)) = Split(c, sep)
  OBVIOUS
<1> DEFINE s == Split(c, sep)
<1>1. <<>> \in Seq(T) /\ (<<>> \o <<sep>>) \o c = <<sep>> \o c
  OBVIOUS
<1>2. Split((<<>> \o <<sep>>) \o c, sep) = Split(<<>>, sep) \o s
  BY <1>1, SplitGlued
<1>3. s \in Seq(Seq(T))
  BY SplitTyped DEF SegLists
<1> HIDE DEF s
<1>4. Tail(<< <<>> >> \o s) = s
  BY <1>3
<1> QED BY <1>1, <1>2, <1>4, SplitNothing DEF s

-----------------------------------------------------------------------------
(* The parts of a path are paths over the same tokens, and so is what the folds *)
(* over them leave.                                                             *)
LEMMA TrimStartTyped ==
  ASSUME NEW T, NEW path \in Seq(T), NEW t
  PROVE  TrimStart(path, t) \in Seq(T)
<1> DEFINE n == Len(path)
           I == {i \in 1..n : path[i] # t}
           k == IF I # {} THEN Min(I) ELSE 0
<1>1. TrimStart(path, t) = IF k = 0 THEN <<>> ELSE SubSeq(path, k, n)
  BY DEF TrimStart, SelectInSeq
<1>2. n \in Nat /\ I \subseteq 1..n
  OBVIOUS
<1>3. k \in 0..n
  <2> HIDE DEF I, n
  <2> QED BY <1>2, Selected
<1> HIDE DEF k
<1> QED BY <1>1, <1>3

(* What stands before a token. *)
LEMMA BeforeTyped ==
  ASSUME NEW T, NEW path \in Seq(T), NEW stops
  PROVE  Before(path, stops) \in Seq(T)
<1> DEFINE n == Len(path)
           I == {i \in 1..n : path[i] \in stops}
           k == IF I # {} THEN Min(I) ELSE 0
<1>1. Before(path, stops) = IF k = 0 THEN path ELSE SubSeq(path, 1, k - 1)
  BY DEF Before, SelectInSeq
<1>2. n \in Nat /\ I \subseteq 1..n
  OBVIOUS
<1>3. k \in 0..n
  <2> HIDE DEF I, n
  <2> QED BY <1>2, Selected
<1> HIDE DEF k
<1> QED BY <1>1, <1>3

(* Only the tokens t at its end are trimmed. *)
LEMMA TrimEndIs ==
  ASSUME NEW T, NEW path \in Seq(T), NEW t
  PROVE  LET u == TrimEnd(path, t)
         IN  /\ u \in Seq(T) /\ Len(u) <= Len(path)
             /\ \A i \in 1..Len(u) : u[i] = path[i]
             /\ \A i \in 1..Len(path) : i > Len(u) => path[i] = t
             /\ Len(u) # 0 => u[Len(u)] # t
<1> DEFINE n == Len(path)
           I == {i \in 1..n : path[i] # t}
           k == IF I # {} THEN Max(I) ELSE 0
<1>1. TrimEnd(path, t) = SubSeq(path, 1, k)
  BY DEF TrimEnd, SelectLastInSeq
<1>2. n \in Nat /\ I \subseteq 1..n
  OBVIOUS
<1>3. k \in 0..n /\ (\A i \in I : i <= k) /\ (k # 0 => path[k] # t)
  <2>1. ASSUME NEW i \in I PROVE i <= Max(I)
    <3> HIDE DEF I, n
    <3> QED BY <1>2, MaxOf
  <2>2. \A i \in I : i <= k
    BY <2>1
  <2>3. k \in 0..n
    <3> HIDE DEF I, n
    <3> QED BY <1>2, Selected
  <2>4. I # {} => Max(I) \in I
    <3> HIDE DEF I, n
    <3> QED BY <1>2, MaxOf
  <2>5. k # 0 => path[k] # t
    BY <2>4
  <2> QED BY <2>2, <2>3, <2>5
<1>4. \A i \in 1..n : i \notin I => path[i] = t
  OBVIOUS
<1> HIDE DEF k, I
<1>5. /\ SubSeq(path, 1, k) \in Seq(T) /\ Len(SubSeq(path, 1, k)) = k
      /\ \A i \in 1..k : SubSeq(path, 1, k)[i] = path[i]
  BY <1>3
<1>6. \A i \in 1..n : i > k => path[i] = t
  BY <1>3, <1>4
<1> QED BY <1>1, <1>2, <1>3, <1>5, <1>6

(* The step of WithoutTabs. *)
Keep(done, c) == IF c = "tab" THEN done ELSE Append(done, c)

(* Dropping tabs leaves a path of the same tokens. *)
LEMMA WithoutTabsTyped ==
  ASSUME NEW T, NEW s \in Seq(T)
  PROVE  WithoutTabs(s) \in Seq(T)
<1> DEFINE n == Len(s)
           X == Seq(T)
           Y == T
           G == [x \in X |-> [y \in Y |-> Keep(x, y)]]
           b == <<>>
           P(f) == f = [t \in SUBSET (DOMAIN s) |->
                          IF t = {} THEN b ELSE Keep(f[t \ {Max(t)}], s[Max(t)])]
           h == CHOOSE f : P(f)
<1>1. DOMAIN s = 1..n /\ n \in Nat /\ n = Len(s) /\ \A i \in 1..n : s[i] \in Y
  OBVIOUS
<1>2. WithoutTabs(s) = h[DOMAIN s]
  BY DEF WithoutTabs, Keep, FoldLeft, MapThenFoldSet
<1>a. \A x \in X, y \in Y : Keep(x, y) \in X
  BY DEF Keep
<1>3. Foldable(X, Y, G, b, s, n)
  BY <1>1, <1>a DEF Foldable
<1>4. \A x \in X, y \in Y : G[x][y] = Keep(x, y)
  OBVIOUS
<1> HIDE DEF X, Y, G, b, n
<1>5. HasFold(X, Y, G, b, s, n)
  BY <1>3, FoldingExists
<1>6. PICK f : P(f)
  <2>1. PICK f \in [SUBSET (1..n) -> X] :
          /\ f[{}] = b
          /\ \A t \in SUBSET (1..n) : t # {} =>
               /\ f[t \ {Max(t)}] \in X /\ s[Max(t)] \in Y
               /\ f[t] = G[f[t \ {Max(t)}]][s[Max(t)]]
    BY <1>5 DEF HasFold
  <2>2. ASSUME NEW t \in SUBSET (1..n), t # {}
        PROVE  f[t] = Keep(f[t \ {Max(t)}], s[Max(t)])
    BY <1>4, <2>1, <2>2
  <2>3. P(f)
    BY <1>1, <2>1, <2>2
  <2> QED BY <2>3
<1>7. P(h)
  BY <1>6
<1> HIDE DEF h
<1>8. ASSUME NEW t \in SUBSET (1..n), t # {}, h[t \ {Max(t)}] \in X
      PROVE  h[t] = G[h[t \ {Max(t)}]][s[Max(t)]]
  <2>1. h[t] = Keep(h[t \ {Max(t)}], s[Max(t)])
    BY <1>1, <1>7, <1>8
  <2>2. s[Max(t)] \in Y
    BY <1>5, <1>8 DEF HasFold
  <2> QED BY <1>4, <1>8, <2>1, <2>2
<1>9. h[{}] = b
  BY <1>7
<1>10. Runs(X, G, b, s, n, h[1..n])
  BY <1>3, <1>8, <1>9, FoldRuns
<1>11. h[1..n] \in X
  BY <1>1, <1>10, RunsTyped
<1> QED BY <1>1, <1>2, <1>11 DEF X

(* The step of Slashed. *)
Glue(done, seg) == done \o <<"/">> \o seg

Gluing(T) == [x \in Seq(T) |-> [y \in Seq(T) |-> Glue(x, y)]]

(* Slashed takes these steps, one for each segment in turn. *)
LEMMA SlashedRuns ==
  ASSUME NEW T, "/" \in T, NEW s \in Seq(Seq(T))
  PROVE  Runs(Seq(T), Gluing(T), <<>>, s, Len(s), Slashed(s))
<1> DEFINE n == Len(s)
           X == Seq(T)
           Y == Seq(T)
           G == Gluing(T)
           b == <<>>
           P(f) == f = [t \in SUBSET (DOMAIN s) |->
                          IF t = {} THEN b ELSE Glue(f[t \ {Max(t)}], s[Max(t)])]
           h == CHOOSE f : P(f)
<1>1. DOMAIN s = 1..n /\ n \in Nat /\ n = Len(s) /\ \A i \in 1..n : s[i] \in Y
  OBVIOUS
<1>2. Slashed(s) = h[DOMAIN s]
  BY DEF Slashed, Glue, FoldLeft, MapThenFoldSet
<1>a. \A x \in X, y \in Y : Glue(x, y) \in X
  BY DEF Glue
<1>3. Foldable(X, Y, G, b, s, n)
  BY <1>1, <1>a DEF Foldable, Gluing
<1>4. \A x \in X, y \in Y : G[x][y] = Glue(x, y)
  BY DEF Gluing
<1> HIDE DEF X, Y, G, b, n
<1>5. HasFold(X, Y, G, b, s, n)
  BY <1>3, FoldingExists
<1>6. PICK f : P(f)
  <2>1. PICK f \in [SUBSET (1..n) -> X] :
          /\ f[{}] = b
          /\ \A t \in SUBSET (1..n) : t # {} =>
               /\ f[t \ {Max(t)}] \in X /\ s[Max(t)] \in Y
               /\ f[t] = G[f[t \ {Max(t)}]][s[Max(t)]]
    BY <1>5 DEF HasFold
  <2>2. ASSUME NEW t \in SUBSET (1..n), t # {}
        PROVE  f[t] = Glue(f[t \ {Max(t)}], s[Max(t)])
    BY <1>4, <2>1, <2>2
  <2>3. P(f)
    BY <1>1, <2>1, <2>2
  <2> QED BY <2>3
<1>7. P(h)
  BY <1>6
<1> HIDE DEF h
<1>8. ASSUME NEW t \in SUBSET (1..n), t # {}, h[t \ {Max(t)}] \in X
      PROVE  h[t] = G[h[t \ {Max(t)}]][s[Max(t)]]
  <2>1. h[t] = Glue(h[t \ {Max(t)}], s[Max(t)])
    BY <1>1, <1>7, <1>8
  <2>2. s[Max(t)] \in Y
    BY <1>5, <1>8 DEF HasFold
  <2> QED BY <1>4, <1>8, <2>1, <2>2
<1>9. h[{}] = b
  BY <1>7
<1>10. Runs(X, G, b, s, n, h[1..n])
  BY <1>3, <1>8, <1>9, FoldRuns
<1> QED BY <1>1, <1>2, <1>10 DEF X, G, b, n

(* Segments put behind slashes make a path. *)
LEMMA SlashedTyped ==
  ASSUME NEW T, "/" \in T, NEW s \in Seq(Seq(T))
  PROVE  Slashed(s) \in Seq(T)
<1>1. Len(s) \in Nat /\ Runs(Seq(T), Gluing(T), <<>>, s, Len(s), Slashed(s))
  BY SlashedRuns
<1> QED BY <1>1, RunsTyped

(* The step of Walk. *)
WalkStep(walked, seg) ==
  CASE seg \in Double -> IF walked = <<>> THEN walked ELSE Front(walked)
    [] seg \in Single -> walked
    [] OTHER          -> Append(walked, seg)

Walking(T) == [x \in Seq(Seq(T)) |-> [y \in Seq(T) |-> WalkStep(x, y)]]

(* Walk takes these steps, one for each segment in turn. *)
LEMMA WalkRuns ==
  ASSUME NEW T, NEW s \in Seq(Seq(T))
  PROVE  Runs(Seq(Seq(T)), Walking(T), <<>>, s, Len(s), Walk(s))
<1> DEFINE n == Len(s)
           X == Seq(Seq(T))
           Y == Seq(T)
           G == Walking(T)
           b == <<>>
           P(f) == f = [t \in SUBSET (DOMAIN s) |->
                          IF t = {} THEN b ELSE WalkStep(f[t \ {Max(t)}], s[Max(t)])]
           h == CHOOSE f : P(f)
<1>1. DOMAIN s = 1..n /\ n \in Nat /\ n = Len(s) /\ \A i \in 1..n : s[i] \in Y
  OBVIOUS
<1>2. Walk(s) = h[DOMAIN s]
  BY DEF Walk, WalkStep, FoldLeft, MapThenFoldSet
<1>a. \A x \in X, y \in Y : WalkStep(x, y) \in X
  <2>1. ASSUME NEW x \in Seq(Seq(T)), x # <<>> PROVE Front(x) \in Seq(Seq(T))
    BY <2>1 DEF Front
  <2> QED BY <2>1 DEF WalkStep
<1>3. Foldable(X, Y, G, b, s, n)
  BY <1>1, <1>a DEF Foldable, Walking
<1>4. \A x \in X, y \in Y : G[x][y] = WalkStep(x, y)
  BY DEF Walking
<1> HIDE DEF X, Y, G, b, n
<1>5. HasFold(X, Y, G, b, s, n)
  BY <1>3, FoldingExists
<1>6. PICK f : P(f)
  <2>1. PICK f \in [SUBSET (1..n) -> X] :
          /\ f[{}] = b
          /\ \A t \in SUBSET (1..n) : t # {} =>
               /\ f[t \ {Max(t)}] \in X /\ s[Max(t)] \in Y
               /\ f[t] = G[f[t \ {Max(t)}]][s[Max(t)]]
    BY <1>5 DEF HasFold
  <2>2. ASSUME NEW t \in SUBSET (1..n), t # {}
        PROVE  f[t] = WalkStep(f[t \ {Max(t)}], s[Max(t)])
    BY <1>4, <2>1, <2>2
  <2>3. P(f)
    BY <1>1, <2>1, <2>2
  <2> QED BY <2>3
<1>7. P(h)
  BY <1>6
<1> HIDE DEF h
<1>8. ASSUME NEW t \in SUBSET (1..n), t # {}, h[t \ {Max(t)}] \in X
      PROVE  h[t] = G[h[t \ {Max(t)}]][s[Max(t)]]
  <2>1. h[t] = WalkStep(h[t \ {Max(t)}], s[Max(t)])
    BY <1>1, <1>7, <1>8
  <2>2. s[Max(t)] \in Y
    BY <1>5, <1>8 DEF HasFold
  <2> QED BY <1>4, <1>8, <2>1, <2>2
<1>9. h[{}] = b
  BY <1>7
<1>10. Runs(X, G, b, s, n, h[1..n])
  BY <1>3, <1>8, <1>9, FoldRuns
<1> QED BY <1>1, <1>2, <1>10 DEF X, G, b, n

(* The walk leaves segments of the path, and no new ones. *)
LEMMA WalkTyped ==
  ASSUME NEW T, NEW s \in Seq(Seq(T))
  PROVE  Walk(s) \in Seq(Seq(T))
<1>1. Len(s) \in Nat /\ Runs(Seq(Seq(T)), Walking(T), <<>>, s, Len(s), Walk(s))
  BY WalkRuns
<1> QED BY <1>1, RunsTyped

(* The path as the code reads it. *)
LEMMA CleanedTyped ==
  ASSUME NEW T, "/" \in T, NEW path \in Seq(T)
  PROVE  Cleaned(path) \in Seq(T)
<1> DEFINE kept == WithoutTabs(path)
           slashes == [i \in DOMAIN kept |-> IF kept[i] = "\\" THEN "/" ELSE kept[i]]
<1>1. kept \in Seq(T)
  BY WithoutTabsTyped
<1>2. slashes \in Seq(T)
  <2> HIDE DEF kept
  <2> QED BY <1>1
<1> HIDE DEF slashes
<1>3. TrimStart(slashes, " ") \in Seq(T)
  BY <1>2, TrimStartTyped
<1> QED BY <1>3 DEF Cleaned, slashes

(* The path as the URL parser reads it. *)
LEMMA NormalTyped ==
  ASSUME NEW T, "/" \in T, NEW path \in Seq(T)
  PROVE  Normal(path) \in Seq(T)
<1> DEFINE whole == Before(TrimEnd(path, " "), {"?"})
           segs == Tail(Split(whole, "/"))
<1>1. TrimEnd(path, " ") \in Seq(T)
  BY TrimEndIs
<1>2. whole \in Seq(T)
  BY <1>1, BeforeTyped
<1> HIDE DEF whole
<1>3. Split(whole, "/") \in Seq(Seq(T)) /\ Split(whole, "/") # <<>>
  BY <1>2, SplitTyped DEF SegLists
<1>4. segs \in Seq(Seq(T))
  BY <1>3
<1> HIDE DEF segs
<1>5. Walk(segs) \in Seq(Seq(T))
  BY <1>4, WalkTyped
<1>6. Append(Walk(segs), <<>>) \in Seq(Seq(T))
  BY <1>5
<1>7. Segments(path) \in Seq(Seq(T))
  BY <1>5, <1>6 DEF Segments, segs, whole
<1> QED BY <1>7, SlashedTyped DEF Normal

(* The base and the path put together. *)
LEMMA JoinedTyped ==
  ASSUME NEW T, "/" \in T, NEW base \in Seq(T), NEW path \in Seq(T)
  PROVE  Joined(base, path) \in Seq(T)
<1>1. TrimEnd(base, "/") \in Seq(T) /\ TrimStart(path, "/") \in Seq(T)
  BY TrimEndIs, TrimStartTyped
<1>2. <<"/">> \in Seq(T)
  OBVIOUS
<1> QED BY <1>1, <1>2 DEF Joined

-----------------------------------------------------------------------------
(* resolve_against_base, for every base_url and every path put together from    *)
(* tokens of any kind: a path that is not refused is requested at the base path *)
(* or below it, segment by segment, whatever slashes, dots or blanks either has.*)
THEOREM ResolveConfines ==
  ASSUME NEW T, "/" \in T, NEW base \in Seq(T), base # <<>>, NEW path \in Seq(T),
         ResolveAgainstBase(base, path) # "refused"
  PROVE  IsPrefix(Split(TrimEnd(base, "/"), "/"),
                  Split(ResolveAgainstBase(base, path), "/"))
<1> DEFINE cleaned == Cleaned(path)
           url == Normal(Joined(base, cleaned))
           u == TrimEnd(base, "/")
           d == AsDir(base)
           e == AsDir(url)
<1>1. ResolveAgainstBase(base, path) = url /\ IsPrefix(d, e)
  BY DEF ResolveAgainstBase, Refuses, Requested
<1>2. url \in Seq(T)
  <2>1. cleaned \in Seq(T)
    BY CleanedTyped
  <2> HIDE DEF cleaned
  <2>2. Joined(base, cleaned) \in Seq(T)
    BY <2>1, JoinedTyped
  <2> QED BY <2>2, NormalTyped
<1>3. /\ u \in Seq(T) /\ Len(u) <= Len(base)
      /\ \A i \in 1..Len(u) : u[i] = base[i]
      /\ \A i \in 1..Len(base) : i > Len(u) => base[i] = "/"
      /\ Len(u) # 0 => u[Len(u)] # "/"
  BY TrimEndIs
<1> HIDE DEF url, u
<1>4. /\ d \in Seq(T) /\ Len(u) < Len(d) /\ d[Len(u) + 1] = "/"
      /\ \A i \in 1..Len(u) : d[i] = u[i]
  <2> DEFINE k == Len(u)
             n == Len(base)
  <2>1. k \in Nat /\ n \in Nat /\ n # 0 /\ k <= n
    BY <1>3
  <2>2. CASE k < n
    <3>1. Last(base) = "/"
      BY <1>3, <2>1, <2>2 DEF Last
    <3>2. d = base
      BY <3>1 DEF AsDir
    <3>3. k + 1 \in 1..n
      BY <2>1, <2>2
    <3> QED BY <1>3, <2>1, <2>2, <3>2, <3>3
  <2>3. CASE k = n
    <3>1. Last(base) # "/"
      BY <1>3, <2>1, <2>3 DEF Last
    <3>2. d = Append(base, "/")
      BY <3>1 DEF AsDir
    <3> QED BY <1>3, <2>1, <2>3, <3>2
  <2> QED BY <2>1, <2>2, <2>3
<1>5. e = url \/ e = Append(url, "/")
  BY DEF AsDir
<1> HIDE DEF d, e
<1>6. /\ e \in Seq(T) /\ Len(e) <= Len(url) + 1
      /\ \A i \in 1..Len(url) : e[i] = url[i]
  <2>1. CASE e = url
    BY <1>2, <2>1
  <2>2. CASE e = Append(url, "/")
    BY <1>2, <2>2
  <2> QED BY <1>5, <2>1, <2>2
<1>7. Len(d) <= Len(e) /\ \A i \in 1..Len(d) : d[i] = e[i]
  BY <1>1, <1>4, <1>6, PrefixIs
<1>8. Len(u) <= Len(url) /\ (Len(u) # Len(url) => url[Len(u) + 1] = "/")
  <2>1. Len(u) \in Nat /\ Len(url) \in Nat /\ Len(d) \in Nat /\ Len(e) \in Nat
    BY <1>2, <1>3, <1>4, <1>6
  <2>2. Len(u) + 1 \in 1..Len(d)
    BY <1>4, <2>1
  <2>3. Len(u) <= Len(url)
    BY <1>4, <1>6, <1>7, <2>1
  <2>4. Len(u) # Len(url) => Len(u) + 1 \in 1..Len(url)
    BY <2>1, <2>3
  <2> QED BY <1>4, <1>6, <1>7, <2>2, <2>3, <2>4
<1>9. \A i \in 1..Len(u) : u[i] = url[i]
  <2>1. \A i \in 1..Len(u) : i \in 1..Len(d) /\ i \in 1..Len(url)
    BY <1>2, <1>3, <1>4, <1>8
  <2> QED BY <1>4, <1>6, <1>7, <2>1
<1>10. IsPrefix(Split(u, "/"), Split(url, "/"))
  BY <1>2, <1>3, <1>8, <1>9, SplitPrefix
<1> QED BY <1>1, <1>10 DEF u

(* The inductive invariant: paths are put together from tokens.                 *)
PathsOfTokens ==
  of = "resolve_against_base" => given \in Bases /\ input \in Seq(PathTokens)

(* So they are. *)
LEMMA PathsAreOfTokens == Spec => []PathsOfTokens
<1>1. Init => PathsOfTokens
  BY DEF Init, PathsOfTokens
<1>2. PathsOfTokens /\ [Next]_vars => PathsOfTokens'
  <2> SUFFICES ASSUME PathsOfTokens, [Next]_vars PROVE PathsOfTokens'
    OBVIOUS
  <2>1. CASE UNCHANGED vars
    BY <2>1 DEF vars, PathsOfTokens
  <2>2. CASE Next /\ of' = "resolve_against_base"
    <3>1. PICK piece \in Pieces :
            input' = Append(input, piece) /\ of' = of /\ given' = given
      BY <2>2 DEF Next
    <3>2. of = "resolve_against_base"
      BY <2>2, <3>1
    <3>3. piece \in PathTokens
      BY <3>1, <3>2 DEF Pieces
    <3>4. input \in Seq(PathTokens) /\ given \in Bases
      BY <3>2 DEF PathsOfTokens
    <3>5. input' \in Seq(PathTokens)
      BY <3>1, <3>3, <3>4
    <3> QED BY <3>1, <3>4, <3>5 DEF PathsOfTokens
  <2>3. CASE of' # "resolve_against_base"
    BY <2>3 DEF PathsOfTokens
  <2> QED BY <2>1, <2>2, <2>3
<1> QED BY <1>1, <1>2, PTL DEF Spec

(* With base_url set, a request goes to the base path or below it, segment by   *)
(* segment, or is refused (request.rs, resolve_against_base): for paths of any  *)
(* length, whatever slashes, dots, blanks and tabs they are put together from.  *)
THEOREM PathsStayBelowBase == Spec => []BaseConfines
<1>1. PathsOfTokens => BaseConfines
  <2> SUFFICES ASSUME PathsOfTokens, of = "resolve_against_base", Resolved # "refused"
               PROVE  IsPrefix(Split(TrimEnd(given, "/"), "/"), Split(Resolved, "/"))
    BY DEF BaseConfines
  <2>1. input \in Seq(PathTokens) /\ given \in Bases
    BY DEF PathsOfTokens
  <2>2. "/" \in PathTokens /\ "v1" \in PathTokens
    BY DEF PathTokens
  <2>3. /\ <<"/">> \in Seq(PathTokens) /\ <<"/", "v1">> \in Seq(PathTokens)
        /\ <<"/", "v1", "/">> \in Seq(PathTokens)
    BY <2>2
  <2>4. given = <<"/">> \/ given = <<"/", "v1">> \/ given = <<"/", "v1", "/">>
    BY <2>1, Zenon DEF Bases
  <2>5. given \in Seq(PathTokens)
    BY <2>3, <2>4, Zenon
  <2>6. given # <<>>
    BY <2>4
  <2> QED BY <2>1, <2>2, <2>5, <2>6, ResolveConfines DEF Resolved
<1> QED BY <1>1, PathsAreOfTokens, PTL

-----------------------------------------------------------------------------
(* Blanks or slashes at the end are those of what stands behind a last token    *)
(* that is none.                                                                *)
Trims(a, c, t) == TrimEnd(a \o c, t) = a \o TrimEnd(c, t)

LEMMA TrimEndBehind ==
  ASSUME NEW T, NEW a \in Seq(T), NEW c \in Seq(T), NEW t, Len(a) # 0, a[Len(a)] # t
  PROVE  Trims(a, c, t)
<1> DEFINE ac == a \o c
           u == TrimEnd(ac, t)
           w == TrimEnd(c, t)
           v == a \o w
<1>1. /\ ac \in Seq(T) /\ Len(ac) = Len(a) + Len(c)
      /\ \A i \in 1..(Len(a) + Len(c)) : ac[i] = IF i <= Len(a) THEN a[i] ELSE c[i - Len(a)]
  BY ConcatIs
<1>2. /\ w \in Seq(T) /\ Len(w) <= Len(c)
      /\ \A i \in 1..Len(w) : w[i] = c[i]
      /\ \A i \in 1..Len(c) : i > Len(w) => c[i] = t
      /\ Len(w) # 0 => w[Len(w)] # t
  BY TrimEndIs
<1> HIDE DEF w
<1>3. /\ v \in Seq(T) /\ Len(v) = Len(a) + Len(w)
      /\ \A i \in 1..(Len(a) + Len(w)) : v[i] = IF i <= Len(a) THEN a[i] ELSE w[i - Len(a)]
  BY <1>2, ConcatIs
<1> HIDE DEF v, ac
<1>a. ac \in Seq(T)
  BY <1>1
<1>4. /\ u \in Seq(T) /\ Len(u) <= Len(ac)
      /\ \A i \in 1..Len(u) : u[i] = ac[i]
      /\ \A i \in 1..Len(ac) : i > Len(u) => ac[i] = t
      /\ Len(u) # 0 => u[Len(u)] # t
  BY <1>a, TrimEndIs
<1> HIDE DEF u
<1>5. /\ {Len(a), Len(c), Len(w), Len(v), Len(u), Len(ac)} \subseteq Nat
      /\ Len(v) <= Len(ac) /\ Len(v) # 0 /\ Len(v) >= Len(a)
  BY <1>1, <1>2, <1>3, <1>4
<1>6. \A i \in 1..Len(v) : v[i] = ac[i]
  <2> SUFFICES ASSUME NEW i \in 1..Len(v) PROVE v[i] = ac[i]
    OBVIOUS
  <2>1. i \in 1..(Len(a) + Len(c)) /\ i \in 1..(Len(a) + Len(w))
    BY <1>1, <1>3, <1>5
  <2>2. CASE i > Len(a)
    <3>1. i - Len(a) \in 1..Len(w) /\ ~(i <= Len(a))
      BY <1>5, <2>1, <2>2
    <3> QED BY <1>1, <1>2, <1>3, <2>1, <3>1
  <2>3. CASE i <= Len(a)
    BY <1>1, <1>3, <2>1, <2>3
  <2> QED BY <1>5, <2>1, <2>2, <2>3
<1>7. \A i \in 1..Len(ac) : i > Len(v) => ac[i] = t
  <2> SUFFICES ASSUME NEW i \in 1..Len(ac), i > Len(v) PROVE ac[i] = t
    OBVIOUS
  <2>1. i \in 1..(Len(a) + Len(c)) /\ i > Len(a)
    BY <1>1, <1>5
  <2>2. i - Len(a) \in 1..Len(c) /\ i - Len(a) > Len(w) /\ ~(i <= Len(a))
    BY <1>3, <1>5, <2>1
  <2>3. ac[i] = c[i - Len(a)]
    BY <1>1, <2>1, <2>2
  <2> QED BY <1>2, <2>2, <2>3
<1>8. v[Len(v)] # t
  <2>1. Len(v) \in 1..(Len(a) + Len(w))
    BY <1>3, <1>5
  <2>2. CASE Len(w) = 0
    BY <1>3, <1>5, <2>1, <2>2
  <2>3. CASE Len(w) # 0
    <3>1. Len(v) > Len(a) /\ Len(v) - Len(a) = Len(w)
      BY <1>3, <1>5, <2>3
    <3> QED BY <1>2, <1>3, <1>5, <2>1, <2>3, <3>1
  <2> QED BY <2>2, <2>3
<1>9. Len(u) = Len(v)
  <2>1. CASE Len(u) < Len(v)
    <3>1. Len(v) \in 1..Len(ac) /\ Len(v) \in 1..Len(v)
      BY <1>5
    <3> QED BY <1>4, <1>6, <1>8, <2>1, <3>1
  <2>2. CASE Len(v) < Len(u)
    <3>1. Len(u) \in 1..Len(ac) /\ Len(u) \in 1..Len(u) /\ Len(u) # 0
      BY <1>4, <1>5, <2>2
    <3> QED BY <1>4, <1>7, <2>2, <3>1
  <2> QED BY <1>5, <2>1, <2>2
<1>10. \A i \in 1..Len(u) : u[i] = v[i]
  BY <1>4, <1>5, <1>6, <1>9
<1>11. u = v
  BY <1>3, <1>4, <1>9, <1>10, SameElements
<1> QED BY <1>11 DEF Trims, u, v, w, ac

(* What stands before a token: everything up to the first of them. *)
LEMMA BeforeIs ==
  ASSUME NEW T, NEW path \in Seq(T), NEW stops
  PROVE  LET u == Before(path, stops)
         IN  /\ u \in Seq(T) /\ Len(u) <= Len(path)
             /\ \A i \in 1..Len(u) : u[i] = path[i] /\ u[i] \notin stops
             /\ Len(u) # Len(path) => path[Len(u) + 1] \in stops
<1> DEFINE n == Len(path)
           I == {i \in 1..n : path[i] \in stops}
           k == IF I # {} THEN Min(I) ELSE 0
<1>1. Before(path, stops) = IF k = 0 THEN path ELSE SubSeq(path, 1, k - 1)
  BY DEF Before, SelectInSeq
<1>2. n \in Nat /\ I \subseteq 1..n
  OBVIOUS
<1>3. /\ k \in 0..n
      /\ I = {} => k = 0
      /\ I # {} => k \in I /\ \A i \in I : k <= i
  <2>1. k \in 0..n
    <3> HIDE DEF I, n
    <3> QED BY <1>2, Selected
  <2>2. I # {} => Min(I) \in I /\ \A i \in I : Min(I) <= i
    <3> HIDE DEF I, n
    <3>1. I \subseteq Nat
      BY <1>2
    <3>2. I # {} => \E m \in I : \A i \in I : m <= i
      BY <3>1, Least
    <3> QED BY <3>2 DEF Min
  <2> QED BY <2>1, <2>2
<1>4. I = {} => \A i \in 1..n : path[i] \notin stops
  OBVIOUS
<1>5. \A i \in 1..n : (i \in I <=> path[i] \in stops)
  OBVIOUS
<1> HIDE DEF k, I
<1>6. CASE I = {}
  BY <1>1, <1>2, <1>3, <1>4, <1>6
<1>7. CASE I # {}
  <2>1. k \in 1..n /\ path[k] \in stops /\ \A i \in I : k <= i
    BY <1>2, <1>3, <1>5, <1>7
  <2>2. \A i \in 1..(k - 1) : i \in 1..n /\ i \notin I
    BY <2>1
  <2>3. \A i \in 1..(k - 1) : path[i] \notin stops
    BY <1>5, <2>2
  <2> DEFINE u == SubSeq(path, 1, k - 1)
  <2>4. u \in Seq(T) /\ Len(u) = k - 1 /\ \A i \in 1..(k - 1) : u[i] = path[i]
    BY <2>1
  <2> HIDE DEF u
  <2>5. Before(path, stops) = u
    BY <1>1, <2>1 DEF u
  <2> QED BY <2>1, <2>3, <2>4, <2>5
<1> QED BY <1>6, <1>7

(* What stands before a token, behind something that has none. *)
Lacks(a, stops) == \A i \in 1..Len(a) : a[i] \notin stops

StopsBehind(a, c, stops) == Before(a \o c, stops) = a \o Before(c, stops)

LEMMA BeforeBehind ==
  ASSUME NEW T, NEW a \in Seq(T), NEW c \in Seq(T), NEW stops, Lacks(a, stops)
  PROVE  StopsBehind(a, c, stops)
<1> DEFINE ac == a \o c
           u == Before(ac, stops)
           w == Before(c, stops)
           v == a \o w
<1>1. /\ ac \in Seq(T) /\ Len(ac) = Len(a) + Len(c)
      /\ \A i \in 1..(Len(a) + Len(c)) : ac[i] = IF i <= Len(a) THEN a[i] ELSE c[i - Len(a)]
  BY ConcatIs
<1>2. /\ w \in Seq(T) /\ Len(w) <= Len(c)
      /\ \A i \in 1..Len(w) : w[i] = c[i] /\ w[i] \notin stops
      /\ Len(w) # Len(c) => c[Len(w) + 1] \in stops
  BY BeforeIs
<1> HIDE DEF w
<1>3. /\ v \in Seq(T) /\ Len(v) = Len(a) + Len(w)
      /\ \A i \in 1..(Len(a) + Len(w)) : v[i] = IF i <= Len(a) THEN a[i] ELSE w[i - Len(a)]
  BY <1>2, ConcatIs
<1> HIDE DEF v, ac
<1>4. /\ u \in Seq(T) /\ Len(u) <= Len(ac)
      /\ \A i \in 1..Len(u) : u[i] = ac[i] /\ u[i] \notin stops
      /\ Len(u) # Len(ac) => ac[Len(u) + 1] \in stops
  BY <1>1, BeforeIs
<1> HIDE DEF u
<1>5. /\ {Len(a), Len(c), Len(w), Len(v), Len(u), Len(ac)} \subseteq Nat
      /\ Len(v) <= Len(ac)
  BY <1>1, <1>2, <1>3, <1>4
<1>6. \A i \in 1..Len(v) : v[i] = ac[i] /\ v[i] \notin stops
  <2> SUFFICES ASSUME NEW i \in 1..Len(v) PROVE v[i] = ac[i] /\ v[i] \notin stops
    OBVIOUS
  <2>1. i \in 1..(Len(a) + Len(c)) /\ i \in 1..(Len(a) + Len(w))
    BY <1>1, <1>3, <1>5
  <2>2. CASE i > Len(a)
    <3>1. i - Len(a) \in 1..Len(w) /\ ~(i <= Len(a))
      BY <1>5, <2>1, <2>2
    <3> QED BY <1>1, <1>2, <1>3, <2>1, <3>1
  <2>3. CASE i <= Len(a)
    <3>1. i \in 1..Len(a)
      BY <1>5, <2>1, <2>3
    <3> QED BY <1>1, <1>3, <2>1, <2>3, <3>1 DEF Lacks
  <2> QED BY <1>5, <2>1, <2>2, <2>3
<1>7. Len(v) # Len(ac) => ac[Len(v) + 1] \in stops
  <2> SUFFICES ASSUME Len(v) # Len(ac) PROVE ac[Len(v) + 1] \in stops
    OBVIOUS
  <2>1. /\ Len(v) + 1 \in 1..(Len(a) + Len(c)) /\ Len(v) + 1 > Len(a)
        /\ Len(v) + 1 - Len(a) = Len(w) + 1 /\ Len(w) # Len(c)
    BY <1>1, <1>3, <1>5
  <2> QED BY <1>1, <1>2, <1>5, <2>1
<1>9. Len(u) = Len(v)
  <2>1. CASE Len(u) < Len(v)
    <3>1. Len(u) + 1 \in 1..Len(v) /\ Len(u) # Len(ac)
      BY <1>5, <2>1
    <3> QED BY <1>4, <1>6, <3>1
  <2>2. CASE Len(v) < Len(u)
    <3>1. Len(v) + 1 \in 1..Len(u) /\ Len(v) # Len(ac)
      BY <1>4, <1>5, <2>2
    <3> QED BY <1>4, <1>7, <3>1
  <2> QED BY <1>5, <2>1, <2>2
<1>10. \A i \in 1..Len(u) : u[i] = v[i]
  BY <1>4, <1>5, <1>6, <1>9
<1>11. u = v
  BY <1>3, <1>4, <1>9, <1>10, SameElements
<1> QED BY <1>11 DEF StopsBehind, u, v, w, ac

-----------------------------------------------------------------------------
(* A path without a separator is one segment. *)
LEMMA SplitWord ==
  ASSUME NEW T, NEW sep, NEW seg \in Seq(T), \A i \in 1..Len(seg) : seg[i] # sep
  PROVE  Split(seg, sep) = <<seg>>
<1> DEFINE S == {x \in Seq(T) : (\A i \in 1..Len(x) : x[i] # sep) => Split(x, sep) = <<x>>}
<1>1. <<>> \in S
  BY SplitNothing
<1>2. ASSUME NEW x \in Seq(T), NEW t \in T, x \in S PROVE Append(x, t) \in S
  <2>0. Append(x, t) \in Seq(T)
    OBVIOUS
  <2> SUFFICES ASSUME \A i \in 1..Len(Append(x, t)) : Append(x, t)[i] # sep
               PROVE  Split(Append(x, t), sep) = <<Append(x, t)>>
    BY <2>0, Zenon
  <2>1. t # sep /\ \A i \in 1..Len(x) : x[i] # sep
    <3> DEFINE n == Len(x)
               y == Append(x, t)
    <3>1. \A i \in 1..Len(y) : y[i] # sep
      OBVIOUS
    <3>2. OneMoreIs(x, t, y)
      BY AppendedIs
    <3> HIDE DEF y
    <3>3. n \in Nat /\ n + 1 \in 1..(n + 1) /\ \A i \in 1..n : i \in 1..(n + 1)
      OBVIOUS
    <3> QED BY <3>1, <3>2, <3>3 DEF OneMoreIs
  <2>2. Split(x, sep) = <<x>>
    BY <1>2, <2>1
  <2>3. Split(Append(x, t), sep) = SplitStep(<<x>>, t, sep)
    BY <2>2, SplitAppend
  <2> QED BY <2>1, <2>3 DEF SplitStep
<1> HIDE DEF S
<1>3. Seq(T) \subseteq S
  BY <1>1, <1>2, SequencesGrow
<1> QED BY <1>3 DEF S

(* One segment more behind the others. *)
LEMMA SlashedAppend ==
  ASSUME NEW T, "/" \in T, NEW s \in Seq(Seq(T)), NEW x \in Seq(T)
  PROVE  Slashed(Append(s, x)) = (Slashed(s) \o <<"/">>) \o x
<1> DEFINE X == Seq(T)
           m == Len(s)
           r == Append(s, x)
<1>1. /\ m \in Nat /\ r \in Seq(Seq(T)) /\ Len(r) = m + 1 /\ r[m + 1] = x
      /\ \A i \in 1..m : s[i] = r[i]
  OBVIOUS
<1>2. /\ Runs(X, Gluing(T), <<>>, s, m, Slashed(s))
      /\ Runs(X, Gluing(T), <<>>, r, m + 1, Slashed(r))
  <2> HIDE DEF r
  <2> QED BY <1>1, SlashedRuns
<1> HIDE DEF X, m, r
<1>3. Slashed(s) \in X /\ Slashed(r) = Gluing(T)[Slashed(s)][x]
  BY <1>1, <1>2, RunsAppend
<1> QED BY <1>3 DEF Gluing, Glue, X, r

LEMMA WalkAppend ==
  ASSUME NEW T, NEW s \in Seq(Seq(T)), NEW x \in Seq(T)
  PROVE  Walk(Append(s, x)) = WalkStep(Walk(s), x)
<1> DEFINE X == Seq(Seq(T))
           m == Len(s)
           r == Append(s, x)
<1>1. /\ m \in Nat /\ r \in Seq(Seq(T)) /\ Len(r) = m + 1 /\ r[m + 1] = x
      /\ \A i \in 1..m : s[i] = r[i]
  OBVIOUS
<1>2. /\ Runs(X, Walking(T), <<>>, s, m, Walk(s))
      /\ Runs(X, Walking(T), <<>>, r, m + 1, Walk(r))
  <2> HIDE DEF r
  <2> QED BY <1>1, WalkRuns
<1> HIDE DEF X, m, r
<1>3. Walk(s) \in X /\ Walk(r) = Walking(T)[Walk(s)][x]
  BY <1>1, <1>2, RunsAppend
<1> QED BY <1>3 DEF Walking, X, r

(* Of no segments. *)
LEMMA NoSegments == Slashed(<<>>) = <<>> /\ Walk(<<>>) = <<>>
<1> DEFINE s == <<>>
           T == {"/"}
<1>1. "/" \in T /\ s \in Seq(Seq(T)) /\ Len(s) = 0
  OBVIOUS
<1> HIDE DEF s, T
<1>2. Runs(Seq(T), Gluing(T), <<>>, s, 0, Slashed(s))
  BY <1>1, SlashedRuns
<1>3. Runs(Seq(Seq(T)), Walking(T), <<>>, s, 0, Walk(s))
  BY <1>1, WalkRuns
<1>4. Slashed(s) = <<>>
  BY <1>2 DEF Runs
<1>5. Walk(s) = <<>>
  BY <1>3 DEF Runs
<1> QED BY <1>4, <1>5 DEF s

(* One dot is not two. *)
LEMMA DotsDiffer ==
  ASSUME NEW x, x \in Single
  PROVE  x \notin Double
BY DEF Single, Double

-----------------------------------------------------------------------------
(* The segments of a base path as Url::parse leaves it: names. *)
Words(T) ==
  {seg \in Seq(T) : /\ seg # <<>> /\ seg \notin Single \cup Double
                    /\ \A i \in 1..Len(seg) : seg[i] \notin {"/", "?"}}

(* Put behind slashes, they are its segments again, all of them kept by a walk. *)
Plain(T, N) ==
  LET p == Slashed(N)
  IN  /\ p \in Seq(T)
      /\ Split(p, "/") = << <<>> >> \o N
      /\ \A i \in 1..Len(p) : p[i] # "?"
      /\ N # <<>> => Len(p) # 0 /\ p[Len(p)] # "/"
      /\ Walk(N) = N

LEMMA WordsArePlain ==
  ASSUME NEW T, "/" \in T, NEW N \in Seq(Words(T))
  PROVE  Plain(T, N)
<1> DEFINE W == Words(T)
           S == {s \in Seq(W) : Plain(T, s)}
<1>1. <<>> \in S
  <2>1. Plain(T, <<>>)
    <3>1. << <<>> >> \o <<>> = << <<>> >>
      OBVIOUS
    <3>2. Split(<<>>, "/") = << <<>> >> \o <<>>
      BY <3>1, SplitNothing, Zenon
    <3>3. <<>> \in Seq(T) /\ \A i \in 1..Len(<<>>) : <<>>[i] # "?"
      OBVIOUS
    <3> QED BY <3>2, <3>3, NoSegments, Zenon DEF Plain
  <2> QED BY <2>1
<1>2. ASSUME NEW s \in Seq(W), NEW x \in W, s \in S PROVE Append(s, x) \in S
  <2> DEFINE p == Slashed(s)
             r == Append(s, x)
             q == (p \o <<"/">>) \o x
  <2>1. Plain(T, s)
    BY <1>2
  <2>2. /\ s \in Seq(Seq(T)) /\ x \in Seq(T) /\ r \in Seq(W) /\ r # <<>>
        /\ x # <<>> /\ x \notin Single \cup Double
        /\ \A i \in 1..Len(x) : x[i] \notin {"/", "?"}
    <3>1. W \subseteq Seq(T)
      BY DEF Words
    <3>2. x # <<>> /\ x \notin Single \cup Double /\ \A i \in 1..Len(x) : x[i] \notin {"/", "?"}
      BY DEF Words
    <3> HIDE DEF W
    <3>3. s \in Seq(Seq(T)) /\ x \in Seq(T)
      BY <3>1
    <3>4. r \in Seq(W) /\ r # <<>>
      OBVIOUS
    <3> HIDE DEF r
    <3> QED BY <3>2, <3>3, <3>4
  <2>3. Slashed(r) = q
    BY <2>2, SlashedAppend
  <2>4. /\ p \in Seq(T) /\ Split(p, "/") = << <<>> >> \o s
        /\ \A i \in 1..Len(p) : p[i] # "?"
    BY <2>1 DEF Plain
  <2>5. Walk(s) = s
    BY <2>1 DEF Plain
  <2>6. Walk(r) = r
    <3>1. Walk(r) = WalkStep(s, x)
      BY <2>2, <2>5, WalkAppend
    <3> QED BY <2>2, <3>1 DEF WalkStep
  <2> HIDE DEF p, q, r, W
  <2>7. Split(q, "/") = << <<>> >> \o r
    <3>1. Split(x, "/") = <<x>>
      BY <2>2, SplitWord
    <3>2. Split(q, "/") = (<< <<>> >> \o s) \o <<x>>
      <4>1. Split(q, "/") = Split(p, "/") \o Split(x, "/")
        BY <2>2, <2>4, SplitGlued DEF q
      <4> QED BY <2>4, <3>1, <4>1
    <3> DEFINE e == << <<>> >>
    <3>3. e \in Seq(Seq(T))
      OBVIOUS
    <3> HIDE DEF e
    <3>4. (e \o s) \o <<x>> = Append(e \o s, x)
      BY <2>2, <3>3
    <3>5. Moves(e, s, x)
      BY <2>2, <3>3, AppendBehind
    <3> QED BY <3>2, <3>4, <3>5 DEF Moves, e, r
  <2>8. /\ q \in Seq(T) /\ Len(q) # 0 /\ q[Len(q)] # "/"
        /\ \A i \in 1..Len(q) : q[i] # "?"
    <3> DEFINE d == p \o <<"/">>
    <3>1. /\ d \in Seq(T) /\ Len(d) = Len(p) + 1
          /\ \A i \in 1..(Len(p) + 1) : d[i] = IF i <= Len(p) THEN p[i] ELSE "/"
      <4>1. d = Append(p, "/")
        BY <2>4
      <4>2. OneMoreIs(p, "/", Append(p, "/")) /\ Append(p, "/") \in Seq(T)
        BY <2>4, AppendedIs
      <4>3. \A i \in 1..(Len(p) + 1) : (i <= Len(p) => i \in 1..Len(p)) /\ (~(i <= Len(p)) => i = Len(p) + 1)
        BY <2>4
      <4> HIDE DEF d
      <4> QED BY <4>1, <4>2, <4>3 DEF OneMoreIs
    <3>2. \A i \in 1..Len(d) : d[i] # "?"
      BY <2>4, <3>1
    <3> HIDE DEF d
    <3>3. /\ d \o x \in Seq(T) /\ Len(d \o x) = Len(d) + Len(x)
          /\ \A i \in 1..(Len(d) + Len(x)) :
               (d \o x)[i] = IF i <= Len(d) THEN d[i] ELSE x[i - Len(d)]
      BY <2>2, <3>1, ConcatIs
    <3>4. q = d \o x
      BY DEF q, d
    <3>5. Len(d) \in Nat /\ Len(x) \in Nat /\ Len(x) # 0
      BY <2>2, <3>1
    <3>6. \A i \in 1..(Len(d) + Len(x)) :
            (i <= Len(d) => i \in 1..Len(d)) /\ (~(i <= Len(d)) => i - Len(d) \in 1..Len(x))
      BY <3>5
    <3>7. q[Len(q)] = x[Len(x)] /\ Len(x) \in 1..Len(x)
      <4>1. /\ Len(d) + Len(x) \in 1..(Len(d) + Len(x)) /\ ~(Len(d) + Len(x) <= Len(d))
            /\ (Len(d) + Len(x)) - Len(d) = Len(x)
        BY <3>5
      <4> QED BY <3>3, <3>4, <3>5, <4>1
    <3> QED BY <2>2, <3>2, <3>3, <3>4, <3>5, <3>6, <3>7
  <2>9. Plain(T, r)
    BY <2>3, <2>6, <2>7, <2>8, Zenon DEF Plain
  <2> QED BY <2>2, <2>9 DEF r
<1> HIDE DEF S
<1>3. Seq(W) \subseteq S
  BY <1>1, <1>2, SequencesGrow
<1> QED BY <1>3 DEF S

(* With segments behind them, their path has a slash and more behind it. *)
LEMMA SlashedBehind ==
  ASSUME NEW T, "/" \in T, NEW N \in Seq(Seq(T)), NEW c \in Seq(Seq(T)), c # <<>>
  PROVE  \E t \in Seq(T) : Slashed(N \o c) = (Slashed(N) \o <<"/">>) \o t
<1> DEFINE d == Slashed(N) \o <<"/">>
           Behind(x) == \E t \in Seq(T) : Slashed(N \o x) = d \o t
           S == {x \in Seq(Seq(T)) : x # <<>> => Behind(x)}
<1>a. d \in Seq(T)
  <2>1. Slashed(N) \in Seq(T)
    BY SlashedTyped
  <2> HIDE DEF Behind
  <2> QED BY <2>1
<1>1. <<>> \in S
  OBVIOUS
<1>2. ASSUME NEW s \in Seq(Seq(T)), NEW x \in Seq(T), s \in S PROVE Append(s, x) \in S
  <2> DEFINE g == N \o s
  <2>1. g \in Seq(Seq(T))
    OBVIOUS
  <2>2. N \o Append(s, x) = Append(g, x)
    BY AppendBehind DEF Moves
  <2> HIDE DEF g
  <2>3. Slashed(Append(g, x)) = (Slashed(g) \o <<"/">>) \o x
    BY <2>1, SlashedAppend
  <2>4. ASSUME s = <<>> PROVE Behind(Append(s, x))
    <3>1. g = N
      BY <2>4 DEF g
    <3>2. Slashed(N \o Append(s, x)) = d \o x
      BY <2>2, <2>3, <3>1
    <3> HIDE DEF d
    <3> QED BY <3>2
  <2>5. ASSUME s # <<>> PROVE Behind(Append(s, x))
    <3>1. PICK t \in Seq(T) : Slashed(g) = d \o t
      BY <1>2, <2>5 DEF g
    <3> HIDE DEF d
    <3>2. <<"/">> \in Seq(T) /\ t \o <<"/">> \in Seq(T)
      OBVIOUS
    <3>3. Regroups(d, t, <<"/">>) /\ Regroups(d, t \o <<"/">>, x)
      BY <1>a, <3>2, Associative
    <3> DEFINE u == (t \o <<"/">>) \o x
    <3>4. u \in Seq(T)
      BY <3>2
    <3>5. Slashed(N \o Append(s, x)) = ((d \o t) \o <<"/">>) \o x
      BY <2>2, <2>3, <3>1
    <3>6. Slashed(N \o Append(s, x)) = d \o u
      BY <3>3, <3>5 DEF Regroups
    <3> HIDE DEF u
    <3> QED BY <3>4, <3>6
  <2>6. Behind(Append(s, x))
    BY <2>4, <2>5
  <2>7. Append(s, x) \in Seq(Seq(T))
    OBVIOUS
  <2> HIDE DEF Behind
  <2> QED BY <2>6, <2>7
<1> HIDE DEF S
<1>3. Seq(Seq(T)) \subseteq S
  BY <1>1, <1>2, SequencesGrow
<1> QED BY <1>3 DEF S

-----------------------------------------------------------------------------
(* How far below its start a path stands after its segments. *)
Depth(segs) == Cardinality(Names(segs, Len(segs))) - Cardinality(Climbs(segs, Len(segs)))

(* Counting names and climbs up to an index. *)
LEMMA CountsTyped ==
  ASSUME NEW segs, NEW n \in Nat
  PROVE  /\ IsFiniteSet(Names(segs, n)) /\ Cardinality(Names(segs, n)) \in Nat
         /\ IsFiniteSet(Climbs(segs, n)) /\ Cardinality(Climbs(segs, n)) \in Nat
<1>1. IsFiniteSet(1..n)
  BY FS_Interval
<1>2. Names(segs, n) \in SUBSET (1..n) /\ Climbs(segs, n) \in SUBSET (1..n)
  BY DEF Names, Climbs
<1>3. IsFiniteSet(Names(segs, n)) /\ IsFiniteSet(Climbs(segs, n))
  BY <1>1, <1>2, FS_Subset
<1> QED BY <1>3, FS_CardinalityType

(* One segment more counts as what it is, and what is counted before stays. *)
LEMMA CountsKept ==
  ASSUME NEW A, NEW s \in Seq(A), NEW x \in A, NEW k \in 0..Len(s)
  PROVE  /\ Names(Append(s, x), k) = Names(s, k)
         /\ Climbs(Append(s, x), k) = Climbs(s, k)
<1> DEFINE r == Append(s, x)
<1>1. OneMoreIs(s, x, r) /\ Len(s) \in Nat
  BY AppendedIs
<1> HIDE DEF r
<1>2. \A i \in 1..k : r[i] = s[i]
  BY <1>1 DEF OneMoreIs
<1> QED BY <1>2 DEF Names, Climbs, r

LEMMA CountsGrow ==
  ASSUME NEW A, NEW s \in Seq(A), NEW x \in A
  PROVE  LET n == Len(s)
         IN  /\ Names(Append(s, x), n + 1) =
                  IF x \notin Single \cup Double THEN Names(s, n) \cup {n + 1} ELSE Names(s, n)
             /\ Climbs(Append(s, x), n + 1) =
                  IF x \in Double THEN Climbs(s, n) \cup {n + 1} ELSE Climbs(s, n)
<1> DEFINE r == Append(s, x)
           n == Len(s)
<1>1. OneMoreIs(s, x, r) /\ n \in Nat
  BY AppendedIs
<1> HIDE DEF r
<1>2. r[n + 1] = x /\ \A i \in 1..n : r[i] = s[i]
  BY <1>1 DEF OneMoreIs
<1> HIDE DEF n
<1>3. \A i : i \in 1..(n + 1) <=> i \in 1..n \/ i = n + 1
  BY <1>1
<1>4. Names(r, n + 1) =
        IF x \notin Single \cup Double THEN Names(s, n) \cup {n + 1} ELSE Names(s, n)
  BY <1>2, <1>3 DEF Names
<1>5. Climbs(r, n + 1) = IF x \in Double THEN Climbs(s, n) \cup {n + 1} ELSE Climbs(s, n)
  BY <1>2, <1>3 DEF Climbs
<1> QED BY <1>4, <1>5 DEF r, n

(* So the depth changes with it, *)
LEMMA DepthGrows ==
  ASSUME NEW A, NEW s \in Seq(A), NEW x \in A
  PROVE  /\ Depth(s) \in Int
         /\ x \in Double => Depth(Append(s, x)) = Depth(s) - 1
         /\ x \in Single => Depth(Append(s, x)) = Depth(s)
         /\ x \notin Single \cup Double => Depth(Append(s, x)) = Depth(s) + 1
<1> DEFINE r == Append(s, x)
           n == Len(s)
           N == Names(s, n)
           C == Climbs(s, n)
<1>1. n \in Nat /\ Len(r) = n + 1
  OBVIOUS
<1>2. Names(r, n + 1) = IF x \notin Single \cup Double THEN N \cup {n + 1} ELSE N
  BY CountsGrow
<1>3. Climbs(r, n + 1) = IF x \in Double THEN C \cup {n + 1} ELSE C
  BY CountsGrow
<1> HIDE DEF r
<1>4. N \subseteq 1..n /\ C \subseteq 1..n
  BY DEF Names, Climbs
<1>5. /\ IsFiniteSet(N) /\ Cardinality(N) \in Nat
      /\ IsFiniteSet(C) /\ Cardinality(C) \in Nat
  BY <1>1, CountsTyped
<1>6. Depth(s) = Cardinality(N) - Cardinality(C)
  BY DEF Depth
<1>7. Depth(r) = Cardinality(Names(r, n + 1)) - Cardinality(Climbs(r, n + 1))
  BY <1>1 DEF Depth
<1> HIDE DEF n, N, C
<1>8. n + 1 \notin N /\ n + 1 \notin C
  BY <1>1, <1>4
<1>9. /\ Cardinality(N \cup {n + 1}) = Cardinality(N) + 1
      /\ Cardinality(C \cup {n + 1}) = Cardinality(C) + 1
  BY <1>5, <1>8, FS_AddElement
<1>10. Depth(s) \in Int
  BY <1>5, <1>6
<1>11. ASSUME x \in Double PROVE Depth(r) = Depth(s) - 1
  <2>1. Names(r, n + 1) = N /\ Climbs(r, n + 1) = C \cup {n + 1}
    BY <1>2, <1>3, <1>11
  <2>2. Depth(r) = Cardinality(N) - (Cardinality(C) + 1)
    BY <1>7, <1>9, <2>1, Zenon
  <2> QED BY <1>5, <1>6, <2>2
<1>12. x \in Single => Depth(r) = Depth(s)
  BY <1>2, <1>3, <1>5, <1>6, <1>7, <1>9, DotsDiffer
<1>13. ASSUME x \notin Single \cup Double PROVE Depth(r) = Depth(s) + 1
  <2>1. Names(r, n + 1) = N \cup {n + 1} /\ Climbs(r, n + 1) = C
    BY <1>2, <1>3, <1>13
  <2>2. Depth(r) = (Cardinality(N) + 1) - Cardinality(C)
    BY <1>7, <1>9, <2>1, Zenon
  <2> QED BY <1>5, <1>6, <2>2
<1> QED BY <1>10, <1>11, <1>12, <1>13 DEF r

(* and a path that never climbs above its start is at it or below it throughout.*)
LEMMA StaysBelow ==
  ASSUME NEW A, NEW s \in Seq(A), NEW x \in A, StaysAbove(Append(s, x))
  PROVE  StaysAbove(s) /\ Depth(Append(s, x)) >= 0
<1> DEFINE r == Append(s, x)
           n == Len(s)
<1>1. n \in Nat /\ Len(r) = n + 1 /\ DOMAIN r = 1..(n + 1) /\ DOMAIN s = 1..n
  OBVIOUS
<1>2. \A k \in 0..n : Names(r, k) = Names(s, k) /\ Climbs(r, k) = Climbs(s, k)
  BY CountsKept
<1>3. StaysAbove(r)
  OBVIOUS
<1> HIDE DEF r, n
<1>4. \A k \in 1..(n + 1) : Cardinality(Climbs(r, k)) <= Cardinality(Names(r, k))
  BY <1>1, <1>3 DEF StaysAbove
<1>5. StaysAbove(s)
  BY <1>1, <1>2, <1>4 DEF StaysAbove
<1>6. Depth(r) >= 0
  <2>1. n + 1 \in Nat /\ n + 1 \in 1..(n + 1)
    BY <1>1
  <2>2. /\ Cardinality(Names(r, n + 1)) \in Nat /\ Cardinality(Climbs(r, n + 1)) \in Nat
        /\ Cardinality(Climbs(r, n + 1)) <= Cardinality(Names(r, n + 1))
    BY <1>4, <2>1, CountsTyped
  <2> QED BY <1>1, <2>2 DEF Depth
<1> QED BY <1>5, <1>6 DEF r

(* A walk from N over segments that never climb above their start ends at N or  *)
(* below it, at the depth of the segments, and below it behind a name.          *)
Under(T, N, segs) ==
  \E rest \in Seq(Seq(T)) :
    /\ Walk(N \o segs) = N \o rest
    /\ Len(rest) = Depth(segs)
    /\ segs # <<>> /\ Last(segs) \notin Single \cup Double => rest # <<>>

LEMMA WalkStaysUnder ==
  ASSUME NEW T, NEW N \in Seq(Seq(T)), Walk(N) = N,
         NEW segs \in Seq(Seq(T)), StaysAbove(segs)
  PROVE  Under(T, N, segs)
<1> DEFINE L == Seq(Seq(T))
           S == {s \in L : StaysAbove(s) => Under(T, N, s)}
<1>1. <<>> \in S
  <2>1. /\ N \o <<>> = N /\ <<>> \in L /\ Len(<<>>) = 0
    OBVIOUS
  <2>2. Depth(<<>>) = 0
    <3>1. Names(<<>>, 0) = {} /\ Climbs(<<>>, 0) = {}
      BY DEF Names, Climbs
    <3>2. Depth(<<>>) = Cardinality({}) - Cardinality({})
      BY <2>1, <3>1, Zenon DEF Depth
    <3>3. Cardinality({}) = 0
      BY FS_EmptySet
    <3> QED BY <3>2, <3>3
  <2>3. Walk(N \o <<>>) = N \o <<>>
    BY <2>1
  <2>4. Under(T, N, <<>>)
    BY <2>1, <2>2, <2>3, Zenon DEF Under
  <2> QED BY <2>1, <2>4
<1>2. ASSUME NEW s \in L, NEW x \in Seq(T), s \in S PROVE Append(s, x) \in S
  <2> DEFINE r == Append(s, x)
             g == N \o s
  <2>1. r \in L /\ g \in L
    OBVIOUS
  <2>2. ASSUME StaysAbove(r) PROVE Under(T, N, r)
    <3>1. StaysAbove(s) /\ Depth(r) >= 0
      BY <2>2, StaysBelow
    <3>2. PICK rest \in L : Walk(g) = N \o rest /\ Len(rest) = Depth(s)
      BY <1>2, <3>1 DEF Under
    <3>3. N \o r = Append(g, x)
      <4>1. Moves(N, s, x)
        BY AppendBehind
      <4> QED BY <4>1 DEF Moves
    <3>4. r # <<>> /\ Last(r) = x
      <4>1. OneMoreIs(s, x, r) /\ Len(s) \in Nat
        BY AppendedIs
      <4> HIDE DEF r
      <4>2. Len(r) = Len(s) + 1 /\ r[Len(s) + 1] = x
        BY <4>1 DEF OneMoreIs
      <4>3. r # <<>>
        BY <4>1, <4>2
      <4> QED BY <4>2, <4>3 DEF Last
    <3>5. /\ Depth(s) \in Int
          /\ x \in Double => Depth(r) = Depth(s) - 1
          /\ x \in Single => Depth(r) = Depth(s)
          /\ x \notin Single \cup Double => Depth(r) = Depth(s) + 1
      BY DepthGrows
    <3> HIDE DEF r, g
    <3>6. Walk(N \o r) = WalkStep(N \o rest, x)
      BY <2>1, <3>2, <3>3, WalkAppend
    <3>7. CASE x \in Double
      <4>1. rest # <<>>
        BY <3>1, <3>2, <3>5, <3>7
      <4> DEFINE f == Front(rest)
                 l == Last(rest)
      <4>2. f \in L /\ l \in Seq(T) /\ Len(f) = Len(rest) - 1 /\ rest = Append(f, l)
        BY <4>1, FrontAndLast
      <4> HIDE DEF f, l
      <4> DEFINE h == N \o f
      <4>3. h \in L /\ N \o rest = Append(h, l)
        <5>1. Moves(N, f, l)
          BY <4>2, AppendBehind
        <5> QED BY <4>2, <5>1 DEF Moves
      <4> HIDE DEF h
      <4>4. Drops(h, l)
        BY <4>2, <4>3, FrontOfAppend
      <4>5. Walk(N \o r) = h
        <5> DEFINE y == N \o rest
        <5>1. y # <<>> /\ Front(y) = h
          BY <4>3, <4>4 DEF Drops
        <5>2. Walk(N \o r) = WalkStep(y, x)
          BY <3>6
        <5> HIDE DEF y
        <5>3. x \notin Single
          BY <3>7, DotsDiffer
        <5> QED BY <3>7, <5>1, <5>2, <5>3 DEF WalkStep
      <4>6. Len(f) = Depth(r)
        BY <3>2, <3>5, <3>7, <4>2
      <4> QED BY <3>4, <3>7, <4>2, <4>5, <4>6 DEF Under, h
    <3>8. CASE x \in Single
      <4>1. Walk(N \o r) = N \o rest
        BY <3>6, <3>8, DotsDiffer DEF WalkStep
      <4> QED BY <3>2, <3>4, <3>5, <3>8, <4>1 DEF Under
    <3>9. CASE x \notin Single \cup Double
      <4> DEFINE t == Append(rest, x)
      <4>1. t \in L /\ Len(t) = Len(rest) + 1 /\ t # <<>>
        <5>1. t \in L
          BY <3>2
        <5>2. OneMoreIs(rest, x, t) /\ Len(rest) \in Nat
          BY <3>2, AppendedIs
        <5> HIDE DEF t
        <5> QED BY <5>1, <5>2 DEF OneMoreIs
      <4>2. Walk(N \o r) = Append(N \o rest, x)
        BY <3>6, <3>9 DEF WalkStep
      <4>3. Walk(N \o r) = N \o t
        <5>1. Moves(N, rest, x)
          BY <3>2, AppendBehind
        <5> QED BY <4>2, <5>1 DEF Moves
      <4> HIDE DEF t
      <4>4. Len(t) = Depth(r)
        BY <3>2, <3>5, <3>9, <4>1
      <4> QED BY <4>1, <4>3, <4>4 DEF Under
    <3> QED BY <3>7, <3>8, <3>9
  <2> HIDE DEF r
  <2> QED BY <2>1, <2>2 DEF r
<1> HIDE DEF S
<1>3. Seq(Seq(T)) \subseteq S
  BY <1>1, <1>2, SequencesGrow
<1> QED BY <1>3 DEF S

-----------------------------------------------------------------------------
(* Nothing is left of slashes. *)
LEMMA SlashesTrimmed == TrimEnd(<<>>, "/") = <<>> /\ TrimEnd(<<"/">>, "/") = <<>>
<1> DEFINE T == {"/"}
<1>1. ASSUME NEW s \in Seq(T) PROVE TrimEnd(s, "/") = <<>>
  <2> DEFINE u == TrimEnd(s, "/")
  <2>1. /\ u \in Seq(T) /\ Len(u) <= Len(s)
        /\ \A i \in 1..Len(u) : u[i] = s[i]
        /\ Len(u) # 0 => u[Len(u)] # "/"
    BY TrimEndIs
  <2> HIDE DEF u
  <2>2. Len(u) # 0 => Len(u) \in 1..Len(s) /\ Len(u) \in 1..Len(u)
    BY <2>1
  <2>3. \A i \in 1..Len(s) : s[i] = "/"
    OBVIOUS
  <2>4. Len(u) = 0
    BY <2>1, <2>2, <2>3
  <2> QED BY <2>1, <2>4 DEF u
<1>2. <<>> \in Seq(T) /\ <<"/">> \in Seq(T)
  OBVIOUS
<1> HIDE DEF T
<1> QED BY <1>1, <1>2

(* A base path, with or without a slash at its end. *)
LEMMA BaseIs ==
  ASSUME NEW T, "/" \in T, NEW N \in Seq(Words(T)), NEW base, base # <<>>,
         base = Slashed(N) \/ base = Slashed(N) \o <<"/">>
  PROVE  /\ TrimEnd(base, "/") = Slashed(N)
         /\ AsDir(base) = Slashed(N) \o <<"/">>
<1> DEFINE p == Slashed(N)
           d == p \o <<"/">>
<1>1. p \in Seq(T) /\ (N # <<>> => Len(p) # 0 /\ p[Len(p)] # "/")
  BY WordsArePlain DEF Plain
<1>2. N = <<>> => p = <<>>
  BY NoSegments
<1>3. base = p \/ base = d
  OBVIOUS
<1> HIDE DEF p
<1>4. <<>> \in Seq(T) /\ <<"/">> \in Seq(T)
  OBVIOUS
<1>5. d = Append(p, "/") /\ Len(d) = Len(p) + 1 /\ d[Len(p) + 1] = "/" /\ Len(p) \in Nat
  BY <1>1
<1>6. AsDir(d) = d
  <2> HIDE DEF d
  <2>1. Last(d) = "/"
    BY <1>5 DEF Last
  <2> QED BY <2>1 DEF AsDir
<1>7. CASE N = <<>>
  <2>1. p = <<>> /\ d = <<"/">>
    BY <1>2, <1>7
  <2>2. base = <<"/">> /\ base = d
    BY <1>3, <2>1
  <2> HIDE DEF d
  <2> QED BY <1>6, <2>1, <2>2, SlashesTrimmed DEF p, d
<1>8. CASE N # <<>>
  <2>1. Len(p) # 0 /\ p[Len(p)] # "/"
    BY <1>1, <1>8
  <2>2. ASSUME NEW c \in Seq(T) PROVE TrimEnd(p \o c, "/") = p \o TrimEnd(c, "/")
    <3>1. Trims(p, c, "/")
      BY <1>1, <2>1, TrimEndBehind
    <3> QED BY <3>1 DEF Trims
  <2>3. /\ TrimEnd(p \o <<>>, "/") = p \o TrimEnd(<<>>, "/")
        /\ TrimEnd(d, "/") = p \o TrimEnd(<<"/">>, "/")
    BY <1>4, <2>2, Zenon
  <2>4. p \o <<>> = p
    BY <1>1
  <2>5. TrimEnd(p, "/") = p /\ TrimEnd(d, "/") = p
    BY <2>3, <2>4, SlashesTrimmed, Zenon
  <2>6. AsDir(p) = d
    <3>1. Last(p) # "/"
      BY <2>1 DEF Last
    <3> QED BY <1>5, <3>1 DEF AsDir
  <2> HIDE DEF d
  <2> QED BY <1>3, <1>6, <2>5, <2>6 DEF p, d
<1> QED BY <1>7, <1>8

(* The segments of a path behind a base. *)
LEMMA OwnBehind ==
  ASSUME NEW A, NEW e \in A, NEW s \in Seq(A), NEW t \in Seq(A), t # <<>>
  PROVE  LET u == (<<e>> \o s) \o t
         IN  Tail(u) = s \o t /\ Last(s \o t) = Last(t)
<1> DEFINE v == s \o t
           u == <<e>> \o v
           x == Tail(u)
<1>1. <<e>> \in Seq(A)
  OBVIOUS
<1>2. Regroups(<<e>>, s, t)
  BY <1>1, Associative
<1>3. /\ v \in Seq(A) /\ Len(v) = Len(s) + Len(t)
      /\ \A i \in 1..(Len(s) + Len(t)) : v[i] = IF i <= Len(s) THEN s[i] ELSE t[i - Len(s)]
  BY ConcatIs
<1>4. Len(s) \in Nat /\ Len(t) \in Nat /\ Len(t) # 0
  OBVIOUS
<1>5. Last(v) = Last(t)
  <2> HIDE DEF v
  <2>1. /\ Len(v) \in 1..(Len(s) + Len(t)) /\ ~(Len(v) <= Len(s)) /\ Len(v) - Len(s) = Len(t)
    BY <1>3, <1>4
  <2> QED BY <1>3, <2>1 DEF Last
<1> HIDE DEF v
<1>6. Tail(u) = v
  BY <1>3
<1> HIDE DEF u
<1>7. (<<e>> \o s) \o t = u
  BY <1>2 DEF Regroups, u, v
<1> QED BY <1>5, <1>6, <1>7 DEF v

(* resolve_against_base, for every base path of words and every path put        *)
(* together from tokens of any kind: one that has no scheme or authority and    *)
(* never climbs above its start is not refused.                                 *)
THEOREM ResolveAdmits ==
  ASSUME NEW T, "/" \in T, NEW N \in Seq(Words(T)), NEW base, base # <<>>,
         base = Slashed(N) \/ base = Slashed(N) \o <<"/">>,
         NEW path \in Seq(T), ~IsAbsolute(Cleaned(path)), StaysAbove(OwnSegments(path))
  PROVE  ~Refuses(base, path)
<1> DEFINE L == Seq(Seq(T))
           p == Slashed(N)
           d == p \o <<"/">>
           q == TrimStart(Cleaned(path), "/")
           q1 == TrimEnd(q, " ")
           w == Before(q1, {"?"})
           own == Split(w, "/")
           joined == d \o q
<1>1. AsDir(base) = d /\ Joined(base, Cleaned(path)) = joined
  BY BaseIs DEF Joined
<1>2. /\ p \in Seq(T) /\ Split(p, "/") = << <<>> >> \o N
      /\ \A i \in 1..Len(p) : p[i] # "?"
      /\ Walk(N) = N
  BY WordsArePlain DEF Plain
<1>3. N \in L
  <2>1. Words(T) \subseteq Seq(T)
    BY DEF Words
  <2> QED BY <2>1
<1>4. StaysAbove(own)
  BY DEF OwnSegments
<1>5. Requested(base, path) = Normal(joined)
  BY <1>1 DEF Requested
<1>6. q \in Seq(T)
  <2>1. Cleaned(path) \in Seq(T)
    BY CleanedTyped
  <2> QED BY <2>1, TrimStartTyped
<1> HIDE DEF p, q
<1>7. q1 \in Seq(T)
  BY <1>6, TrimEndIs
<1> HIDE DEF q1
<1>8. w \in Seq(T)
  BY <1>7, BeforeTyped
<1> HIDE DEF w
<1>9. own \in L /\ own # <<>>
  BY <1>8, SplitTyped DEF SegLists
<1>10. /\ d \in Seq(T) /\ Len(d) = Len(p) + 1 /\ Len(p) \in Nat
       /\ \A i \in 1..(Len(p) + 1) : d[i] = IF i <= Len(p) THEN p[i] ELSE "/"
  <2>1. d = Append(p, "/") /\ Append(p, "/") \in Seq(T) /\ Len(p) \in Nat
    BY <1>2
  <2>2. OneMoreIs(p, "/", Append(p, "/"))
    BY <1>2, AppendedIs
  <2>3. \A i \in 1..(Len(p) + 1) : (i <= Len(p) => i \in 1..Len(p)) /\ (~(i <= Len(p)) => i = Len(p) + 1)
    BY <2>1
  <2> HIDE DEF d
  <2> QED BY <2>1, <2>2, <2>3 DEF OneMoreIs
<1>11. Split(d \o w, "/") = (<< <<>> >> \o N) \o own
  <2>1. Split(d \o w, "/") = Split(p, "/") \o own
    BY <1>2, <1>8, SplitGlued
  <2> QED BY <1>2, <2>1
<1> HIDE DEF d, own
<1>12. Len(d) # 0 /\ d[Len(d)] # " " /\ Lacks(d, {"?"})
  <2>1. Len(d) \in 1..(Len(p) + 1) /\ ~(Len(d) <= Len(p)) /\ Len(d) # 0
    BY <1>10
  <2>2. d[Len(d)] = "/"
    BY <1>10, <2>1
  <2>3. ASSUME NEW i \in 1..Len(d) PROVE d[i] \notin {"?"}
    <3>1. i \in 1..(Len(p) + 1) /\ (i <= Len(p) => i \in 1..Len(p))
      BY <1>10
    <3> QED BY <1>2, <1>10, <3>1
  <2> QED BY <2>1, <2>2, <2>3 DEF Lacks
<1>13. TrimEnd(joined, " ") = d \o q1
  <2>1. Trims(d, q, " ")
    BY <1>6, <1>10, <1>12, TrimEndBehind
  <2> QED BY <2>1 DEF Trims, q1
<1>14. Before(d \o q1, {"?"}) = d \o w
  <2>1. StopsBehind(d, q1, {"?"})
    BY <1>7, <1>10, <1>12, BeforeBehind
  <2> QED BY <2>1 DEF StopsBehind, w
<1> HIDE DEF joined
<1> DEFINE segs == N \o own
<1>15. Tail(Split(Before(TrimEnd(joined, " "), {"?"}), "/")) = segs /\ Last(segs) = Last(own)
  <2>1. <<>> \in Seq(T)
    OBVIOUS
  <2> DEFINE u == (<< <<>> >> \o N) \o own
  <2>2. Tail(u) = segs /\ Last(segs) = Last(own)
    BY <1>3, <1>9, <2>1, OwnBehind, Zenon
  <2> HIDE DEF u, segs
  <2>3. Split(Before(TrimEnd(joined, " "), {"?"}), "/") = u
    BY <1>11, <1>13, <1>14, Zenon DEF u
  <2> QED BY <2>2, <2>3, Zenon
<1>16. PICK rest \in L :
         /\ Walk(segs) = N \o rest
         /\ own # <<>> /\ Last(own) \notin Single \cup Double => rest # <<>>
  <2>1. Under(T, N, own)
    BY <1>2, <1>3, <1>4, <1>9, WalkStaysUnder
  <2> QED BY <2>1, Zenon DEF Under
<1> HIDE DEF segs
<1>17. \E more \in L : more # <<>> /\ Segments(joined) = N \o more
  <2>1. CASE Last(segs) \in Single \cup Double
    <3> DEFINE nil == <<>>
               more == Append(rest, nil)
    <3>a. nil \in Seq(T)
      OBVIOUS
    <3>3. Segments(joined) = Append(Walk(segs), nil)
      BY <1>15, <2>1, Zenon DEF Segments
    <3> HIDE DEF nil
    <3>1. more \in L /\ more # <<>>
      <4>1. more \in L
        BY <3>a
      <4>2. OneMoreIs(rest, nil, more) /\ Len(rest) \in Nat
        BY <3>a, AppendedIs
      <4> HIDE DEF more
      <4> QED BY <4>1, <4>2 DEF OneMoreIs
    <3>2. Moves(N, rest, nil)
      BY <1>3, <3>a, AppendBehind
    <3>4. Segments(joined) = N \o more
      BY <1>16, <3>2, <3>3 DEF Moves
    <3> HIDE DEF more
    <3> QED BY <3>1, <3>4
  <2>2. CASE Last(segs) \notin Single \cup Double
    <3>1. Segments(joined) = Walk(segs)
      BY <1>15, <2>2, Zenon DEF Segments
    <3> QED BY <1>9, <1>15, <1>16, <2>2, <3>1
  <2> QED BY <2>1, <2>2
<1>18. PICK t \in Seq(T) : Normal(joined) = d \o t
  <2>1. PICK more \in L : more # <<>> /\ Segments(joined) = N \o more
    BY <1>17
  <2>2. \E t \in Seq(T) : Slashed(N \o more) = d \o t
    BY <1>3, <2>1, SlashedBehind, Zenon DEF d, p
  <2> QED BY <2>1, <2>2, Zenon DEF Normal
<1>19. IsPrefix(d, AsDir(d \o t))
  <2> DEFINE u == d \o t
             e == AsDir(u)
  <2>1. /\ u \in Seq(T) /\ Len(u) = Len(d) + Len(t)
        /\ \A i \in 1..(Len(d) + Len(t)) : u[i] = IF i <= Len(d) THEN d[i] ELSE t[i - Len(d)]
    BY <1>10, ConcatIs
  <2>2. Len(d) \in Nat /\ Len(t) \in Nat
    BY <1>10
  <2> HIDE DEF u
  <2>3. \A i \in 1..Len(d) : u[i] = d[i] /\ i \in 1..Len(u)
    BY <2>1, <2>2
  <2>4. e = u \/ e = Append(u, "/")
    BY DEF AsDir
  <2>5. OneMoreIs(u, "/", Append(u, "/")) /\ Append(u, "/") \in Seq(T)
    BY <2>1, AppendedIs
  <2> HIDE DEF e
  <2>6. e \in Seq(T) /\ Len(d) <= Len(e) /\ \A i \in 1..Len(d) : d[i] = e[i]
    <3>1. CASE e = u
      BY <2>1, <2>2, <2>3, <3>1
    <3>2. CASE e = Append(u, "/")
      <4>1. e \in Seq(T) /\ Len(e) = Len(u) + 1 /\ \A i \in 1..Len(u) : e[i] = u[i]
        BY <2>5, <3>2 DEF OneMoreIs
      <4> QED BY <2>1, <2>2, <2>3, <4>1
    <3> QED BY <2>4, <3>1, <3>2
  <2>7. IsPrefix(d, e)
    BY <1>10, <2>6, PrefixIs
  <2> QED BY <2>7 DEF e, u
<1> QED BY <1>1, <1>5, <1>18, <1>19 DEF Refuses

(* Short sequences put together. *)
LEMMA PutTogether ==
  ASSUME NEW a, NEW b, NEW c
  PROVE  /\ <<>> \o <<a>> = <<a>>
         /\ <<a>> \o <<b>> = <<a, b>>
         /\ <<a, b>> \o <<c>> = <<a, b, c>>
<1> DEFINE T == {a, b, c}
           s == <<a, b>>
           t == <<a, b, c>>
<1>1. <<a>> \in Seq(T) /\ <<b>> \in Seq(T) /\ <<c>> \in Seq(T) /\ s \in Seq(T) /\ t \in Seq(T)
  OBVIOUS
<1>2. <<>> \o <<a>> = <<a>>
  OBVIOUS
<1>3. /\ Len(<<a>>) = 1 /\ <<a>>[1] = a /\ Len(<<b>>) = 1 /\ <<b>>[1] = b
      /\ Len(<<c>>) = 1 /\ <<c>>[1] = c
  OBVIOUS
<1>4. Len(s) = 2 /\ s[1] = a /\ s[2] = b
  OBVIOUS
<1>5. Len(t) = 3 /\ t[1] = a /\ t[2] = b /\ t[3] = c
  OBVIOUS
<1> HIDE DEF T, s, t
<1>6. <<a>> \o <<b>> = s
  <2> DEFINE x == <<a>>
             y == <<b>>
  <2>1. /\ x \in Seq(T) /\ y \in Seq(T) /\ Len(x) = 1 /\ x[1] = a /\ Len(y) = 1 /\ y[1] = b
    BY <1>1, <1>3
  <2> HIDE DEF x, y
  <2> DEFINE z == x \o y
  <2>2. /\ z \in Seq(T) /\ Len(z) = Len(x) + Len(y)
        /\ \A i \in 1..(Len(x) + Len(y)) : z[i] = IF i <= Len(x) THEN x[i] ELSE y[i - Len(x)]
    BY <2>1, ConcatIs
  <2> HIDE DEF z
  <2>3. Len(z) = 2 /\ z[1] = a /\ z[2] = b
    BY <2>1, <2>2
  <2>4. \A i \in 1..Len(z) : z[i] = s[i]
    BY <1>4, <2>3
  <2>5. z = s
    BY <1>1, <1>4, <2>2, <2>3, <2>4, SameElements
  <2> QED BY <2>5 DEF x, y, z
<1>7. s \o <<c>> = t
  <2> DEFINE y == <<c>>
  <2>1. y \in Seq(T) /\ Len(y) = 1 /\ y[1] = c
    BY <1>1, <1>3
  <2> HIDE DEF y
  <2> DEFINE z == s \o y
  <2>2. /\ z \in Seq(T) /\ Len(z) = Len(s) + Len(y)
        /\ \A i \in 1..(Len(s) + Len(y)) : z[i] = IF i <= Len(s) THEN s[i] ELSE y[i - Len(s)]
    BY <1>1, <2>1, ConcatIs
  <2> HIDE DEF z
  <2>3. Len(z) = 3 /\ z[1] = a /\ z[2] = b /\ z[3] = c
    BY <1>4, <2>1, <2>2
  <2>4. \A i \in 1..Len(z) : z[i] = t[i]
    BY <1>5, <2>3
  <2>5. z = t
    BY <1>1, <1>5, <2>2, <2>3, <2>4, SameElements
  <2> QED BY <2>5 DEF y, z
<1> QED BY <1>2, <1>6, <1>7 DEF s, t

(* A path that has no scheme or authority and never climbs above where it       *)
(* started is not refused, with or without a slash at the end of base_url       *)
(* (request.rs, resolve_against_base): for paths of any length.                 *)
THEOREM PathsAreAdmitted == Spec => []BaseAdmits
<1>1. PathsOfTokens => BaseAdmits
  <2> SUFFICES ASSUME PathsOfTokens, of = "resolve_against_base",
                      ~IsAbsolute(Cleaned(input)), StaysAbove(OwnSegments(input))
               PROVE  ~Refuses(given, input)
    BY DEF BaseAdmits
  <2>1. input \in Seq(PathTokens) /\ given \in Bases
    BY DEF PathsOfTokens
  <2>2. "/" \in PathTokens /\ "v1" \in PathTokens
    BY DEF PathTokens
  <2> DEFINE seg == <<"v1">>
             N == <<seg>>
  <2>3. seg \in Words(PathTokens)
    <3>1. seg \in Seq(PathTokens) /\ seg # <<>> /\ Len(seg) = 1 /\ seg[1] = "v1"
      BY <2>2
    <3>2. "v1" # "/" /\ "v1" # "?" /\ "v1" \notin Dot
      BY DEF Dot
    <3>3. seg \notin Single
      BY <3>2 DEF Single
    <3>4. seg \notin Double
      BY DEF Double
    <3> QED BY <3>1, <3>2, <3>3, <3>4 DEF Words
  <2>4. Slashed(N) = <<"/", "v1">>
    <3>1. seg \in Seq(PathTokens) /\ <<>> \in Seq(Seq(PathTokens)) /\ N = Append(<<>>, seg)
      BY <2>2
    <3> HIDE DEF N
    <3>2. Slashed(N) = (<<>> \o <<"/">>) \o seg
      BY <2>2, <3>1, NoSegments, SlashedAppend
    <3>3. <<>> \o <<"/">> = <<"/">> /\ <<"/">> \o <<"v1">> = <<"/", "v1">>
      BY PutTogether
    <3> QED BY <3>2, <3>3, Zenon
  <2>5. <<"/", "v1">> \o <<"/">> = <<"/", "v1", "/">> /\ <<>> \o <<"/">> = <<"/">>
    <3>1. <<"/", "v1">> \o <<"/">> = <<"/", "v1", "/">>
      BY PutTogether
    <3>2. <<>> \o <<"/">> = <<"/">>
      BY PutTogether
    <3> QED BY <3>1, <3>2
  <2>6. N \in Seq(Words(PathTokens)) /\ <<>> \in Seq(Words(PathTokens))
    <3> HIDE DEF seg
    <3> QED BY <2>3
  <2>7. given = <<"/">> \/ given = <<"/", "v1">> \/ given = <<"/", "v1", "/">>
    BY <2>1, Zenon DEF Bases
  <2>8. given # <<>>
    BY <2>7
  <2> HIDE DEF N
  <2>9. CASE given = <<"/">>
    <3>1. given = Slashed(<<>>) \o <<"/">>
      BY <2>5, <2>9, NoSegments
    <3> QED BY <2>1, <2>2, <2>6, <2>8, <3>1, ResolveAdmits
  <2>10. CASE given = <<"/", "v1">> \/ given = <<"/", "v1", "/">>
    <3>1. given = Slashed(N) \/ given = Slashed(N) \o <<"/">>
      BY <2>4, <2>5, <2>10, Zenon
    <3> QED BY <2>1, <2>2, <2>6, <2>8, <3>1, ResolveAdmits
  <2> QED BY <2>7, <2>9, <2>10
<1> QED BY <1>1, PathsAreOfTokens, PTL
=============================================================================
