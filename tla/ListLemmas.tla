------------------------------ MODULE ListLemmas ------------------------------
(***************************************************************************)
(* What the operators of SequencesExt that the models use compute, for     *)
(* sequences of any length.  Induction is on sets of naturals: it follows  *)
(* from WFMin, which needs no operator as a parameter.                     *)
(***************************************************************************)
EXTENDS SequencesExt, Naturals, Sequences, WellFoundedInduction, TLAPS

(* A nonempty set of naturals has a least member. *)
LEMMA Least ==
  ASSUME NEW S, S \subseteq Nat, S # {}
  PROVE  \E m \in S : \A k \in S : m <= k
<1> DEFINE R == OpToRel(<, Nat)
<1>1. IsWellFoundedOn(R, Nat)
  BY NatLessThanWellFounded
<1> HIDE DEF R
<1>2. PICK x \in S : \A y \in S : ~(<<y, x>> \in R)
  BY <1>1, WFMin
<1>3. \A y \in S : ~(y < x)
  BY <1>2 DEF OpToRel, R
<1> QED BY <1>3

(* Induction: a set that holds 0 and every successor of its members. *)
LEMMA Induction ==
  ASSUME NEW S, 0 \in S, \A n \in Nat : n \in S => n + 1 \in S
  PROVE  Nat \subseteq S
<1> SUFFICES ASSUME Nat \ S # {} PROVE FALSE
  OBVIOUS
<1>1. PICK m \in Nat \ S : \A k \in Nat \ S : m <= k
  BY Least
<1>2. m # 0 /\ m - 1 \in Nat /\ m - 1 \in S
  BY <1>1
<1> QED BY <1>1, <1>2

(* Max of a nonempty set of indices is the greatest of them. *)
LEMMA MaxOf ==
  ASSUME NEW n \in Nat, NEW S, S \subseteq 1..n, S # {}
  PROVE  Max(S) \in S /\ \A k \in S : k <= Max(S)
<1> DEFINE T == {n - k : k \in S}
<1>1. \A k \in S : k \in Nat /\ n - k \in Nat
  OBVIOUS
<1>a. T \subseteq Nat
  BY <1>1
<1>b. T # {}
  OBVIOUS
<1>2. PICK m \in T : \A k \in T : m <= k
  BY <1>a, <1>b, Least
<1>3. PICK x \in S : m = n - x
  BY <1>2
<1>4. ASSUME NEW k \in S PROVE x >= k
  <2>1. n - x <= n - k
    BY <1>2, <1>3
  <2> QED BY <1>1, <2>1
<1>5. \E y \in S : \A k \in S : y >= k
  BY <1>4
<1> QED BY <1>5, Zenon DEF Max

(* Max of indices up to n that hold n is n. *)
LEMMA MaxIs ==
  ASSUME NEW n \in Nat, NEW S, S \subseteq 1..n, n \in S
  PROVE  Max(S) = n
<1>1. Max(S) \in 1..n /\ n <= Max(S)
  BY MaxOf
<1> QED BY <1>1

-----------------------------------------------------------------------------
(* f glues the lists of s together, up to each index. *)
Glues(s, n, f) == f = [i \in 1..n |-> IF i = 1 THEN s[i] ELSE f[i - 1] \o s[i]]

(* The function FlattenSeq chooses exists, for any length. *)
LEMMA GlueExists ==
  ASSUME NEW s
  PROVE  \A n \in Nat : \E f : Glues(s, n, f)
<1> DEFINE S == {n \in Nat : \E f : Glues(s, n, f)}
<1>1. 0 \in S
  <2>1. Glues(s, 0, [i \in 1..0 |-> s[i]])
    BY DEF Glues
  <2> QED BY <2>1
<1>2. ASSUME NEW n \in Nat, n \in S PROVE n + 1 \in S
  <2>1. PICK f : Glues(s, n, f)
    BY <1>2
  <2> DEFINE g == [i \in 1..(n + 1) |->
                     IF i <= n THEN f[i] ELSE IF i = 1 THEN s[i] ELSE f[i - 1] \o s[i]]
  <2>2. ASSUME NEW i \in 1..(n + 1)
        PROVE  g[i] = IF i = 1 THEN s[i] ELSE g[i - 1] \o s[i]
    <3>1. CASE i = n + 1
      BY <3>1
    <3>2. CASE i # n + 1
      <4>1. i \in 1..n /\ (i # 1 => i - 1 \in 1..n /\ i - 1 \in 1..(n + 1))
        BY <3>2
      <4>2. f[i] = IF i = 1 THEN s[i] ELSE f[i - 1] \o s[i]
        BY <2>1, <4>1 DEF Glues
      <4> QED BY <4>1, <4>2
    <3> QED BY <3>1, <3>2
  <2>3. Glues(s, n + 1, g)
    BY <2>2 DEF Glues
  <2> QED BY <2>3
<1> HIDE DEF S
<1>3. Nat \subseteq S
  BY <1>1, <1>2, Induction
<1> QED BY <1>3 DEF S

(* It depends on the elements up to its index alone. *)
LEMMA GlueUnique ==
  ASSUME NEW s, NEW t, NEW f, NEW g, NEW n \in Nat, NEW m \in Nat, n <= m,
         \A i \in 1..n : s[i] = t[i], Glues(s, n, f), Glues(t, m, g)
  PROVE  \A i \in 1..n : f[i] = g[i]
<1> DEFINE S == {k \in Nat : k \in 1..n => f[k] = g[k]}
<1>1. 0 \in S
  OBVIOUS
<1>2. ASSUME NEW k \in Nat, k \in S PROVE k + 1 \in S
  <2> SUFFICES ASSUME k + 1 \in 1..n PROVE f[k + 1] = g[k + 1]
    OBVIOUS
  <2>0. k + 1 \in 1..n /\ k + 1 \in 1..m
    OBVIOUS
  <2>1. f[k + 1] = IF k + 1 = 1 THEN s[k + 1] ELSE f[(k + 1) - 1] \o s[k + 1]
    BY <2>0 DEF Glues
  <2>2. g[k + 1] = IF k + 1 = 1 THEN t[k + 1] ELSE g[(k + 1) - 1] \o t[k + 1]
    BY <2>0 DEF Glues
  <2> QED BY <1>2, <2>1, <2>2
<1> HIDE DEF S
<1>3. Nat \subseteq S
  BY <1>1, <1>2, Induction
<1> QED BY <1>3 DEF S

(* FlattenSeq is its last value. *)
LEMMA FlattenSeqIs ==
  ASSUME NEW s, Len(s) \in Nat, Len(s) # 0
  PROVE  \E f : Glues(s, Len(s), f) /\ FlattenSeq(s) = f[Len(s)]
<1>1. FlattenSeq(s) = (CHOOSE f : Glues(s, Len(s), f))[Len(s)]
  BY DEF FlattenSeq, Glues
<1>2. \E f : Glues(s, Len(s), f)
  BY GlueExists
<1> QED BY <1>1, <1>2

(* FlattenSeq of a list with one more at its end: that one glued on. *)
LEMMA FlattenSeqAppend ==
  ASSUME NEW s, NEW t, Len(s) \in Nat, Len(t) = Len(s) + 1,
         \A i \in 1..Len(s) : s[i] = t[i]
  PROVE  FlattenSeq(t) = IF Len(s) = 0 THEN t[1] ELSE FlattenSeq(s) \o t[Len(t)]
<1>1. PICK g : Glues(t, Len(t), g) /\ FlattenSeq(t) = g[Len(t)]
  BY FlattenSeqIs
<1>2. g[Len(t)] = IF Len(t) = 1 THEN t[Len(t)] ELSE g[Len(t) - 1] \o t[Len(t)]
  <2>1. Len(t) \in 1..Len(t)
    OBVIOUS
  <2> QED BY <1>1, <2>1 DEF Glues
<1>3. CASE Len(s) = 0
  BY <1>1, <1>2, <1>3
<1>4. CASE Len(s) # 0
  <2>1. PICK f : Glues(s, Len(s), f) /\ FlattenSeq(s) = f[Len(s)]
    BY <1>4, FlattenSeqIs
  <2>2. f[Len(s)] = g[Len(s)]
    BY <1>1, <1>4, <2>1, GlueUnique
  <2>3. Len(t) - 1 = Len(s) /\ Len(t) # 1
    BY <1>4
  <2> QED BY <1>1, <1>2, <1>4, <2>1, <2>2, <2>3
<1> QED BY <1>3, <1>4
(* t is the sequence s with one more at its end. *)
OneLonger(s, t) ==
  /\ Len(s) \in Nat /\ DOMAIN s = 1..Len(s)
  /\ Len(t) = Len(s) + 1 /\ DOMAIN t = 1..(Len(s) + 1)
  /\ \A i \in 1..Len(s) : s[i] = t[i]

(* A concatenation is one longer when its second part is. *)
LEMMA ConcatGrows ==
  ASSUME NEW a, NEW b, NEW c, Len(a) \in Nat, DOMAIN a = 1..Len(a), OneLonger(b, c)
  PROVE  OneLonger(a \o b, a \o c) /\ (a \o c)[Len(a \o c)] = c[Len(c)]
<1> DEFINE d == Len(a)
           k == Len(b)
<1>0. /\ d \in Nat /\ k \in Nat /\ Len(a) = d /\ Len(b) = k /\ Len(c) = k + 1
      /\ DOMAIN a = 1..d /\ DOMAIN b = 1..k /\ DOMAIN c = 1..(k + 1)
      /\ \A i \in 1..k : b[i] = c[i]
  BY DEF OneLonger
<1> HIDE DEF d, k
<1>1. Len(a \o b) = d + k
  BY <1>0
<1>2. Len(a \o c) = d + (k + 1)
  BY <1>0
<1>3. \A i \in 1..(d + k) : (a \o b)[i] = IF i <= d THEN a[i] ELSE b[i - d]
  BY <1>0
<1>4. \A i \in 1..(d + (k + 1)) : (a \o c)[i] = IF i <= d THEN a[i] ELSE c[i - d]
  BY <1>0
<1>5. ASSUME NEW i \in 1..(d + k) PROVE (a \o b)[i] = (a \o c)[i]
  BY <1>0, <1>3, <1>4
<1>6. (a \o c)[d + (k + 1)] = c[k + 1]
  BY <1>0, <1>4
<1>7. DOMAIN (a \o b) = 1..(d + k) /\ DOMAIN (a \o c) = 1..(d + k + 1)
  BY <1>0
<1>8. OneLonger(a \o b, a \o c)
  BY <1>0, <1>1, <1>2, <1>5, <1>7 DEF OneLonger
<1> QED BY <1>0, <1>2, <1>6, <1>8

(* An index selected, or 0 for none. *)
LEMMA Selected ==
  ASSUME NEW n \in Nat, NEW S, S \subseteq 1..n
  PROVE  /\ (IF S # {} THEN Max(S) ELSE 0) \in 0..n
         /\ (IF S # {} THEN Min(S) ELSE 0) \in 0..n
<1>1. S # {} => Max(S) \in S
  BY MaxOf
<1>2. ASSUME S # {} PROVE Min(S) \in S
  <2>1. S \subseteq Nat
    OBVIOUS
  <2>2. \E m \in S : \A k \in S : m <= k
    BY <1>2, <2>1, Least
  <2> QED BY <2>2 DEF Min
<1>3. \A i \in S : i \in 0..n
  OBVIOUS
<1>4. 0 \in 0..n
  OBVIOUS
<1> QED BY <1>1, <1>2, <1>3, <1>4, Zenon

-----------------------------------------------------------------------------
(* The element at the last of some indices: what SelectLastInSeq selects. *)
AtLast(s, I, none) ==
  LET i == IF I # {} THEN Max(I) ELSE 0 IN IF i = 0 THEN none ELSE s[i]

(* t is s, of length n, with one more, and J are the indices I, and perhaps its. *)
OneMore(s, I, t, J, n) ==
  /\ \A i \in 1..n : s[i] = t[i]
  /\ I \subseteq 1..n /\ J \subseteq 1..(n + 1) /\ J \ {n + 1} = I

(* The element at the last index, of a list with one more at its end. *)
LEMMA AtLastAppend ==
  ASSUME NEW s, NEW t, NEW none, NEW I, NEW J, NEW n \in Nat, OneMore(s, I, t, J, n)
  PROVE  AtLast(t, J, none) = IF n + 1 \in J THEN t[n + 1] ELSE AtLast(s, I, none)
<1> USE DEF OneMore
<1>1. CASE n + 1 \in J
  <2>1. Max(J) = n + 1
    <3>1. \A m \in Nat : J \subseteq 1..m /\ m \in J => Max(J) = m
      BY MaxIs
    <3> QED BY <1>1, <3>1
  <2> QED BY <1>1, <2>1 DEF AtLast
<1>2. CASE n + 1 \notin J /\ I = {}
  <2>1. J = {}
    BY <1>2
  <2> QED BY <1>2, <2>1 DEF AtLast
<1>3. CASE n + 1 \notin J /\ I # {}
  <2>1. J = I
    BY <1>3
  <2>2. Max(I) \in 1..n
    BY <1>3, MaxOf
  <2>3. s[Max(I)] = t[Max(I)]
    BY <2>2
  <2> QED BY <1>3, <2>1, <2>2, <2>3 DEF AtLast
<1> QED BY <1>1, <1>2, <1>3

-----------------------------------------------------------------------------
(* Sequences of the same elements. *)
LEMMA SameElements ==
  ASSUME NEW A, NEW s \in Seq(A), NEW t \in Seq(A), Len(s) = Len(t),
         \A i \in 1..Len(s) : s[i] = t[i]
  PROVE  s = t
<1> DEFINE n == Len(s)
<1>1. s = [i \in 1..n |-> s[i]] /\ t = [i \in 1..n |-> t[i]]
  OBVIOUS
<1>2. \A i \in 1..n : s[i] = t[i]
  OBVIOUS
<1> HIDE DEF n
<1> QED BY <1>1, <1>2

(* A nonempty sequence is its front and its last element. *)
LEMMA FrontAndLast ==
  ASSUME NEW A, NEW s \in Seq(A), s # <<>>
  PROVE  /\ Front(s) \in Seq(A) /\ Last(s) \in A /\ Len(Front(s)) = Len(s) - 1
         /\ s = Append(Front(s), Last(s))
<1> DEFINE n == Len(s)
           f == SubSeq(s, 1, n - 1)
<1>1. n \in Nat /\ n # 0 /\ \A i \in 1..n : s[i] \in A
  OBVIOUS
<1>2. /\ f \in Seq(A) /\ Len(f) = n - 1 /\ \A i \in 1..(n - 1) : f[i] = s[i]
  <2> DEFINE k == n - 1
  <2>1. k \in 0..n
    BY <1>1
  <2> HIDE DEF k
  <2>2. /\ SubSeq(s, 1, k) \in Seq(A) /\ Len(SubSeq(s, 1, k)) = k
        /\ \A i \in 1..k : SubSeq(s, 1, k)[i] = s[i]
    BY <2>1
  <2> QED BY <2>2 DEF k
<1>3. s[n] \in A
  BY <1>1
<1> HIDE DEF f
<1>4. /\ Append(f, s[n]) \in Seq(A) /\ Len(Append(f, s[n])) = n
      /\ \A i \in 1..n : Append(f, s[n])[i] = s[i]
  BY <1>1, <1>2, <1>3
<1>5. s = Append(f, s[n])
  BY <1>4, SameElements
<1> QED BY <1>2, <1>3, <1>5 DEF f, Front, Last

(* Sequences begin alike, or end alike. *)
LEMMA PrefixIs ==
  ASSUME NEW A, NEW s \in Seq(A), NEW t \in Seq(A)
  PROVE  IsPrefix(s, t) <=> Len(s) <= Len(t) /\ \A i \in 1..Len(s) : s[i] = t[i]
<1> DEFINE n == Len(s)
<1>1. n \in Nat /\ Len(t) \in Nat
  OBVIOUS
<1>2. ASSUME n <= Len(t) PROVE SubSeq(s, 1, n) = SubSeq(t, 1, n) <=> \A i \in 1..n : s[i] = t[i]
  <2>1. /\ SubSeq(s, 1, n) = [i \in 1..n |-> s[i]]
        /\ SubSeq(t, 1, n) = [i \in 1..n |-> t[i]]
    BY <1>1, <1>2
  <2> HIDE DEF n
  <2> QED BY <2>1
<1> QED BY <1>1, <1>2 DEF IsPrefix

(* t ends with s, counted from the end. *)
EndsWith(s, t) ==
  Len(s) <= Len(t) /\ \A i \in 0..(Len(s) - 1) : s[Len(s) - i] = t[Len(t) - i]

(* With one more each, they must be the same. *)
LEMMA EndsAppend ==
  ASSUME NEW A, NEW s \in Seq(A), NEW t \in Seq(A), NEW x \in A, NEW y \in A
  PROVE  EndsWith(Append(s, x), Append(t, y)) <=> x = y /\ EndsWith(s, t)
<1> DEFINE m == Len(s)
           n == Len(t)
           u == Append(s, x)
           v == Append(t, y)
<1>1. /\ m \in Nat /\ n \in Nat /\ Len(u) = m + 1 /\ Len(v) = n + 1
      /\ u[m + 1] = x /\ v[n + 1] = y
      /\ \A i \in 1..m : u[i] = s[i]
      /\ \A i \in 1..n : v[i] = t[i]
  OBVIOUS
<1> HIDE DEF u, v
<1>2. ASSUME EndsWith(u, v) PROVE x = y /\ EndsWith(s, t)
  <2>1. m <= n /\ \A i \in 0..m : u[m + 1 - i] = v[n + 1 - i]
    BY <1>1, <1>2 DEF EndsWith
  <2>2. 0 \in 0..m /\ m + 1 - 0 = m + 1 /\ n + 1 - 0 = n + 1
    BY <1>1
  <2>3. x = y
    BY <1>1, <2>1, <2>2
  <2>4. ASSUME NEW i \in 0..(m - 1) PROVE s[m - i] = t[n - i]
    <3>1. /\ i + 1 \in 0..m /\ m + 1 - (i + 1) = m - i /\ n + 1 - (i + 1) = n - i
          /\ m - i \in 1..m /\ n - i \in 1..n
      BY <1>1, <2>1
    <3> QED BY <1>1, <2>1, <3>1
  <2> QED BY <2>1, <2>3, <2>4 DEF EndsWith
<1>3. ASSUME x = y, EndsWith(s, t) PROVE EndsWith(u, v)
  <2>1. m <= n /\ \A i \in 0..(m - 1) : s[m - i] = t[n - i]
    BY <1>3 DEF EndsWith
  <2>2. ASSUME NEW i \in 0..m PROVE u[m + 1 - i] = v[n + 1 - i]
    <3>1. CASE i = 0
      BY <1>1, <1>3, <3>1
    <3>2. CASE i # 0
      <4>1. /\ i - 1 \in 0..(m - 1) /\ m + 1 - i = m - (i - 1) /\ n + 1 - i = n - (i - 1)
            /\ m - (i - 1) \in 1..m /\ n - (i - 1) \in 1..n
        BY <1>1, <2>1, <3>2
      <4> QED BY <1>1, <2>1, <4>1
    <3> QED BY <3>1, <3>2
  <2> QED BY <1>1, <2>1, <2>2 DEF EndsWith
<1> QED BY <1>2, <1>3 DEF u, v

(* That is what a suffix is. *)
LEMMA SuffixIs ==
  ASSUME NEW A, NEW s \in Seq(A), NEW t \in Seq(A)
  PROVE  IsSuffix(s, t) <=> EndsWith(s, t)
<1> DEFINE m == Len(s)
           n == Len(t)
           u == Reverse(s)
           v == Reverse(t)
<1>1. /\ m \in Nat /\ n \in Nat
      /\ u \in Seq(A) /\ Len(u) = m /\ \A i \in 1..m : u[i] = s[m - i + 1]
      /\ v \in Seq(A) /\ Len(v) = n /\ \A i \in 1..n : v[i] = t[n - i + 1]
  BY DEF Reverse
<1>2. IsSuffix(s, t) <=> IsPrefix(u, v)
  BY DEF IsSuffix
<1> HIDE DEF u, v
<1>3. IsPrefix(u, v) <=> m <= n /\ \A i \in 1..m : u[i] = v[i]
  BY <1>1, PrefixIs
<1>4. ASSUME m <= n
      PROVE  (\A i \in 1..m : u[i] = v[i]) <=> \A i \in 0..(m - 1) : s[m - i] = t[n - i]
  <2>1. \A i \in 1..m : /\ i - 1 \in 0..(m - 1) /\ i \in 1..n
                        /\ m - i + 1 = m - (i - 1) /\ n - i + 1 = n - (i - 1)
    BY <1>1, <1>4
  <2>2. \A i \in 0..(m - 1) : /\ i + 1 \in 1..m /\ i + 1 \in 1..n
                              /\ m - (i + 1) + 1 = m - i /\ n - (i + 1) + 1 = n - i
    BY <1>1, <1>4
  <2>3. ASSUME \A i \in 1..m : u[i] = v[i], NEW i \in 0..(m - 1)
        PROVE  s[m - i] = t[n - i]
    BY <1>1, <2>2, <2>3
  <2>4. ASSUME \A i \in 0..(m - 1) : s[m - i] = t[n - i], NEW i \in 1..m
        PROVE  u[i] = v[i]
    BY <1>1, <2>1, <2>4
  <2> QED BY <2>3, <2>4
<1> QED BY <1>2, <1>3, <1>4 DEF EndsWith

(* Concatenations, element by element. *)
LEMMA ConcatIs ==
  ASSUME NEW A, NEW a \in Seq(A), NEW b \in Seq(A)
  PROVE  /\ a \o b \in Seq(A) /\ Len(a \o b) = Len(a) + Len(b)
         /\ \A i \in 1..(Len(a) + Len(b)) :
              (a \o b)[i] = IF i <= Len(a) THEN a[i] ELSE b[i - Len(a)]
<1>1. a \o b \in Seq(A) /\ Len(a \o b) = Len(a) + Len(b)
  OBVIOUS
<1>2. \A i \in 1..(Len(a) + Len(b)) :
        (a \o b)[i] = IF i <= Len(a) THEN a[i] ELSE b[i - Len(a)]
  OBVIOUS
<1> QED BY <1>1, <1>2

(* A sequence with one more element. *)
OneMoreIs(s, x, y) ==
  Len(y) = Len(s) + 1 /\ y[Len(s) + 1] = x /\ \A i \in 1..Len(s) : y[i] = s[i]

LEMMA AppendedIs ==
  ASSUME NEW A, NEW s \in Seq(A), NEW x \in A
  PROVE  OneMoreIs(s, x, Append(s, x))
BY DEF OneMoreIs

(* One more behind a concatenation is one more behind its second part. *)
Moves(e, s, x) == Append(e \o s, x) = e \o Append(s, x)

LEMMA AppendBehind ==
  ASSUME NEW A, NEW e \in Seq(A), NEW s \in Seq(A), NEW x \in A
  PROVE  Moves(e, s, x)
BY DEF Moves

(* All but the last of them again. *)
Drops(s, x) == Append(s, x) # <<>> /\ Front(Append(s, x)) = s

LEMMA FrontOfAppend ==
  ASSUME NEW A, NEW s \in Seq(A), NEW x \in A
  PROVE  Drops(s, x)
<1> DEFINE r == Append(s, x)
<1>1. r \in Seq(A) /\ OneMoreIs(s, x, r) /\ Len(s) \in Nat
  BY AppendedIs
<1> HIDE DEF r
<1>2. r # <<>>
  BY <1>1 DEF OneMoreIs
<1> DEFINE f == Front(r)
<1>3. f \in Seq(A) /\ Len(f) = Len(s) /\ r = Append(f, Last(r)) /\ Last(r) \in A
  BY <1>1, <1>2, FrontAndLast DEF OneMoreIs
<1> HIDE DEF f
<1>4. OneMoreIs(f, Last(r), r)
  BY <1>3, AppendedIs
<1>5. \A i \in 1..Len(f) : f[i] = s[i]
  BY <1>1, <1>3, <1>4 DEF OneMoreIs
<1>6. f = s
  BY <1>3, <1>5, SameElements
<1> QED BY <1>2, <1>6 DEF Drops, f, r

(* Concatenation is associative. *)
Regroups(a, b, c) == (a \o b) \o c = a \o (b \o c)

LEMMA Associative ==
  ASSUME NEW A, NEW a \in Seq(A), NEW b \in Seq(A), NEW c \in Seq(A)
  PROVE  Regroups(a, b, c)
BY DEF Regroups

(* What stands in front does not matter to a change of the last element. *)
LEMMA ChangedBehind ==
  ASSUME NEW A, NEW e \in Seq(A), NEW s \in Seq(A), Len(s) # 0, NEW v \in A
  PROVE  [(e \o s) EXCEPT ![Len(e) + Len(s)] = v] = e \o [s EXCEPT ![Len(s)] = v]
<1> DEFINE m == Len(e)
           n == Len(s)
           w == e \o s
           x == [s EXCEPT ![n] = v]
           y == [w EXCEPT ![m + n] = v]
           z == e \o x
<1>1. m \in Nat /\ n \in Nat /\ n # 0 /\ n \in 1..n /\ m + n \in 1..(m + n)
  OBVIOUS
<1>2. x \in Seq(A) /\ Len(x) = n /\ \A i \in 1..n : x[i] = IF i = n THEN v ELSE s[i]
  BY <1>1
<1>3. w \in Seq(A) /\ Len(w) = m + n
  BY ConcatIs
<1>4. \A i \in 1..(m + n) : w[i] = IF i <= m THEN e[i] ELSE s[i - m]
  BY ConcatIs
<1> HIDE DEF x
<1>5. z \in Seq(A) /\ Len(z) = m + n
  <2>1. z \in Seq(A) /\ Len(z) = Len(e) + Len(x)
    BY <1>2, ConcatIs
  <2> QED BY <1>2, <2>1
<1>6. \A i \in 1..(m + n) : z[i] = IF i <= m THEN e[i] ELSE x[i - m]
  BY <1>2, ConcatIs
<1> HIDE DEF w, z
<1>7. /\ y \in Seq(A) /\ Len(y) = m + n
      /\ \A i \in 1..(m + n) : y[i] = IF i = m + n THEN v ELSE w[i]
  BY <1>1, <1>3
<1> HIDE DEF y, m, n
<1>8. ASSUME NEW i \in 1..(m + n) PROVE y[i] = z[i]
  <2>1. CASE i <= m
    BY <1>1, <1>4, <1>6, <1>7, <2>1
  <2>2. CASE i > m
    <3>1. i - m \in 1..n /\ (i - m = n <=> i = m + n) /\ ~(i <= m)
      BY <1>1, <2>2
    <3> QED BY <1>2, <1>4, <1>6, <1>7, <3>1
  <2>3. i <= m \/ i > m
    BY <1>1
  <2> QED BY <2>1, <2>2, <2>3
<1>9. y = z
  BY <1>5, <1>7, <1>8, SameElements
<1> QED BY <1>9 DEF y, w, z, x, m, n

(* Induction: a set that holds the empty sequence and every sequence that is    *)
(* one of its members with one more element.                                    *)
LEMMA SequencesGrow ==
  ASSUME NEW A, NEW S, <<>> \in S,
         \A s \in Seq(A), x \in A : s \in S => Append(s, x) \in S
  PROVE  Seq(A) \subseteq S
<1> DEFINE N == {n \in Nat : \A s \in Seq(A) : Len(s) = n => s \in S}
<1>1. 0 \in N
  <2>1. \A s \in Seq(A) : Len(s) = 0 => s = <<>>
    OBVIOUS
  <2> QED BY <2>1
<1>2. ASSUME NEW n \in Nat, n \in N PROVE n + 1 \in N
  <2> SUFFICES ASSUME NEW s \in Seq(A), Len(s) = n + 1 PROVE s \in S
    OBVIOUS
  <2>1. s # <<>>
    OBVIOUS
  <2> DEFINE f == Front(s)
             l == Last(s)
  <2>2. f \in Seq(A) /\ l \in A /\ Len(f) = n /\ s = Append(f, l)
    BY <2>1, FrontAndLast
  <2> HIDE DEF f, l
  <2>3. f \in S
    BY <1>2, <2>2
  <2> QED BY <2>2, <2>3
<1> HIDE DEF N
<1>3. Nat \subseteq N
  BY <1>1, <1>2, Induction
<1>4. ASSUME NEW s \in Seq(A) PROVE s \in S
  <2>1. Len(s) \in N
    BY <1>3
  <2> QED BY <2>1 DEF N
<1> QED BY <1>4

-----------------------------------------------------------------------------
(* The first indices of a sequence, one after the other. *)
LEMMA UpTo ==
  ASSUME NEW n \in Nat, NEW k \in Nat, k < n
  PROVE  /\ 1..(k + 1) \in SUBSET (1..n) /\ 1..(k + 1) # {}
         /\ Max(1..(k + 1)) = k + 1 /\ (1..(k + 1)) \ {k + 1} = 1..k
<1> DEFINE m == k + 1
<1>1. m \in Nat /\ 1..m \subseteq 1..m /\ m \in 1..m /\ 1..m \subseteq 1..n
  OBVIOUS
<1>2. \A i : i \in (1..m) \ {m} <=> i \in 1..k
  OBVIOUS
<1> HIDE DEF m
<1>3. Max(1..m) = m
  BY <1>1, MaxIs
<1>4. (1..m) \ {m} = 1..k /\ 1..m # {}
  BY <1>1, <1>2, Zenon
<1> QED BY <1>1, <1>3, <1>4 DEF m

(* Sets of indices without the last one. *)
LEMMA OneLess ==
  ASSUME NEW k \in Nat, NEW t \in SUBSET (1..(k + 1))
  PROVE  t \ {k + 1} \in SUBSET (1..k) /\ (k + 1 \notin t => t \in SUBSET (1..k))
OBVIOUS

(* Folding the function G over the n elements of s, from b. *)
Folding(G, b, s, n, f) ==
  \A t \in SUBSET (1..n) : f[t] = IF t = {} THEN b ELSE G[f[t \ {Max(t)}]][s[Max(t)]]

Foldable(X, Y, G, b, s, n) ==
  /\ G \in [X -> [Y -> X]] /\ b \in X
  /\ n \in Nat /\ \A i \in 1..n : s[i] \in Y

HasFold(X, Y, G, b, s, n) ==
  \E f \in [SUBSET (1..n) -> X] :
    /\ f[{}] = b
    /\ \A t \in SUBSET (1..n) : t # {} =>
         /\ f[t \ {Max(t)}] \in X /\ s[Max(t)] \in Y
         /\ f[t] = G[f[t \ {Max(t)}]][s[Max(t)]]

(* Such a fold exists, for any number of elements. *)
LEMMA FoldingExists ==
  ASSUME NEW X, NEW Y, NEW G, NEW n, NEW s, NEW b, Foldable(X, Y, G, b, s, n)
  PROVE  HasFold(X, Y, G, b, s, n)
<1> USE DEF Foldable
<1> DEFINE Has(k) == \E f \in [SUBSET (1..k) -> X] : Folding(G, b, s, k, f)
           S == {k \in Nat : k <= n => Has(k)}
<1>1. Has(0)
  <2>1. \A t \in SUBSET (1..0) : t = {}
    OBVIOUS
  <2> DEFINE g == [t \in SUBSET (1..0) |-> b]
  <2>2. g \in [SUBSET (1..0) -> X] /\ Folding(G, b, s, 0, g)
    BY <2>1 DEF Folding
  <2> HIDE DEF g
  <2> QED BY <2>2
<1>2. ASSUME NEW k \in Nat, k + 1 <= n, Has(k) PROVE Has(k + 1)
  <2>1. PICK f \in [SUBSET (1..k) -> X] : Folding(G, b, s, k, f)
    BY <1>2
  <2>2. s[k + 1] \in Y
    BY <1>2
  <2> DEFINE g == [t \in SUBSET (1..(k + 1)) |->
                     IF k + 1 \in t THEN G[f[t \ {k + 1}]][s[k + 1]] ELSE f[t]]
  <2>3. ASSUME NEW t \in SUBSET (1..(k + 1))
        PROVE  g[t] \in X
    <3>1. t \ {k + 1} \in SUBSET (1..k) /\ (k + 1 \notin t => t \in SUBSET (1..k))
      BY OneLess
    <3>2. f[t \ {k + 1}] \in X /\ (k + 1 \notin t => f[t] \in X)
      BY <3>1
    <3>3. G[f[t \ {k + 1}]][s[k + 1]] \in X
      BY <2>2, <3>2
    <3> QED BY <3>2, <3>3
  <2>4. ASSUME NEW t \in SUBSET (1..(k + 1))
        PROVE  g[t] = IF t = {} THEN b ELSE G[g[t \ {Max(t)}]][s[Max(t)]]
    <3>1. CASE k + 1 \in t
      <4>1. Max(t) = k + 1
        <5>1. \A m \in Nat : t \subseteq 1..m /\ m \in t => Max(t) = m
          BY MaxIs
        <5> QED BY <3>1, <5>1
      <4>2. t \ {k + 1} \in SUBSET (1..(k + 1)) /\ k + 1 \notin t \ {k + 1}
        OBVIOUS
      <4>3. g[t \ {k + 1}] = f[t \ {k + 1}]
        BY <4>2
      <4> QED BY <3>1, <4>1, <4>3
    <3>2. CASE k + 1 \notin t
      <4>1. t \in SUBSET (1..k)
        BY <3>2, OneLess
      <4>2. t # {} => Max(t) \in t
        BY <4>1, MaxOf
      <4>3. t \ {Max(t)} \in SUBSET (1..(k + 1)) /\ k + 1 \notin t \ {Max(t)}
        BY <3>2, Zenon
      <4>4. g[t] = f[t] /\ g[t \ {Max(t)}] = f[t \ {Max(t)}]
        BY <3>2, <4>3
      <4>5. f[t] = IF t = {} THEN b ELSE G[f[t \ {Max(t)}]][s[Max(t)]]
        BY <2>1, <4>1 DEF Folding
      <4> QED BY <4>4, <4>5
    <3> QED BY <3>1, <3>2
  <2>5. g \in [SUBSET (1..(k + 1)) -> X]
    BY <2>3
  <2>6. Folding(G, b, s, k + 1, g)
    BY <2>4 DEF Folding
  <2> HIDE DEF g
  <2> QED BY <2>5, <2>6
<1> HIDE DEF Has
<1>3. 0 \in S /\ \A k \in Nat : k \in S => k + 1 \in S
  BY <1>1, <1>2
<1> HIDE DEF S
<1>4. n \in S
  BY <1>3, Induction
<1>5. Has(n)
  BY <1>4 DEF S
<1>6. PICK f \in [SUBSET (1..n) -> X] : Folding(G, b, s, n, f)
  BY <1>5 DEF Has
<1>7. ASSUME NEW t \in SUBSET (1..n), t # {}
      PROVE  /\ f[t \ {Max(t)}] \in X /\ s[Max(t)] \in Y
             /\ f[t] = G[f[t \ {Max(t)}]][s[Max(t)]]
  <2>1. Max(t) \in t
    BY <1>7, MaxOf
  <2>2. t \ {Max(t)} \in SUBSET (1..n) /\ s[Max(t)] \in Y
    BY <2>1
  <2> QED BY <1>6, <1>7, <2>2 DEF Folding
<1>8. f[{}] = b
  BY <1>6 DEF Folding
<1> QED BY <1>6, <1>7, <1>8 DEF HasFold

(* v is what the steps of G lead to, one element after the other. *)
Runs(X, G, b, s, n, v) ==
  \E g \in [0..n -> X] :
    /\ g[0] = b /\ g[n] = v
    /\ \A k \in 0..n : k < n => g[k + 1] = G[g[k]][s[k + 1]]

(* A fold stays in the set its steps stay in. *)
LEMMA RunsTyped ==
  ASSUME NEW X, NEW G, NEW b, NEW s, NEW v, Len(s) \in Nat, Runs(X, G, b, s, Len(s), v)
  PROVE  v \in X
<1> DEFINE n == Len(s)
<1>1. n \in 0..n
  OBVIOUS
<1> HIDE DEF n
<1> QED BY <1>1 DEF Runs, n

(* One element more is one step more. *)
LEMMA RunsAppend ==
  ASSUME NEW X, NEW G, NEW b, NEW s, NEW r, NEW n \in Nat, NEW v, NEW w,
         Runs(X, G, b, s, n, v), Runs(X, G, b, r, n + 1, w), \A i \in 1..n : s[i] = r[i]
  PROVE  v \in X /\ w = G[v][r[n + 1]]
<1>1. PICK g \in [0..n -> X] :
        /\ g[0] = b /\ g[n] = v
        /\ \A k \in 0..n : k < n => g[k + 1] = G[g[k]][s[k + 1]]
  BY DEF Runs
<1>2. PICK h \in [0..(n + 1) -> X] :
        /\ h[0] = b /\ h[n + 1] = w
        /\ \A k \in 0..(n + 1) : k < n + 1 => h[k + 1] = G[h[k]][r[k + 1]]
  BY DEF Runs
<1> DEFINE S == {k \in Nat : k <= n => g[k] = h[k]}
<1>3. 0 \in S
  BY <1>1, <1>2
<1>4. ASSUME NEW k \in Nat, k \in S PROVE k + 1 \in S
  <2> SUFFICES ASSUME k + 1 <= n PROVE g[k + 1] = h[k + 1]
    OBVIOUS
  <2>1. k \in 0..n /\ k \in 0..(n + 1) /\ k < n /\ k < n + 1 /\ s[k + 1] = r[k + 1] /\ g[k] = h[k]
    BY <1>4
  <2> QED BY <1>1, <1>2, <2>1
<1> HIDE DEF S
<1>5. n \in S
  BY <1>3, <1>4, Induction
<1>6. g[n] = h[n]
  BY <1>5 DEF S
<1>7. n \in 0..n /\ n \in 0..(n + 1) /\ n < n + 1
  OBVIOUS
<1> QED BY <1>1, <1>2, <1>6, <1>7

(* A fold over sets of indices runs through the elements: h may be of a step    *)
(* that agrees with G only where G is defined.                                  *)
LEMMA FoldRuns ==
  ASSUME NEW X, NEW Y, NEW G, NEW n, NEW s, NEW b, Foldable(X, Y, G, b, s, n),
         NEW h, h[{}] = b,
         \A t \in SUBSET (1..n) :
           t # {} /\ h[t \ {Max(t)}] \in X => h[t] = G[h[t \ {Max(t)}]][s[Max(t)]]
  PROVE  Runs(X, G, b, s, n, h[1..n])
<1> DEFINE S == {k \in Nat : k <= n => h[1..k] \in X}
           g == [k \in 0..n |-> h[1..k]]
<1>0. n \in Nat /\ G \in [X -> [Y -> X]] /\ b \in X /\ \A i \in 1..n : s[i] \in Y
  BY DEF Foldable
<1>1. 1..0 = {} /\ h[1..0] = b
  OBVIOUS
<1>2. ASSUME NEW k \in Nat, k < n, h[1..k] \in X
      PROVE  h[1..(k + 1)] = G[h[1..k]][s[k + 1]] /\ h[1..(k + 1)] \in X
  <2>1. /\ 1..(k + 1) \in SUBSET (1..n) /\ 1..(k + 1) # {}
        /\ Max(1..(k + 1)) = k + 1 /\ (1..(k + 1)) \ {k + 1} = 1..k
    BY <1>0, <1>2, UpTo
  <2> DEFINE t == 1..(k + 1)
             x == h[1..k]
  <2>2. t \in SUBSET (1..n) /\ t # {} /\ Max(t) = k + 1 /\ h[t \ {k + 1}] = x /\ x \in X
    BY <1>2, <2>1
  <2>3. s[k + 1] \in Y
    BY <1>0, <1>2
  <2> HIDE DEF t, x
  <2>4. h[t] = G[x][s[k + 1]]
    BY <2>2
  <2>5. h[t] \in X
    BY <1>0, <2>2, <2>3, <2>4
  <2> QED BY <2>4, <2>5 DEF t, x
<1>3. 0 \in S /\ \A k \in Nat : k \in S => k + 1 \in S
  BY <1>0, <1>1, <1>2
<1> HIDE DEF S
<1>4. Nat \subseteq S
  BY <1>3, Induction
<1>5. \A k \in 0..n : h[1..k] \in X
  BY <1>0, <1>4 DEF S
<1>6. g \in [0..n -> X]
  BY <1>5
<1>7. g[0] = b /\ g[n] = h[1..n]
  BY <1>0, <1>1
<1>8. ASSUME NEW k \in 0..n, k < n PROVE g[k + 1] = G[g[k]][s[k + 1]]
  <2>1. k \in Nat /\ k + 1 \in 0..n /\ h[1..k] \in X
    BY <1>0, <1>5, <1>8
  <2> QED BY <1>2, <1>8, <2>1
<1> HIDE DEF g
<1> QED BY <1>6, <1>7, <1>8 DEF Runs
=============================================================================
