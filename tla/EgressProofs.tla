---------------------------- MODULE EgressProofs ----------------------------
(***************************************************************************)
(* Proofs about Addresses and HostNames: what is_internal_v4 and           *)
(* is_internal_v6 of src/src/egress.rs refuse, for every address, and what *)
(* deny_host_suffix denies, for every name; from that the invariants of    *)
(* MCFunctions about them.                                                 *)
(*                                                                         *)
(* A prefix is compared segment by segment (WithinAgrees); the segments    *)
(* its bits cover are compared whole, the last one by a division that the  *)
(* code's mask or range stands for (Masks, V4First, V4Second).  The        *)
(* address forms is_internal_v6 unwraps exclude each other and the native  *)
(* ranges (Disjoint, NotNative), so its early returns hide nothing.        *)
(*                                                                         *)
(* A name is compared from its end, character by character in the code and *)
(* label by label in the property.  SplitsEndAlike, by induction on the    *)
(* length of the domain, shows that the two agree.                         *)
(***************************************************************************)
EXTENDS FunctionProofs, Integers, SequenceTheorems

(* Addresses. *)
Byte == {n \in Nat : n <= 255}
Segment == {n \in Nat : n <= 65535}
V4 == [1..4 -> Byte]
V6 == [1..8 -> Segment]

(* The parts of Within: the bits of a segment, how many of its low bits a       *)
(* prefix of n bits leaves out, the high bits that remain, and whether those of *)
(* the i-th segment are those of seg.                                           *)
Width(ip) == IF Len(ip) = 4 THEN 8 ELSE 16
Spare(ip, i, n) == IF n >= Width(ip) * i THEN 0 ELSE Width(ip) * i - n
Top(x, spare) == x \div 2 ^ spare
Agree(ip, i, seg, n) == Top(ip[i], Spare(ip, i, n)) = Top(seg, Spare(ip, i, n))

(* A function on 1..n is a sequence of that length. *)
LEMMA IsSequence ==
  ASSUME NEW S, NEW n \in Nat, NEW f \in [1..n -> S]
  PROVE  f \in Seq(S) /\ Len(f) = n
OBVIOUS

(* IPv4 addresses are told from IPv6 ones by their length. *)
LEMMA Widths ==
  /\ \A ip \in V4 : Width(ip) = 8 /\ Len(ip) = 4
  /\ \A ip \in V6 : Width(ip) = 16 /\ Len(ip) = 8
<1>1. \A ip \in V4 : Len(ip) = 4
  BY IsSequence DEF V4
<1>2. \A ip \in V6 : Len(ip) = 8
  BY IsSequence DEF V6
<1> QED BY <1>1, <1>2 DEF Width

-----------------------------------------------------------------------------
(* Within, segment by segment. *)
LEMMA WithinAgrees ==
  \A ip, s, n : Within(ip, Prefix(s, n)) <=> \A i \in DOMAIN s : Agree(ip, i, s[i], n)
BY DEF Within, Prefix, Spare, Top, Agree, Width

(* The divisors that occur. *)
LEMMA Tops == \A x \in Nat :
  /\ Top(x, 0) = x /\ Top(x, 1) = x \div 2 /\ Top(x, 4) = x \div 16
  /\ Top(x, 6) = x \div 64 /\ Top(x, 8) = x \div 256 /\ Top(x, 9) = x \div 512
BY DEF Top

(* Prefixes of one, two and three segments. *)
LEMMA OneSegment == \A ip, a, n :
  Within(ip, Prefix(<<a>>, n)) <=> Agree(ip, 1, a, n)
<1> TAKE ip, a, n
<1>1. DOMAIN <<a>> = {1} /\ <<a>>[1] = a
  OBVIOUS
<1>2. Within(ip, Prefix(<<a>>, n)) <=> \A i \in DOMAIN <<a>> : Agree(ip, i, <<a>>[i], n)
  BY WithinAgrees
<1> QED BY <1>1, <1>2

LEMMA TwoSegments == \A ip, a, b, n :
  Within(ip, Prefix(<<a, b>>, n)) <=> Agree(ip, 1, a, n) /\ Agree(ip, 2, b, n)
<1> TAKE ip, a, b, n
<1>1. DOMAIN <<a, b>> = {1, 2} /\ <<a, b>>[1] = a /\ <<a, b>>[2] = b
  OBVIOUS
<1>2. Within(ip, Prefix(<<a, b>>, n)) <=> \A i \in DOMAIN <<a, b>> : Agree(ip, i, <<a, b>>[i], n)
  BY WithinAgrees
<1> QED BY <1>1, <1>2

LEMMA ThreeSegments == \A ip, a, b, c, n :
  Within(ip, Prefix(<<a, b, c>>, n)) <=>
    Agree(ip, 1, a, n) /\ Agree(ip, 2, b, n) /\ Agree(ip, 3, c, n)
<1> TAKE ip, a, b, c, n
<1>1. /\ DOMAIN <<a, b, c>> = {1, 2, 3}
      /\ <<a, b, c>>[1] = a /\ <<a, b, c>>[2] = b /\ <<a, b, c>>[3] = c
  OBVIOUS
<1>2. Within(ip, Prefix(<<a, b, c>>, n)) <=>
        \A i \in DOMAIN <<a, b, c>> : Agree(ip, i, <<a, b, c>>[i], n)
  BY WithinAgrees
<1> QED BY <1>1, <1>2

(* Where the bits cover every segment of the prefix, they are compared whole. *)
LEMMA WholeSegments ==
  ASSUME NEW ip, NEW s, NEW n, Width(ip) \in Nat, n \in Nat, DOMAIN s \subseteq Nat,
        \A i \in DOMAIN s : n >= Width(ip) * i /\ ip[i] \in Nat /\ s[i] \in Nat
  PROVE  Within(ip, Prefix(s, n)) <=> \A i \in DOMAIN s : ip[i] = s[i]
<1>1. \A i \in DOMAIN s : Agree(ip, i, s[i], n) <=> ip[i] = s[i]
  BY Tops DEF Agree, Spare
<1> QED BY <1>1, WithinAgrees

-----------------------------------------------------------------------------
(* The IPv4 ranges of one, two and three octets. *)
LEMMA V4First == \A ip \in V4 :
  /\ Within(ip, Prefix(<<0>>, 8)) <=> ip[1] = 0
  /\ Within(ip, Prefix(<<10>>, 8)) <=> ip[1] = 10
  /\ Within(ip, Prefix(<<127>>, 8)) <=> ip[1] = 127
  /\ Within(ip, Prefix(<<224>>, 4)) <=> ip[1] \in 224..239
  /\ Within(ip, Prefix(<<240>>, 4)) <=> ip[1] >= 240
<1> TAKE ip \in V4
<1>1. Spare(ip, 1, 8) = 0 /\ Spare(ip, 1, 4) = 4
  BY Widths DEF Spare
<1>2. ip[1] \in 0..255
  BY DEF V4, Byte
<1> QED BY OneSegment, <1>1, <1>2, Tops DEF Agree

LEMMA V4Second == \A ip \in V4 :
  /\ Within(ip, Prefix(<<100, 64>>, 10)) <=> ip[1] = 100 /\ ip[2] \in 64..127
  /\ Within(ip, Prefix(<<169, 254>>, 16)) <=> ip[1] = 169 /\ ip[2] = 254
  /\ Within(ip, Prefix(<<172, 16>>, 12)) <=> ip[1] = 172 /\ ip[2] \in 16..31
  /\ Within(ip, Prefix(<<192, 168>>, 16)) <=> ip[1] = 192 /\ ip[2] = 168
  /\ Within(ip, Prefix(<<198, 18>>, 15)) <=> ip[1] = 198 /\ ip[2] \in {18, 19}
<1> TAKE ip \in V4
<1>1. /\ Spare(ip, 1, 10) = 0 /\ Spare(ip, 1, 12) = 0
      /\ Spare(ip, 1, 15) = 0 /\ Spare(ip, 1, 16) = 0
  BY Widths DEF Spare
<1>2. /\ Spare(ip, 2, 10) = 6 /\ Spare(ip, 2, 12) = 4
      /\ Spare(ip, 2, 15) = 1 /\ Spare(ip, 2, 16) = 0
  BY Widths DEF Spare
<1>3. ip[1] \in 0..255 /\ ip[2] \in 0..255
  BY DEF V4, Byte
<1> QED BY TwoSegments, <1>1, <1>2, <1>3, Tops DEF Agree

LEMMA V4Third == \A ip \in V4 :
  /\ Within(ip, Prefix(<<192, 0, 0>>, 24)) <=> ip[1] = 192 /\ ip[2] = 0 /\ ip[3] = 0
  /\ Within(ip, Prefix(<<192, 0, 2>>, 24)) <=> ip[1] = 192 /\ ip[2] = 0 /\ ip[3] = 2
  /\ Within(ip, Prefix(<<198, 51, 100>>, 24)) <=> ip[1] = 198 /\ ip[2] = 51 /\ ip[3] = 100
  /\ Within(ip, Prefix(<<203, 0, 113>>, 24)) <=> ip[1] = 203 /\ ip[2] = 0 /\ ip[3] = 113
  /\ Within(ip, Prefix(<<192, 88, 99>>, 24)) <=> ip[1] = 192 /\ ip[2] = 88 /\ ip[3] = 99
<1> TAKE ip \in V4
<1>1. Spare(ip, 1, 24) = 0 /\ Spare(ip, 2, 24) = 0 /\ Spare(ip, 3, 24) = 0
  BY Widths DEF Spare
<1>2. ip[1] \in 0..255 /\ ip[2] \in 0..255 /\ ip[3] \in 0..255
  BY DEF V4, Byte
<1> QED BY ThreeSegments, <1>1, <1>2, Tops DEF Agree

(* is_internal_v4 refuses exactly the documented ranges, whatever the address.  *)
THEOREM V4Refused == \A ip \in V4 : IsInternalV4(ip) <=> BarredV4(ip)
<1> TAKE ip \in V4
<1>1. BarredV4(ip) <=>
        \/ Within(ip, Prefix(<<0>>, 8)) \/ Within(ip, Prefix(<<10>>, 8))
        \/ Within(ip, Prefix(<<127>>, 8)) \/ Within(ip, Prefix(<<100, 64>>, 10))
        \/ Within(ip, Prefix(<<169, 254>>, 16)) \/ Within(ip, Prefix(<<172, 16>>, 12))
        \/ Within(ip, Prefix(<<192, 168>>, 16)) \/ Within(ip, Prefix(<<198, 18>>, 15))
        \/ Within(ip, Prefix(<<192, 0, 0>>, 24)) \/ Within(ip, Prefix(<<192, 0, 2>>, 24))
        \/ Within(ip, Prefix(<<198, 51, 100>>, 24)) \/ Within(ip, Prefix(<<203, 0, 113>>, 24))
        \/ Within(ip, Prefix(<<192, 88, 99>>, 24))
        \/ Within(ip, Prefix(<<224>>, 4)) \/ Within(ip, Prefix(<<240>>, 4))
  BY DEF BarredV4, RangesV4
<1>2. BroadcastV4(ip) => ip[1] >= 240
  BY DEF BroadcastV4
<1>3. IsInternalV4(ip) <=>
        \/ ip[1] = 0 \/ ip[1] = 10 \/ ip[1] = 127 \/ ip[1] \in 224..239 \/ ip[1] >= 240
        \/ ip[1] = 100 /\ ip[2] \in 64..127
        \/ ip[1] = 169 /\ ip[2] = 254
        \/ ip[1] = 172 /\ ip[2] \in 16..31
        \/ ip[1] = 192 /\ ip[2] = 168
        \/ ip[1] = 198 /\ ip[2] \in {18, 19}
        \/ ip[1] = 192 /\ ip[2] = 0 /\ ip[3] = 0
        \/ ip[1] = 192 /\ ip[2] = 0 /\ ip[3] = 2
        \/ ip[1] = 192 /\ ip[2] = 88 /\ ip[3] = 99
        \/ ip[1] = 198 /\ ip[2] = 51 /\ ip[3] = 100
        \/ ip[1] = 203 /\ ip[2] = 0 /\ ip[3] = 113
  BY <1>2 DEF IsInternalV4, LoopbackV4, PrivateV4, LinkLocalV4, MulticastV4, Cgnat
<1> QED BY V4First, V4Second, V4Third, <1>1, <1>3

-----------------------------------------------------------------------------
(* The segments of a sequence of k of them that a prefix of 16 * k bits compares, *)
(* and that the code compares as a slice.                                       *)
LEMMA WholePrefix ==
  ASSUME NEW k \in 1..8, NEW ip \in V6, NEW s \in [1..k -> Segment]
  PROVE  Within(ip, Prefix(s, 16 * k)) <=> \A i \in 1..k : ip[i] = s[i]
<1>1. DOMAIN s = 1..k /\ DOMAIN s \subseteq Nat
  OBVIOUS
<1>2. \A i \in DOMAIN s : ip[i] \in Segment /\ s[i] \in Segment
  BY <1>1 DEF V6
<1>3. \A i \in DOMAIN s : ip[i] \in Nat /\ s[i] \in Nat
  BY <1>2 DEF Segment
<1>4. Width(ip) = 16 /\ 16 * k \in Nat /\ \A i \in DOMAIN s : 16 * k >= 16 * i
  BY <1>1, Widths
<1>5. Within(ip, Prefix(s, 16 * k)) <=> \A i \in DOMAIN s : ip[i] = s[i]
  BY WholeSegments, <1>1, <1>3, <1>4
<1> QED BY <1>1, <1>5

LEMMA SubSegments ==
  ASSUME NEW k \in 1..8, NEW ip \in V6, NEW s \in [1..k -> Segment]
  PROVE  SubSeq(ip, 1, k) = s <=> \A i \in 1..k : ip[i] = s[i]
<1>1. ip \in Seq(Segment) /\ Len(ip) = 8
  BY IsSequence, Widths DEF V6
<1>2. /\ SubSeq(ip, 1, k) \in Seq(Segment)
      /\ Len(SubSeq(ip, 1, k)) = k /\ \A i \in 1..k : SubSeq(ip, 1, k)[i] = ip[i]
  BY <1>1
<1>3. SubSeq(ip, 1, k) = [i \in 1..k |-> SubSeq(ip, 1, k)[i]]
  BY <1>2
<1> QED BY <1>2, <1>3

(* The halves of a segment are octets, and complement with it. *)
LEMMA Halves == \A x \in Segment : x \div 256 \in Byte /\ x % 256 \in Byte
BY DEF Segment, Byte

LEMMA Complemented == \A x \in Segment :
  /\ 65535 - x \in Segment
  /\ 255 - (x \div 256) = (65535 - x) \div 256
  /\ 255 - (x % 256) = (65535 - x) % 256
BY DEF Segment

(* The IPv4 address two segments hold is one, and the client's in a Teredo      *)
(* address is the complement of the one its segments hold.                      *)
LEMMA OctetsV4 == \A h, l \in Segment : Octets(h, l) \in V4
<1> TAKE h, l \in Segment
<1>1. <<h \div 256, h % 256, l \div 256, l % 256>> \in [1..4 -> Byte]
  BY Halves
<1> QED BY <1>1 DEF Octets, V4

LEMMA Complements ==
  \A h, l \in Segment : Complement(Octets(h, l)) = Octets(65535 - h, 65535 - l)
<1> TAKE h, l \in Segment
<1>1. Complement(Octets(h, l)) =
        <<255 - (h \div 256), 255 - (h % 256), 255 - (l \div 256), 255 - (l % 256)>>
  BY DEF Octets, Complement
<1> QED BY <1>1, Complemented DEF Octets

(* The slices the code compares are whole prefixes of an address. *)
LEMMA Leading ==
  ASSUME NEW k \in 1..8, NEW ip \in V6, NEW s \in [1..k -> Segment]
  PROVE  Within(ip, Prefix(s, 16 * k)) <=> SubSeq(ip, 1, k) = s
BY WholePrefix, SubSegments, Zenon

(* An address of 128 bits is compared whole. *)
LEMMA WholeAddress ==
  ASSUME NEW ip \in V6, NEW s \in [1..8 -> Segment]
  PROVE  Within(ip, Prefix(s, 128)) <=> ip = s
<1>1. Within(ip, Prefix(s, 16 * 8)) <=> \A i \in 1..8 : ip[i] = s[i]
  BY WholePrefix
<1>2. ip = s <=> \A i \in 1..8 : ip[i] = s[i]
  BY DEF V6
<1> QED BY <1>1, <1>2

(* The segments that occur. *)
LEMMA SegmentLiterals ==
  {0, 1, 2, \h64, \h100, \hdb8, \h2001, \hff9b, \hffff} \subseteq Segment
BY DEF Segment

(* A sequence of segments with one more. *)
LEMMA Extended ==
  ASSUME NEW n \in Nat, NEW m \in Nat, m = n + 1, NEW s \in [1..n -> Segment], NEW x \in Segment
  PROVE  /\ s \o <<x>> \in [1..m -> Segment]
         /\ \A i \in 1..m : (s \o <<x>>)[i] = IF i = m THEN x ELSE s[i]
<1>1. s \in Seq(Segment) /\ Len(s) = n
  BY IsSequence
<1>2. <<x>> \in Seq(Segment) /\ Len(<<x>>) = 1 /\ <<x>>[1] = x
  OBVIOUS
<1>3. /\ s \o <<x>> \in Seq(Segment)
      /\ Len(s \o <<x>>) = m
      /\ \A i \in 1..m : (s \o <<x>>)[i] = IF i <= n THEN s[i] ELSE <<x>>[i - n]
  BY <1>1, <1>2
<1>4. s \o <<x>> \in [1..m -> Segment]
  BY <1>3, LenProperties
<1>5. ASSUME NEW i \in 1..m PROVE (s \o <<x>>)[i] = IF i = m THEN x ELSE s[i]
  BY <1>2, <1>3
<1> QED BY <1>4, <1>5

(* The unspecified address and loopback. *)
LEMMA V6Loopback == \A ip \in V6 :
  /\ Within(ip, Prefix(Zeros(8), 128)) <=> UnspecifiedV6(ip)
  /\ Within(ip, Prefix(Zeros(7) \o <<1>>, 128)) <=> LoopbackV6(ip)
<1> TAKE ip \in V6
<1>1. Zeros(8) \in [1..8 -> Segment] /\ Zeros(7) \in [1..7 -> Segment]
  BY SegmentLiterals DEF Zeros
<1>2. Zeros(7) \o <<1>> \in [1..8 -> Segment]
  <2> DEFINE n == 7
             m == 8
             z == Zeros(n)
  <2>1. n \in Nat /\ m \in Nat /\ m = n + 1 /\ z \in [1..n -> Segment] /\ 1 \in Segment
    BY <1>1, SegmentLiterals
  <2> HIDE DEF n, m, z
  <2>2. z \o <<1>> \in [1..m -> Segment]
    BY <2>1, Extended
  <2> QED BY <2>2 DEF n, m, z
<1>3. \A t \in [1..8 -> Segment] : Within(ip, Prefix(t, 128)) <=> ip = t
  BY WholeAddress
<1>4. Within(ip, Prefix(Zeros(8), 128)) <=> ip = Zeros(8)
  BY <1>1, <1>3, Zenon
<1>5. Within(ip, Prefix(Zeros(7) \o <<1>>, 128)) <=> ip = Zeros(7) \o <<1>>
  BY <1>2, <1>3, Zenon
<1> QED BY <1>4, <1>5, Zenon DEF UnspecifiedV6, LoopbackV6

(* The IPv6 ranges that end at a segment's end. *)
LEMMA V6Prefixes == \A ip \in V6 :
  /\ Within(ip, Prefix(<<0, 0, 0, 0, \hffff, 0>>, 96)) <=>
       SubSeq(ip, 1, 6) = <<0, 0, 0, 0, \hffff, 0>>
  /\ Within(ip, Prefix(<<\h64, \hff9b, 0, 0, 0, 0>>, 96)) <=>
       SubSeq(ip, 1, 6) = <<\h64, \hff9b, 0, 0, 0, 0>>
  /\ Within(ip, Prefix(<<\h64, \hff9b, 1>>, 48)) <=> SubSeq(ip, 1, 3) = <<\h64, \hff9b, 1>>
  /\ Within(ip, Prefix(<<\h2001, 0>>, 32)) <=> SubSeq(ip, 1, 2) = <<\h2001, 0>>
  /\ Within(ip, Prefix(<<\h100, 0, 0, 0>>, 64)) <=> SubSeq(ip, 1, 4) = <<\h100, 0, 0, 0>>
  /\ Within(ip, Prefix(<<\h2001, 2, 0>>, 48)) <=> SubSeq(ip, 1, 3) = <<\h2001, 2, 0>>
  /\ Within(ip, Prefix(<<\h2001, \hdb8>>, 32)) <=> SubSeq(ip, 1, 2) = <<\h2001, \hdb8>>
<1> TAKE ip \in V6
<1>1. /\ <<0, 0, 0, 0, \hffff, 0>> \in [1..6 -> Segment]
      /\ <<\h64, \hff9b, 0, 0, 0, 0>> \in [1..6 -> Segment]
      /\ <<\h100, 0, 0, 0>> \in [1..4 -> Segment]
      /\ <<\h64, \hff9b, 1>> \in [1..3 -> Segment]
      /\ <<\h2001, 2, 0>> \in [1..3 -> Segment]
      /\ <<\h2001, 0>> \in [1..2 -> Segment]
      /\ <<\h2001, \hdb8>> \in [1..2 -> Segment]
  BY SegmentLiterals
<1> DEFINE Same(k, t) == Within(ip, Prefix(t, 16 * k)) <=> SubSeq(ip, 1, k) = t
<1>2. \A k \in 1..8 : \A t \in [1..k -> Segment] : Same(k, t)
  BY Leading
<1> HIDE DEF Same
<1>3. /\ Same(6, <<0, 0, 0, 0, \hffff, 0>>)
      /\ Same(6, <<\h64, \hff9b, 0, 0, 0, 0>>)
      /\ Same(4, <<\h100, 0, 0, 0>>)
      /\ Same(3, <<\h64, \hff9b, 1>>)
      /\ Same(3, <<\h2001, 2, 0>>)
      /\ Same(2, <<\h2001, 0>>)
      /\ Same(2, <<\h2001, \hdb8>>)
  BY <1>1, <1>2
<1>4. 16 * 6 = 96 /\ 16 * 4 = 64 /\ 16 * 3 = 48 /\ 16 * 2 = 32
  OBVIOUS
<1> QED BY <1>3, <1>4 DEF Same

(* Clearing the low bits of a segment, and comparing the high ones. *)
LEMMA Masks ==
  ASSUME NEW x \in Segment
  PROVE  /\ x \div 16 = \h3ff0 \div 16 <=> Masked(x, 16) = \h3ff0
         /\ x \div 512 = \hfc00 \div 512 <=> Masked(x, 512) = \hfc00
         /\ x \div 64 = \hfe80 \div 64 <=> Masked(x, 64) = \hfe80
         /\ x \div 64 = \hfec0 \div 64 <=> Masked(x, 64) = \hfec0
         /\ x \div 256 = \hff00 \div 256 <=> Masked(x, 256) = \hff00
<1>1. x \div 16 = \h3ff0 \div 16 <=> Masked(x, 16) = \h3ff0
  BY DEF Segment, Masked
<1>2. x \div 512 = \hfc00 \div 512 <=> Masked(x, 512) = \hfc00
  BY DEF Segment, Masked
<1>3. x \div 64 = \hfe80 \div 64 <=> Masked(x, 64) = \hfe80
  BY DEF Segment, Masked
<1>4. x \div 64 = \hfec0 \div 64 <=> Masked(x, 64) = \hfec0
  BY DEF Segment, Masked
<1>5. x \div 256 = \hff00 \div 256 <=> Masked(x, 256) = \hff00
  BY DEF Segment, Masked
<1> QED BY <1>1, <1>2, <1>3, <1>4, <1>5

(* The IPv6 ranges of a single segment. *)
LEMMA V6First == \A ip \in V6 :
  /\ Within(ip, Prefix(<<\h2002>>, 16)) <=> ip[1] = \h2002
  /\ Within(ip, Prefix(<<\h3ff0>>, 12)) <=> Masked(ip[1], 16) = \h3ff0
  /\ Within(ip, Prefix(<<\h5f00>>, 16)) <=> ip[1] = \h5f00
  /\ Within(ip, Prefix(<<\hfc00>>, 7)) <=> Masked(ip[1], 512) = \hfc00
  /\ Within(ip, Prefix(<<\hfe80>>, 10)) <=> Masked(ip[1], 64) = \hfe80
  /\ Within(ip, Prefix(<<\hfec0>>, 10)) <=> Masked(ip[1], 64) = \hfec0
  /\ Within(ip, Prefix(<<\hff00>>, 8)) <=> Masked(ip[1], 256) = \hff00
<1> TAKE ip \in V6
<1>1. /\ Spare(ip, 1, 16) = 0 /\ Spare(ip, 1, 12) = 4 /\ Spare(ip, 1, 10) = 6
      /\ Spare(ip, 1, 8) = 8 /\ Spare(ip, 1, 7) = 9
  BY Widths DEF Spare
<1>2. ip[1] \in Segment /\ ip[1] \in Nat
  BY DEF V6, Segment
<1>3. \A a \in Nat : /\ Agree(ip, 1, a, 16) <=> ip[1] = a
                     /\ Agree(ip, 1, a, 12) <=> ip[1] \div 16 = a \div 16
                     /\ Agree(ip, 1, a, 7) <=> ip[1] \div 512 = a \div 512
                     /\ Agree(ip, 1, a, 10) <=> ip[1] \div 64 = a \div 64
                     /\ Agree(ip, 1, a, 8) <=> ip[1] \div 256 = a \div 256
  BY <1>1, <1>2, Tops DEF Agree
<1>4. /\ Within(ip, Prefix(<<\h2002>>, 16)) <=> ip[1] = \h2002
      /\ Within(ip, Prefix(<<\h5f00>>, 16)) <=> ip[1] = \h5f00
  BY OneSegment, <1>3
<1>5. Within(ip, Prefix(<<\h3ff0>>, 12)) <=> ip[1] \div 16 = \h3ff0 \div 16
  BY OneSegment, <1>3
<1>6. Within(ip, Prefix(<<\hfc00>>, 7)) <=> ip[1] \div 512 = \hfc00 \div 512
  BY OneSegment, <1>3
<1>7. Within(ip, Prefix(<<\hfe80>>, 10)) <=> ip[1] \div 64 = \hfe80 \div 64
  BY OneSegment, <1>3
<1>8. Within(ip, Prefix(<<\hfec0>>, 10)) <=> ip[1] \div 64 = \hfec0 \div 64
  BY OneSegment, <1>3
<1>9. Within(ip, Prefix(<<\hff00>>, 8)) <=> ip[1] \div 256 = \hff00 \div 256
  BY OneSegment, <1>3
<1> QED BY <1>2, <1>4, <1>5, <1>6, <1>7, <1>8, <1>9, Masks

(* The documentation range is a part of what the code's mask refuses. *)
LEMMA WiderCovers == \A ip \in V6 :
  Within(ip, Prefix(<<\h3fff, 0>>, 20)) => Within(ip, Prefix(<<\h3ff0>>, 12))
<1> TAKE ip \in V6
<1>1. Spare(ip, 1, 20) = 0 /\ Spare(ip, 1, 12) = 4
  BY Widths DEF Spare
<1>2. ip[1] \in Nat
  BY DEF V6, Segment
<1>3. Within(ip, Prefix(<<\h3fff, 0>>, 20)) => ip[1] = \h3fff
  BY TwoSegments, <1>1, <1>2, Tops DEF Agree
<1>4. Within(ip, Prefix(<<\h3ff0>>, 12)) <=> ip[1] \div 16 = \h3ff0 \div 16
  BY OneSegment, <1>1, <1>2, Tops DEF Agree
<1> QED BY <1>3, <1>4

(* IPv4-mapped and IPv4-compatible addresses are those EmbedsV4 unwraps; they   *)
(* begin with a zero segment.                                                   *)
LEMMA MappedSegments == \A ip \in V6 :
  /\ (\E p \in MappedV4 : Within(ip, p)) <=> EmbedsV4(ip)
  /\ EmbedsV4(ip) => ip[1] = 0
<1> TAKE ip \in V6
<1> DEFINE mapped == Zeros(5) \o <<\hffff>>
<1>1. Zeros(5) \in [1..5 -> Segment] /\ Zeros(6) \in [1..6 -> Segment]
  BY SegmentLiterals DEF Zeros
<1>2. /\ mapped \in [1..6 -> Segment]
      /\ \A i \in 1..6 : mapped[i] = IF i = 6 THEN \hffff ELSE 0
  <2> DEFINE n == 5
             m == 6
             z == Zeros(n)
  <2>1. n \in Nat /\ m \in Nat /\ m = n + 1 /\ z \in [1..n -> Segment] /\ \hffff \in Segment
    BY <1>1, SegmentLiterals
  <2>2. \A i \in 1..n : z[i] = 0
    BY DEF Zeros
  <2> HIDE DEF n, m, z
  <2>3. /\ z \o <<\hffff>> \in [1..m -> Segment]
        /\ \A i \in 1..m : (z \o <<\hffff>>)[i] = IF i = m THEN \hffff ELSE 0
    BY <2>1, <2>2, Extended
  <2> QED BY <2>3 DEF n, m, z
<1> HIDE DEF mapped
<1>3. Within(ip, Prefix(Zeros(6), 96)) <=> \A i \in 1..6 : ip[i] = 0
  BY <1>1, WholePrefix DEF Zeros
<1>4. Within(ip, Prefix(mapped, 96)) <=> (\A i \in 1..5 : ip[i] = 0) /\ ip[6] = \hffff
  <2>1. Within(ip, Prefix(mapped, 96)) <=> \A i \in 1..6 : ip[i] = mapped[i]
    BY <1>2, WholePrefix
  <2> QED BY <1>2, <2>1
<1>5. SubSeq(ip, 1, 5) = Zeros(5) <=> \A i \in 1..5 : ip[i] = 0
  BY <1>1, SubSegments DEF Zeros
<1>6. (\E p \in MappedV4 : Within(ip, p)) <=>
        Within(ip, Prefix(mapped, 96)) \/ Within(ip, Prefix(Zeros(6), 96))
  BY DEF MappedV4, mapped
<1> QED BY <1>3, <1>4, <1>5, <1>6 DEF EmbedsV4

(* What each form of an address says of its first segments: no two agree. *)
LEMMA Disjoint == \A ip \in V6 :
  /\ SubSeq(ip, 1, 6) = <<0, 0, 0, 0, \hffff, 0>> => ip[1] = 0
  /\ SubSeq(ip, 1, 6) = <<\h64, \hff9b, 0, 0, 0, 0>> => ip[1] = \h64 /\ ip[3] = 0
  /\ SubSeq(ip, 1, 3) = <<\h64, \hff9b, 1>> => ip[1] = \h64 /\ ip[3] = 1
  /\ SubSeq(ip, 1, 2) = <<\h2001, 0>> => ip[1] = \h2001 /\ ip[2] = 0
  /\ SubSeq(ip, 1, 4) = <<\h100, 0, 0, 0>> => ip[1] = \h100
  /\ SubSeq(ip, 1, 3) = <<\h2001, 2, 0>> => ip[1] = \h2001 /\ ip[2] = 2
  /\ SubSeq(ip, 1, 2) = <<\h2001, \hdb8>> => ip[1] = \h2001 /\ ip[2] = \hdb8
  /\ UnspecifiedV6(ip) => ip[1] = 0
  /\ LoopbackV6(ip) => ip[1] = 0
<1> TAKE ip \in V6
<1> DEFINE first(k) == SubSeq(ip, 1, k)
<1>1. \A k \in 1..8 : \A i \in 1..k : first(k)[i] = ip[i]
  OBVIOUS
<1> HIDE DEF first
<1>2. /\ first(6)[1] = ip[1] /\ first(6)[3] = ip[3] /\ first(4)[1] = ip[1]
      /\ first(3)[1] = ip[1] /\ first(3)[2] = ip[2] /\ first(3)[3] = ip[3]
      /\ first(2)[1] = ip[1] /\ first(2)[2] = ip[2]
  BY <1>1
<1>3. first(6) = <<0, 0, 0, 0, \hffff, 0>> => ip[1] = 0
  BY <1>2
<1>4. first(6) = <<\h64, \hff9b, 0, 0, 0, 0>> => ip[1] = \h64 /\ ip[3] = 0
  BY <1>2
<1>5. first(3) = <<\h64, \hff9b, 1>> => ip[1] = \h64 /\ ip[3] = 1
  BY <1>2
<1>6. first(2) = <<\h2001, 0>> => ip[1] = \h2001 /\ ip[2] = 0
  BY <1>2
<1>7. first(4) = <<\h100, 0, 0, 0>> => ip[1] = \h100
  BY <1>2
<1>8. first(3) = <<\h2001, 2, 0>> => ip[1] = \h2001 /\ ip[2] = 2
  BY <1>2
<1>9. first(2) = <<\h2001, \hdb8>> => ip[1] = \h2001 /\ ip[2] = \hdb8
  BY <1>2
<1>10. UnspecifiedV6(ip) => ip[1] = 0
  BY DEF UnspecifiedV6, Zeros
<1>11. LoopbackV6(ip) => ip[1] = 0
  <2>1. Zeros(7) \in [1..7 -> Segment] /\ Zeros(7)[1] = 0
    BY SegmentLiterals DEF Zeros
  <2>2. (Zeros(7) \o <<1>>)[1] = Zeros(7)[1]
    BY <2>1
  <2> QED BY <2>1, <2>2 DEF LoopbackV6
<1> QED BY <1>3, <1>4, <1>5, <1>6, <1>7, <1>8, <1>9, <1>10, <1>11 DEF first

(* No native range reaches an address of one of the forms that embed IPv4. *)
LEMMA NotNative == \A ip \in V6 :
  NativeInternal(ip) => /\ ip[1] \notin {0, \h64, \h2002}
                        /\ ip[1] = \h2001 => ip[2] \in {2, \hdb8}
<1> TAKE ip \in V6
<1>1. \A x \in {0, \h64, \h2001, \h2002} :
        /\ Masked(x, 16) # \h3ff0 /\ x # \h5f00 /\ Masked(x, 512) # \hfc00
        /\ Masked(x, 64) # \hfe80 /\ Masked(x, 64) # \hfec0 /\ Masked(x, 256) # \hff00
  BY DEF Masked
<1> QED BY <1>1, Disjoint DEF NativeInternal

(* is_internal_v6 refuses exactly its native ranges and the embeddings of       *)
(* refused IPv4 addresses, whatever the address: no early return for one form   *)
(* hides another range.                                                         *)
THEOREM V6Refused == \A ip \in V6 :
  IsInternalV6(ip) <=> BarredV6(ip) \/ Within(ip, WiderV6)
<1> TAKE ip \in V6
<1> DEFINE wide == \/ EmbedsV4(ip)
                   \/ SubSeq(ip, 1, 6) = <<0, 0, 0, 0, \hffff, 0>>
                   \/ SubSeq(ip, 1, 6) = <<\h64, \hff9b, 0, 0, 0, 0>>
           teredo == SubSeq(ip, 1, 2) = <<\h2001, 0>>
           local == SubSeq(ip, 1, 3) = <<\h64, \hff9b, 1>>
<1>1. (\E v4 \in Embedded(ip) : BarredV4(v4)) <=>
        \/ wide /\ BarredV4(Octets(ip[7], ip[8]))
        \/ ip[1] = \h2002 /\ BarredV4(Octets(ip[2], ip[3]))
        \/ teredo /\ BarredV4(Octets(65535 - ip[7], 65535 - ip[8]))
  <2>1. (\E p \in MappedV4 \cup {Prefix(<<0, 0, 0, 0, \hffff, 0>>, 96),
                                 Prefix(<<\h64, \hff9b, 0, 0, 0, 0>>, 96)} : Within(ip, p))
        <=> wide
    BY MappedSegments, V6Prefixes
  <2>2. Within(ip, Prefix(<<\h2002>>, 16)) <=> ip[1] = \h2002
    BY V6First
  <2>3. Within(ip, Prefix(<<\h2001, 0>>, 32)) <=> teredo
    BY V6Prefixes
  <2> HIDE DEF wide, teredo
  <2> QED BY <2>1, <2>2, <2>3 DEF Embedded
<1>2. /\ BarredV4(Octets(ip[7], ip[8])) <=> IsInternalV4(Octets(ip[7], ip[8]))
      /\ BarredV4(Octets(ip[2], ip[3])) <=> IsInternalV4(Octets(ip[2], ip[3]))
      /\ BarredV4(Octets(65535 - ip[7], 65535 - ip[8])) <=> IsInternalV4(TeredoClient(ip))
  <2>1. ip[2] \in Segment /\ ip[3] \in Segment /\ ip[7] \in Segment /\ ip[8] \in Segment
    BY DEF V6
  <2>2. 65535 - ip[7] \in Segment /\ 65535 - ip[8] \in Segment
    BY <2>1, Complemented
  <2>3. Octets(65535 - ip[7], 65535 - ip[8]) = TeredoClient(ip)
    BY <2>1, Complements DEF TeredoClient
  <2> QED BY <2>1, <2>2, <2>3, OctetsV4, V4Refused
<1>3. (\E p \in RangesV6 : Within(ip, p)) \/ Within(ip, WiderV6) <=>
        UnspecifiedV6(ip) \/ LoopbackV6(ip) \/ local \/ NativeInternal(ip)
  <2>1. (\E p \in RangesV6 : Within(ip, p)) <=>
          \/ Within(ip, Prefix(Zeros(8), 128)) \/ Within(ip, Prefix(Zeros(7) \o <<1>>, 128))
          \/ Within(ip, Prefix(<<\h64, \hff9b, 1>>, 48)) \/ Within(ip, Prefix(<<\h100, 0, 0, 0>>, 64))
          \/ Within(ip, Prefix(<<\h2001, 2, 0>>, 48)) \/ Within(ip, Prefix(<<\h2001, \hdb8>>, 32))
          \/ Within(ip, Prefix(<<\h3fff, 0>>, 20)) \/ Within(ip, Prefix(<<\h5f00>>, 16))
          \/ Within(ip, Prefix(<<\hfc00>>, 7)) \/ Within(ip, Prefix(<<\hfe80>>, 10))
          \/ Within(ip, Prefix(<<\hfec0>>, 10)) \/ Within(ip, Prefix(<<\hff00>>, 8))
    BY DEF RangesV6
  <2>2. Within(ip, Prefix(<<\h3fff, 0>>, 20)) => Within(ip, WiderV6)
    BY WiderCovers DEF WiderV6
  <2>3. Within(ip, WiderV6) <=> Masked(ip[1], 16) = \h3ff0
    BY V6First DEF WiderV6
  <2> QED BY <2>1, <2>2, <2>3, V6Loopback, V6Prefixes, V6First DEF NativeInternal
<1>4. /\ wide => ip[1] = 0 \/ (ip[1] = \h64 /\ ip[3] = 0)
      /\ local => ip[1] = \h64 /\ ip[3] = 1
      /\ teredo => ip[1] = \h2001 /\ ip[2] = 0
  BY Disjoint, MappedSegments
<1>5. IsInternalV6(ip) <=>
        \/ LoopbackV6(ip) \/ UnspecifiedV6(ip)
        \/ IF wide THEN IsInternalV4(Octets(ip[7], ip[8]))
           ELSE IF local THEN TRUE
           ELSE IF ip[1] = \h2002 THEN IsInternalV4(Octets(ip[2], ip[3]))
           ELSE IF teredo THEN IsInternalV4(TeredoClient(ip))
           ELSE NativeInternal(ip)
  BY DEF IsInternalV6
<1> HIDE DEF wide, local, teredo
<1> QED BY <1>1, <1>2, <1>3, <1>4, <1>5, NotNative DEF BarredV6

(* is_loopback_ip names nothing but loopback, in its own or a mapped form. *)
LEMMA LoopbackOnly ==
  ASSUME NEW ip \in V4 \cup V6, IsLoopback(ip)
  PROVE  IF Len(ip) = 4
           THEN Within(ip, Prefix(<<127>>, 8))
           ELSE \/ Within(ip, Prefix(Zeros(7) \o <<1>>, 128))
                \/ /\ \E p \in MappedV4 : Within(ip, p)
                   /\ Within(Octets(ip[7], ip[8]), Prefix(<<127>>, 8))
<1>1. CASE ip \in V4
  BY <1>1, Widths, V4First DEF IsLoopback, LoopbackV4
<1>2. CASE ip \in V6
  <2>1. Len(ip) # 4
    BY <1>2, Widths
  <2>2. Octets(ip[7], ip[8]) \in V4
    BY <1>2, OctetsV4 DEF V6
  <2> QED BY <1>2, <2>1, <2>2, V4First, V6Loopback, MappedSegments DEF IsLoopback, LoopbackV4
<1> QED BY <1>1, <1>2

-----------------------------------------------------------------------------
(* The inductive invariant: the input is made of octets or of segments. *)
AddressTyped ==
  /\ of = "is_internal_v4" => input \in Seq(Byte) /\ Len(input) <= 4
  /\ of = "is_internal_v6" => input \in Seq(Segment) /\ Len(input) <= 8

(* The pieces MCFunctions puts an address together from are its segments. *)
LEMMA EndsTyped ==
  /\ \A i \in 1..4 : EndsV4[i] \subseteq Byte
  /\ \A i \in 1..8 : EndsV6[i] \subseteq Segment
<1>1. \A i \in 1..4 : EndsV4[i] \subseteq Byte
  BY DEF EndsV4, Byte
<1>2. \A i \in 1..8 : EndsV6[i] \subseteq Segment
  <2>1. EndsV6[1] \subseteq Segment
    BY DEF EndsV6, Segment
  <2>2. EndsV6[2] \subseteq Segment
    BY DEF EndsV6, Segment
  <2>3. EndsV6[3] \subseteq Segment
    BY DEF EndsV6, Segment
  <2>4. EndsV6[4] \subseteq Segment
    BY DEF EndsV6, Segment
  <2>5. EndsV6[5] \subseteq Segment
    BY DEF EndsV6, Segment
  <2>6. EndsV6[6] \subseteq Segment
    BY DEF EndsV6, Segment
  <2>7. EndsV6[7] \subseteq Segment
    BY DEF EndsV6, Segment
  <2>8. EndsV6[8] \subseteq Segment
    BY DEF EndsV6, Segment
  <2> QED BY <2>1, <2>2, <2>3, <2>4, <2>5, <2>6, <2>7, <2>8
<1> QED BY <1>1, <1>2

(* So what it asks about is an address, or the beginning of one. *)
LEMMA AddressInvariant == Spec => []AddressTyped
<1>1. Init => AddressTyped
  BY DEF Init, AddressTyped
<1>2. AddressTyped /\ [Next]_vars => AddressTyped'
  <2> SUFFICES ASSUME AddressTyped, [Next]_vars PROVE AddressTyped'
    OBVIOUS
  <2>1. CASE UNCHANGED vars
    BY <2>1 DEF vars, AddressTyped
  <2>2. ASSUME NEW piece \in Pieces, input' = Append(input, piece), of' = of
        PROVE  AddressTyped'
    <3>1. CASE of = "is_internal_v4"
      <4>1. Len(input) + 1 \in 1..4 /\ piece \in EndsV4[Len(input) + 1]
        BY <2>2, <3>1 DEF AddressTyped, Pieces
      <4>2. piece \in Byte
        BY <4>1, EndsTyped
      <4> QED BY <2>2, <3>1, <4>1, <4>2 DEF AddressTyped
    <3>2. CASE of = "is_internal_v6"
      <4>1. Len(input) + 1 \in 1..8 /\ piece \in EndsV6[Len(input) + 1]
        BY <2>2, <3>2 DEF AddressTyped, Pieces
      <4>2. piece \in Segment
        BY <4>1, EndsTyped
      <4> QED BY <2>2, <3>2, <4>1, <4>2 DEF AddressTyped
    <3> QED BY <2>2, <3>1, <3>2 DEF AddressTyped
  <2> QED BY <2>1, <2>2 DEF Next
<1> QED BY <1>1, <1>2, PTL DEF Spec

(* Where it asks, it is a whole one. *)
LEMMA AddressIsOne ==
  ASSUME AddressTyped, Address
  PROVE  IF of = "is_internal_v4" THEN input \in V4
         ELSE of = "is_internal_v6" /\ input \in V6
<1>1. CASE of = "is_internal_v4"
  BY <1>1, LenProperties DEF AddressTyped, Address, V4
<1>2. CASE of # "is_internal_v4"
  BY <1>2, LenProperties DEF AddressTyped, Address, V6
<1> QED BY <1>1, <1>2

(* Every address asked of is_internal_v4 is refused if and only if a documented *)
(* range holds it.                                                              *)
THEOREM V4RefusesItsTable == Spec => []V4AsTabled
<1>1. AddressTyped => V4AsTabled
  BY AddressIsOne, V4Refused DEF V4AsTabled
<1> QED BY <1>1, AddressInvariant, PTL

(* Every address asked of is_internal_v6 is refused if and only if a native     *)
(* range holds it, it embeds a refused IPv4 address, or it is one of 3ff0::/12. *)
THEOREM V6RefusesItsTable == Spec => []V6CoversTable
<1>1. AddressTyped => V6CoversTable
  BY AddressIsOne, V6Refused DEF V6CoversTable
<1> QED BY <1>1, AddressInvariant, PTL

(* allow_insecure_loopback lets no address through that is not loopback. *)
THEOREM FlagRelaxesLoopback == Spec => []OnlyLoopbackRelaxed
<1>1. AddressTyped => OnlyLoopbackRelaxed
  <2> SUFFICES ASSUME AddressTyped, Address, IsAllowed(TRUE, input), ~IsAllowed(FALSE, input)
               PROVE  OnlyLoopbackRelaxed
    BY DEF OnlyLoopbackRelaxed
  <2>1. input \in V4 \cup V6
    BY AddressIsOne
  <2>2. IsLoopback(input)
    BY DEF IsAllowed
  <2> QED BY <2>1, <2>2, LoopbackOnly, Zenon DEF OnlyLoopbackRelaxed
<1> QED BY <1>1, AddressInvariant, PTL

-----------------------------------------------------------------------------
(* name is core, or what a separator and core end. *)
AtEnd(core, name, sep) ==
  /\ EndsWith(core, name)
  /\ Len(name) # Len(core) => name[Len(name) - Len(core)] = sep

(* With one token more each, it must be the same. *)
LEMMA AtEndAppend ==
  ASSUME NEW T, NEW core \in Seq(T), NEW name \in Seq(T), NEW x \in T, NEW y \in T, NEW sep
  PROVE  AtEnd(Append(core, x), Append(name, y), sep) <=> x = y /\ AtEnd(core, name, sep)
<1> DEFINE m == Len(core)
           n == Len(name)
           c == Append(core, x)
           d == Append(name, y)
<1>1. /\ m \in Nat /\ n \in Nat /\ Len(c) = m + 1 /\ Len(d) = n + 1
      /\ \A i \in 1..n : d[i] = name[i]
  OBVIOUS
<1>2. EndsWith(c, d) <=> x = y /\ EndsWith(core, name)
  BY EndsAppend
<1> HIDE DEF c, d
<1>3. EndsWith(core, name) => m <= n
  BY DEF EndsWith
<1>4. ASSUME m <= n
      PROVE  (n + 1 # m + 1 => d[n + 1 - (m + 1)] = sep) <=> (n # m => name[n - m] = sep)
  <2>1. n + 1 - (m + 1) = n - m /\ (n + 1 # m + 1 <=> n # m)
    BY <1>1
  <2>2. n # m => d[n - m] = name[n - m]
    BY <1>1, <1>4
  <2> QED BY <2>1, <2>2
<1>5. AtEnd(c, d, sep) <=> EndsWith(c, d) /\ (n + 1 # m + 1 => d[n + 1 - (m + 1)] = sep)
  BY <1>1 DEF AtEnd
<1> QED BY <1>2, <1>3, <1>4, <1>5 DEF AtEnd, c, d

(* What a step of each makes of two splits ends alike as the tokens do. *)
LEMMA StepsEndAlike ==
  ASSUME NEW T, NEW a \in SegLists(T), NEW b \in SegLists(T), NEW x \in T, NEW y \in T, NEW sep
  PROVE  EndsWith(SplitStep(a, x, sep), SplitStep(b, y, sep)) <=> x = y /\ EndsWith(a, b)
<1> DEFINE S == Seq(T)
           fa == Front(a)
           la == Last(a)
           fb == Front(b)
           lb == Last(b)
<1>0. a \in Seq(S) /\ b \in Seq(S)
  BY DEF SegLists
<1>1. /\ fa \in Seq(S) /\ la \in S /\ a = Append(fa, la)
      /\ x # sep => SplitStep(a, x, sep) = Append(fa, Append(la, x))
  BY SplitStepIs
<1>2. /\ fb \in Seq(S) /\ lb \in S /\ b = Append(fb, lb)
      /\ y # sep => SplitStep(b, y, sep) = Append(fb, Append(lb, y))
  BY SplitStepIs
<1>3. /\ x = sep => SplitStep(a, x, sep) = Append(a, <<>>)
      /\ y = sep => SplitStep(b, y, sep) = Append(b, <<>>)
  BY DEF SplitStep
<1> DEFINE lx == Append(la, x)
           ly == Append(lb, y)
<1> HIDE DEF fa, la, fb, lb
<1>4. /\ <<>> \in S /\ lx \in S /\ ly \in S
      /\ lx # <<>> /\ ly # <<>>
      /\ lx = ly <=> (la = lb /\ x = y)
  <2>1. /\ la \in Seq(T) /\ lb \in Seq(T) /\ Len(la) \in Nat /\ Len(lb) \in Nat
        /\ Len(lx) = Len(la) + 1 /\ Len(ly) = Len(lb) + 1
        /\ lx[Len(la) + 1] = x /\ ly[Len(lb) + 1] = y
        /\ \A i \in 1..Len(la) : lx[i] = la[i]
        /\ \A i \in 1..Len(lb) : ly[i] = lb[i]
    BY <1>1, <1>2
  <2>2. lx # <<>> /\ ly # <<>>
    BY <2>1
  <2>3. <<>> \in S /\ lx \in S /\ ly \in S
    BY <2>1
  <2>4. la = lb /\ x = y => lx = ly
    OBVIOUS
  <2> HIDE DEF lx, ly
  <2>5. ASSUME lx = ly PROVE la = lb /\ x = y
    <3>1. Len(la) = Len(lb)
      BY <2>1, <2>5
    <3>2. \A i \in 1..Len(la) : la[i] = lb[i]
      BY <2>1, <2>5, <3>1
    <3>3. la = lb
      BY <2>1, <3>1, <3>2, SameElements
    <3> QED BY <2>1, <2>5, <3>1, <3>3
  <2> QED BY <2>2, <2>3, <2>4, <2>5
<1> HIDE DEF S, lx, ly
<1>5. CASE x = sep /\ y = sep
  <2>1. EndsWith(Append(a, <<>>), Append(b, <<>>)) <=> EndsWith(a, b)
    BY <1>0, <1>4, EndsAppend
  <2> QED BY <1>3, <1>5, <2>1
<1>6. CASE x # sep /\ y # sep
  <2>1. EndsWith(Append(fa, lx), Append(fb, ly)) <=> lx = ly /\ EndsWith(fa, fb)
    BY <1>1, <1>2, <1>4, EndsAppend
  <2>2. EndsWith(Append(fa, la), Append(fb, lb)) <=> la = lb /\ EndsWith(fa, fb)
    BY <1>1, <1>2, EndsAppend
  <2>3. SplitStep(a, x, sep) = Append(fa, lx) /\ SplitStep(b, y, sep) = Append(fb, ly)
    BY <1>1, <1>2, <1>6 DEF lx, ly
  <2>4. a = Append(fa, la) /\ b = Append(fb, lb)
    BY <1>1, <1>2
  <2> QED BY <1>4, <2>1, <2>2, <2>3, <2>4
<1>7. CASE x = sep /\ y # sep
  <2>1. EndsWith(Append(a, <<>>), Append(fb, ly)) => <<>> = ly
    BY <1>0, <1>2, <1>4, EndsAppend
  <2>2. SplitStep(b, y, sep) = Append(fb, ly)
    BY <1>2, <1>7 DEF ly
  <2> QED BY <1>3, <1>4, <1>7, <2>1, <2>2
<1>8. CASE x # sep /\ y = sep
  <2>1. EndsWith(Append(fa, lx), Append(b, <<>>)) => lx = <<>>
    BY <1>0, <1>1, <1>4, EndsAppend
  <2>2. SplitStep(a, x, sep) = Append(fa, lx)
    BY <1>1, <1>8 DEF lx
  <2> QED BY <1>3, <1>4, <1>8, <2>1, <2>2
<1> QED BY <1>5, <1>6, <1>7, <1>8

(* A name splits into segments that end with those of core just if core stands  *)
(* at its end, whole or behind a separator.                                     *)
LEMMA SplitsEndAlike ==
  ASSUME NEW T, NEW sep
  PROVE  \A core \in Seq(T), name \in Seq(T) :
           EndsWith(Split(core, sep), Split(name, sep)) <=> AtEnd(core, name, sep)
<1> DEFINE Alike(core, name) ==
             EndsWith(Split(core, sep), Split(name, sep)) <=> AtEnd(core, name, sep)
           S == {k \in Nat : \A core \in Seq(T), name \in Seq(T) : Len(core) = k => Alike(core, name)}
           L == Seq(T)
           none == << <<>> >>
<1>1. /\ <<>> \in L /\ <<>> \in Seq(L) /\ none = Append(<<>>, <<>>) /\ Len(none) = 1
      /\ Split(<<>>, sep) = none
  BY SplitNothing
<1>2. ASSUME NEW name \in L PROVE Split(name, sep) \in SegLists(T)
  BY SplitTyped
<1>3. ASSUME NEW name \in L, name # <<>>
      PROVE  \E m \in L, y \in T : name = Append(m, y) /\ Len(name) = Len(m) + 1
                                /\ Split(name, sep) = SplitStep(Split(m, sep), y, sep)
  <2> DEFINE m == Front(name)
             y == Last(name)
  <2>1. m \in L /\ y \in T /\ name = Append(m, y)
    BY <1>3, FrontAndLast
  <2> HIDE DEF m, y
  <2>2. Split(Append(m, y), sep) = SplitStep(Split(m, sep), y, sep)
    BY <2>1, SplitAppend
  <2>3. Len(Append(m, y)) = Len(m) + 1
    BY <2>1
  <2> QED BY <2>1, <2>2, <2>3
<1>4. 0 \in S
  <2> SUFFICES ASSUME NEW core \in L, NEW name \in L, Len(core) = 0 PROVE Alike(core, name)
    OBVIOUS
  <2>1. core = <<>>
    OBVIOUS
  <2>2. CASE name = <<>>
    <3>1. EndsWith(none, none) /\ AtEnd(<<>>, <<>>, sep)
      BY DEF EndsWith, AtEnd
    <3> QED BY <1>1, <2>1, <2>2, <3>1
  <2>3. CASE name # <<>>
    <3>1. PICK m \in L, y \in T : name = Append(m, y) /\ Len(name) = Len(m) + 1
                                /\ Split(name, sep) = SplitStep(Split(m, sep), y, sep)
      BY <1>3, <2>3
    <3>2. PICK p \in Seq(L), q \in L :
            /\ SplitStep(Split(m, sep), y, sep) = Append(p, q)
            /\ q = <<>> <=> y = sep
      BY <1>2, StepEnds
    <3> HIDE DEF L
    <3>3. EndsWith(Append(<<>>, <<>>), Append(p, q)) <=> <<>> = q /\ EndsWith(<<>>, p)
      BY <1>1, <3>2, EndsAppend
    <3>4. Len(p) \in Nat /\ Len(m) \in Nat
      BY <3>1, <3>2 DEF L
    <3>5. EndsWith(<<>>, p) /\ EndsWith(<<>>, name)
      BY <3>1, <3>4 DEF EndsWith
    <3>6. AtEnd(<<>>, name, sep) <=> y = sep
      <4>1. name[Len(name) - Len(<<>>)] = y /\ Len(name) # Len(<<>>)
        BY <3>1, <3>4 DEF L
      <4> QED BY <3>5, <4>1 DEF AtEnd
    <3>7. EndsWith(none, Split(name, sep)) <=> y = sep
      BY <1>1, <3>1, <3>2, <3>3, <3>5
    <3> QED BY <1>1, <2>1, <3>6, <3>7
  <2> QED BY <2>2, <2>3
<1>5. ASSUME NEW k \in Nat, k \in S PROVE k + 1 \in S
  <2> SUFFICES ASSUME NEW core \in L, NEW name \in L, Len(core) = k + 1 PROVE Alike(core, name)
    OBVIOUS
  <2>1. PICK c \in L, x \in T : core = Append(c, x) /\ Len(core) = Len(c) + 1
                              /\ Split(core, sep) = SplitStep(Split(c, sep), x, sep)
    <3>1. core # <<>>
      OBVIOUS
    <3> QED BY <1>3, <3>1
  <2>2. Len(c) = k
    <3> DEFINE n == Len(c)
    <3>1. n \in Nat
      OBVIOUS
    <3>2. k + 1 = n + 1
      BY <2>1
    <3> HIDE DEF n
    <3>3. n = k
      BY <3>1, <3>2
    <3> QED BY <3>3 DEF n
  <2>3. CASE name = <<>>
    <3>1. PICK p \in Seq(L), q \in L :
            /\ SplitStep(Split(c, sep), x, sep) = Append(p, q)
            /\ q = <<>> <=> x = sep
            /\ x = sep => p = Split(c, sep)
      BY <1>2, StepEnds
    <3>2. ~AtEnd(core, <<>>, sep)
      <4>1. ~(Len(core) <= Len(<<>>))
        OBVIOUS
      <4> QED BY <4>1 DEF AtEnd, EndsWith
    <3>3. Split(c, sep) \in Seq(L) /\ Split(c, sep) # <<>>
      BY <1>2 DEF SegLists
    <3> HIDE DEF L
    <3>4. EndsWith(Append(p, q), Append(<<>>, <<>>)) <=> q = <<>> /\ EndsWith(p, <<>>)
      BY <1>1, <3>1, EndsAppend
    <3>5. q = <<>> => ~EndsWith(p, <<>>)
      <4>1. Split(c, sep) \in Seq(L) => ~(Len(Split(c, sep)) <= Len(<<>>))
        BY <3>3
      <4> QED BY <3>1, <3>3, <4>1 DEF EndsWith
    <3> QED BY <1>1, <2>1, <2>3, <3>1, <3>2, <3>4, <3>5
  <2>4. CASE name # <<>>
    <3>1. PICK m \in L, y \in T : name = Append(m, y) /\ Len(name) = Len(m) + 1
                                /\ Split(name, sep) = SplitStep(Split(m, sep), y, sep)
      BY <1>3, <2>4
    <3>2. Alike(c, m)
      BY <1>5, <2>2
    <3>3. AtEnd(core, name, sep) <=> x = y /\ AtEnd(c, m, sep)
      BY <2>1, <3>1, AtEndAppend
    <3>4. EndsWith(Split(core, sep), Split(name, sep)) <=>
            x = y /\ EndsWith(Split(c, sep), Split(m, sep))
      <4>1. Split(c, sep) \in SegLists(T) /\ Split(m, sep) \in SegLists(T)
        BY <1>2
      <4> QED BY <2>1, <3>1, <4>1, StepsEndAlike
    <3> QED BY <3>2, <3>3, <3>4
  <2> QED BY <2>3, <2>4
<1> HIDE DEF S
<1>6. Nat \subseteq S
  BY <1>4, <1>5, Induction
<1>7. \A core \in L : Len(core) \in S
  BY <1>6
<1> QED BY <1>7 DEF S

(* The labels of a name below the root are the segments of its normal form.     *)
LEMMA NameLabelsAre ==
  ASSUME NEW T, NEW name \in Seq(T), name # <<>>
  PROVE  Normalized(name) \in Seq(T) /\ NameLabels(name) = Split(Normalized(name), ".")
<1> DEFINE m == Front(name)
           y == Last(name)
           labels == Split(name, ".")
<1>1. m \in Seq(T) /\ y \in T /\ name = Append(m, y)
  BY FrontAndLast
<1>2. Normalized(name) = IF y = "." THEN m ELSE name
  BY DEF Normalized
<1>3. NameLabels(name) = IF Last(labels) = <<>> THEN Front(labels) ELSE labels
  BY DEF NameLabels
<1> HIDE DEF m, y
<1>4. labels = SplitStep(Split(m, "."), y, ".") /\ Split(m, ".") \in SegLists(T)
  BY <1>1, SplitAppend, SplitTyped
<1> HIDE DEF labels
<1>a. \E p \in Seq(Seq(T)), q \in Seq(T) :
        /\ SplitStep(Split(m, "."), y, ".") = Append(p, q)
        /\ q = <<>> <=> y = "."
        /\ y = "." => p = Split(m, ".")
  <2> DEFINE s == Split(m, ".")
  <2>1. s \in SegLists(T)
    BY <1>4
  <2> HIDE DEF s
  <2>2. \E p \in Seq(Seq(T)), q \in Seq(T) :
           /\ SplitStep(s, y, ".") = Append(p, q)
           /\ q = <<>> <=> y = "."
           /\ y = "." => p = s
    BY <1>1, <2>1, StepEnds
  <2> QED BY <2>2 DEF s
<1>5. PICK p \in Seq(Seq(T)), q \in Seq(T) :
        /\ labels = Append(p, q)
        /\ q = <<>> <=> y = "."
        /\ y = "." => p = Split(m, ".")
  BY <1>4, <1>a
<1> DEFINE L == Seq(T)
<1> HIDE DEF L
<1>6. Last(labels) = q /\ Front(labels) = p
  <2>1. labels \in Seq(L) /\ labels # <<>> /\ Len(labels) = Len(p) + 1
    BY <1>5 DEF L
  <2>2. Last(labels) = q
    BY <1>5, <2>1 DEF Last, L
  <2>3. Front(labels) \in Seq(L) /\ Len(Front(labels)) = Len(labels) - 1
        /\ labels = Append(Front(labels), Last(labels))
    BY <2>1, FrontAndLast
  <2> DEFINE f == Front(labels)
  <2> HIDE DEF f
  <2>4. f \in Seq(L) /\ p \in Seq(L) /\ Len(f) = Len(p)
    BY <1>5, <2>1, <2>3 DEF L, f
  <2>5. Append(p, q) = Append(f, q)
    BY <1>5, <2>2, <2>3 DEF f
  <2>6. \A i \in 1..Len(p) : p[i] = f[i]
    <3>1. /\ \A i \in 1..Len(p) : Append(p, q)[i] = p[i]
          /\ \A i \in 1..Len(f) : Append(f, q)[i] = f[i]
      BY <2>4
    <3> QED BY <2>4, <2>5, <3>1
  <2>7. p = f
    BY <2>4, <2>6, SameElements
  <2> QED BY <2>2, <2>7 DEF f
<1>7. name \in Seq(T)
  OBVIOUS
<1>8. CASE y = "."
  BY <1>1, <1>2, <1>3, <1>5, <1>6, <1>8
<1>9. CASE y # "."
  BY <1>2, <1>3, <1>5, <1>6, <1>7, <1>9 DEF labels
<1> QED BY <1>8, <1>9

(* So are the labels of a domain, of what deny_host_suffix keeps behind its dot. *)
LEMMA DomainLabelsAre ==
  ASSUME NEW T, "." \in T, NEW domain \in Seq(T), domain # <<>>
  PROVE  \E core \in Seq(T) :
           /\ DeniedSuffix(domain) = <<".">> \o core /\ Tail(DeniedSuffix(domain)) = core
           /\ DomainLabels(domain) = Split(core, ".")
<1>1. ASSUME NEW c \in Seq(T) PROVE Tail(<<".">> \o c) = c
  BY <1>1
<1>2. CASE Head(domain) = "."
  <2> DEFINE c == Tail(domain)
  <2>1. c \in Seq(T)
    OBVIOUS
  <2>2. domain = <<".">> \o c
    <3>1. Len(domain) \in Nat /\ Len(domain) # 0 /\ domain[1] = "."
      BY <1>2
    <3>2. Len(c) = Len(domain) - 1 /\ \A i \in 1..Len(c) : c[i] = domain[i + 1]
      BY <3>1
    <3> HIDE DEF c
    <3> DEFINE d == <<".">> \o c
               e == <<".">>
    <3>3. e \in Seq(T) /\ Len(e) = 1 /\ e[1] = "."
      OBVIOUS
    <3> HIDE DEF e
    <3>4. e \o c \in Seq(T) /\ Len(e \o c) = Len(e) + Len(c)
      BY <2>1, <3>3, ConcatIs
    <3>5. \A i \in 1..(Len(e) + Len(c)) : (e \o c)[i] = IF i <= Len(e) THEN e[i] ELSE c[i - Len(e)]
      BY <2>1, <3>3, ConcatIs
    <3>6. ASSUME NEW i \in 1..Len(domain) PROVE domain[i] = (e \o c)[i]
      <4>1. i \in 1..(Len(e) + Len(c))
        BY <3>1, <3>2, <3>3
      <4>2. CASE i = 1
        <5>1. 1 \in 1..(Len(e) + Len(c)) /\ 1 <= Len(e)
          BY <3>3, <4>1, <4>2
        <5>2. (e \o c)[1] = e[1]
          BY <3>5, <5>1
        <5> QED BY <3>1, <3>3, <4>2, <5>2
      <4>3. CASE i # 1
        <5>1. ~(i <= 1) /\ i - 1 \in 1..Len(c) /\ (i - 1) + 1 = i
          BY <3>1, <3>2, <4>3
        <5> QED BY <3>2, <3>3, <3>5, <4>1, <5>1
      <4> QED BY <4>2, <4>3
    <3>7. Len(domain) = Len(e \o c)
      BY <3>1, <3>2, <3>3, <3>4
    <3>8. domain = e \o c
      BY <3>4, <3>6, <3>7, SameElements
    <3> QED BY <3>8 DEF e
  <2>3. DeniedSuffix(domain) = domain
    BY <1>2 DEF DeniedSuffix
  <2>4. DomainLabels(domain) = Tail(Split(domain, "."))
    BY <1>2 DEF DomainLabels
  <2> HIDE DEF c
  <2>5. Tail(Split(<<".">> \o c, ".")) = Split(c, ".")
    BY <2>1, SplitBehind
  <2> QED BY <1>1, <2>1, <2>2, <2>3, <2>4, <2>5
<1>3. CASE Head(domain) # "."
  <2>1. DeniedSuffix(domain) = <<".">> \o domain
    BY <1>3 DEF DeniedSuffix
  <2>2. DomainLabels(domain) = Split(domain, ".")
    BY <1>3 DEF DomainLabels
  <2> QED BY <1>1, <2>1, <2>2
<1> QED BY <1>2, <1>3

(* What is_denied_name and is_localhost_name compare: the same or below.        *)
LEMMA SameOrBelow ==
  ASSUME NEW T, NEW sep \in T, NEW core \in Seq(T), NEW name \in Seq(T)
  PROVE  (name = core \/ IsSuffix(<<sep>> \o core, name)) <=> AtEnd(core, name, sep)
<1> DEFINE e == <<sep>>
           s == e \o core
           m == Len(core)
           n == Len(name)
<1>1. e \in Seq(T) /\ Len(e) = 1 /\ e[1] = sep /\ m \in Nat /\ n \in Nat
  OBVIOUS
<1> HIDE DEF e
<1>2. s \in Seq(T) /\ Len(s) = 1 + m
  <2>1. s \in Seq(T) /\ Len(s) = Len(e) + m
    BY <1>1, ConcatIs
  <2> QED BY <1>1, <2>1
<1>3. \A i \in 1..(1 + m) : s[i] = IF i = 1 THEN sep ELSE core[i - 1]
  <2>1. \A i \in 1..(Len(e) + m) : s[i] = IF i <= Len(e) THEN e[i] ELSE core[i - Len(e)]
    BY <1>1, ConcatIs
  <2>2. \A i \in 1..(1 + m) : i <= 1 <=> i = 1
    BY <1>1
  <2> QED BY <1>1, <2>1, <2>2
<1> HIDE DEF s
<1>4. IsSuffix(s, name) <=> EndsWith(s, name)
  BY <1>2, SuffixIs
<1>5. EndsWith(s, name) <=> 1 + m <= n /\ \A i \in 0..m : s[1 + m - i] = name[n - i]
  BY <1>1, <1>2 DEF EndsWith
<1>6. EndsWith(core, name) <=> m <= n /\ \A i \in 0..(m - 1) : core[m - i] = name[n - i]
  BY DEF EndsWith
<1>7. \A i \in 0..(m - 1) : /\ i \in 0..m /\ 1 + m - i \in 1..(1 + m) /\ 1 + m - i # 1
                            /\ (1 + m - i) - 1 = m - i
  BY <1>1
<1>8. m \in 0..m /\ 1 + m - m = 1 /\ 1 \in 1..(1 + m)
  BY <1>1
<1>9. ASSUME name = core PROVE AtEnd(core, name, sep)
  BY <1>1, <1>9 DEF AtEnd, EndsWith
<1>10. ASSUME EndsWith(s, name) PROVE AtEnd(core, name, sep)
  <2>1. \A i \in 0..(m - 1) : core[m - i] = name[n - i]
    BY <1>3, <1>5, <1>7, <1>10
  <2>2. name[n - m] = sep
    BY <1>3, <1>5, <1>8, <1>10
  <2>3. m <= n
    BY <1>1, <1>5, <1>10
  <2> QED BY <1>6, <2>1, <2>2, <2>3 DEF AtEnd
<1>11. ASSUME AtEnd(core, name, sep), n = m PROVE name = core
  <2>1. \A i \in 0..(m - 1) : core[m - i] = name[m - i]
    BY <1>6, <1>11 DEF AtEnd
  <2>2. ASSUME NEW i \in 1..m PROVE name[i] = core[i]
    <3>1. m - i \in 0..(m - 1) /\ m - (m - i) = i
      BY <1>1
    <3> QED BY <2>1, <3>1
  <2> QED BY <1>11, <2>2, SameElements
<1>12. ASSUME AtEnd(core, name, sep), n # m PROVE EndsWith(s, name)
  <2>1. m <= n /\ name[n - m] = sep /\ \A i \in 0..(m - 1) : core[m - i] = name[n - i]
    BY <1>6, <1>12 DEF AtEnd
  <2>2. 1 + m <= n
    BY <1>1, <1>12, <2>1
  <2>3. ASSUME NEW i \in 0..m PROVE s[1 + m - i] = name[n - i]
    <3>1. CASE i = m
      BY <1>3, <1>8, <2>1, <3>1
    <3>2. CASE i # m
      <4>1. i \in 0..(m - 1)
        BY <1>1, <3>2
      <4> QED BY <1>3, <1>7, <2>1, <4>1
    <3> QED BY <3>1, <3>2
  <2> QED BY <1>5, <2>2, <2>3
<1> QED BY <1>4, <1>9, <1>10, <1>11, <1>12 DEF s, e

(* deny_host_suffix, for every domain and every name of letters and dots in any *)
(* pieces: the domain itself and what is below it, label by label, are not      *)
(* looked up, and nothing else is refused; the loopback flag alone decides of   *)
(* localhost.                                                                   *)
THEOREM LabelsDecide ==
  ASSUME NEW T, "." \in T, "localhost" \in T, NEW domain \in Seq(T), domain # <<>>,
         NEW name \in Seq(T), name # <<>>, NEW allow_loopback \in BOOLEAN
  PROVE  LooksUp(allow_loopback, {DeniedSuffix(domain)}, name) <=>
           IF IsSuffix(<< <<"localhost">> >>, NameLabels(name))
             THEN allow_loopback
             ELSE ~IsSuffix(DomainLabels(domain), NameLabels(name))
<1> DEFINE n == Normalized(name)
           suffix == DeniedSuffix(domain)
           localhost == <<"localhost">>
<1>1. n \in Seq(T) /\ NameLabels(name) = Split(n, ".")
  BY NameLabelsAre
<1>2. PICK core \in Seq(T) : /\ suffix = <<".">> \o core /\ Tail(suffix) = core
                             /\ DomainLabels(domain) = Split(core, ".")
  BY DomainLabelsAre
<1>3. localhost \in Seq(T) /\ Split(localhost, ".") = << localhost >>
      /\ <<".">> \o localhost = <<".", "localhost">>
  <2>1. localhost = Append(<<>>, "localhost") /\ <<>> \in Seq(T)
    OBVIOUS
  <2>2. Split(Append(<<>>, "localhost"), ".") = SplitStep(Split(<<>>, "."), "localhost", ".")
    BY <2>1, SplitAppend
  <2>3. SplitStep(<< <<>> >>, "localhost", ".") = [<< <<>> >> EXCEPT ![1] = localhost]
    BY DEF SplitStep
  <2>4. ASSUME NEW a, NEW b PROVE [<<a>> EXCEPT ![1] = b] = <<b>>
    <3> DEFINE x == [<<a>> EXCEPT ![1] = b]
               y == <<b>>
    <3>1. x \in Seq({a, b}) /\ y \in Seq({a, b}) /\ Len(x) = 1 /\ Len(y) = 1
      OBVIOUS
    <3>2. x[1] = b /\ y[1] = b
      OBVIOUS
    <3> HIDE DEF x, y
    <3>3. \A i \in 1..Len(x) : x[i] = y[i]
      BY <3>1, <3>2
    <3>4. x = y
      BY <3>1, <3>3, SameElements
    <3> QED BY <3>4 DEF x, y
  <2>5. [<< <<>> >> EXCEPT ![1] = localhost] = <<localhost>>
    BY <2>4, Zenon
  <2>6. Split(<<>>, ".") = << <<>> >>
    BY SplitNothing
  <2>7. localhost \in Seq(T)
    OBVIOUS
  <2>8. <<".">> \o localhost = <<".", "localhost">>
    <3> DEFINE a == "."
               b == "localhost"
               x == <<a>> \o <<b>>
               y == <<a, b>>
    <3> HIDE DEF a, b
    <3>1. x \in Seq({a, b}) /\ y \in Seq({a, b}) /\ Len(x) = 2 /\ Len(y) = 2
      OBVIOUS
    <3>2. x[1] = a /\ x[2] = b /\ y[1] = a /\ y[2] = b
      OBVIOUS
    <3> HIDE DEF x, y
    <3>3. \A i \in 1..Len(x) : x[i] = y[i]
      <4>1. \A i \in 1..2 : i = 1 \/ i = 2
        OBVIOUS
      <4> QED BY <3>1, <3>2, <4>1
    <3>4. x = y
      BY <3>1, <3>3, SameElements
    <3> QED BY <3>4 DEF x, y, a, b, localhost
  <2> QED BY <2>1, <2>2, <2>3, <2>5, <2>6, <2>7, <2>8
<1> HIDE DEF n, suffix, localhost
<1>4. ASSUME NEW c \in Seq(T)
      PROVE  (n = c \/ IsSuffix(<<".">> \o c, n)) <=> IsSuffix(Split(c, "."), Split(n, "."))
  <2>1. (n = c \/ IsSuffix(<<".">> \o c, n)) <=> AtEnd(c, n, ".")
    BY <1>1, SameOrBelow
  <2>2. EndsWith(Split(c, "."), Split(n, ".")) <=> AtEnd(c, n, ".")
    BY <1>1, SplitsEndAlike
  <2>3. Split(c, ".") \in Seq(Seq(T)) /\ Split(n, ".") \in Seq(Seq(T))
    BY <1>1, SplitTyped DEF SegLists
  <2>4. IsSuffix(Split(c, "."), Split(n, ".")) <=> EndsWith(Split(c, "."), Split(n, "."))
    BY <2>3, SuffixIs
  <2> QED BY <2>1, <2>2, <2>4
<1>5. IsLocalhostName(name) <=> IsSuffix(<< localhost >>, NameLabels(name))
  <2>1. IsLocalhostName(name) <=> n = localhost \/ IsSuffix(<<".">> \o localhost, n)
    BY <1>3 DEF IsLocalhostName, n, localhost
  <2> QED BY <1>1, <1>3, <1>4, <2>1
<1>6. IsDeniedName({suffix}, name) <=> n = localhost \/ IsSuffix(suffix, n) \/ n = Tail(suffix)
  BY DEF IsDeniedName, n, localhost
<1>7. n = localhost => IsLocalhostName(name)
  BY DEF IsLocalhostName, n, localhost
<1>8. (IsSuffix(suffix, n) \/ n = Tail(suffix)) <=> IsSuffix(DomainLabels(domain), NameLabels(name))
  BY <1>1, <1>2, <1>4
<1> QED BY <1>5, <1>6, <1>7, <1>8 DEF LooksUp, suffix, localhost

(* The inductive invariant: names are put together from their tokens.           *)
NamesOfTokens ==
  of = "resolve_name" => given \in Domains /\ input \in Seq(NameTokens)

(* So they are. *)
LEMMA NamesAreOfTokens == Spec => []NamesOfTokens
<1>1. Init => NamesOfTokens
  BY DEF Init, NamesOfTokens
<1>2. NamesOfTokens /\ [Next]_vars => NamesOfTokens'
  <2> SUFFICES ASSUME NamesOfTokens, [Next]_vars PROVE NamesOfTokens'
    OBVIOUS
  <2>1. CASE UNCHANGED vars
    BY <2>1 DEF vars, NamesOfTokens
  <2>2. CASE Next /\ of' = "resolve_name"
    <3>1. PICK piece \in Pieces :
            input' = Append(input, piece) /\ of' = of /\ given' = given
      BY <2>2 DEF Next
    <3>2. of = "resolve_name"
      BY <2>2, <3>1
    <3>3. piece \in NameTokens
      BY <3>1, <3>2 DEF Pieces
    <3>4. input \in Seq(NameTokens) /\ given \in Domains
      BY <3>2 DEF NamesOfTokens
    <3>5. input' \in Seq(NameTokens)
      BY <3>1, <3>3, <3>4
    <3> QED BY <3>1, <3>4, <3>5 DEF NamesOfTokens
  <2>3. CASE of' # "resolve_name"
    BY <2>3 DEF NamesOfTokens
  <2> QED BY <2>1, <2>2, <2>3
<1> QED BY <1>1, <1>2, PTL DEF Spec

(* An egress policy denies a domain and all below it, and no name that merely   *)
(* ends in the same letters (egress.rs, deny_host_suffix and is_denied_name):   *)
(* for names of any length.                                                     *)
THEOREM NamesAreDenied == Spec => []NamesDenied
<1>1. NamesOfTokens => NamesDenied
  <2> SUFFICES ASSUME NamesOfTokens, of = "resolve_name", input # <<>>,
                      NEW allow_loopback \in BOOLEAN
               PROVE  LooksUp(allow_loopback, {DeniedSuffix(given)}, input) <=>
                        IF IsSuffix(<< <<"localhost">> >>, NameLabels(input))
                          THEN allow_loopback
                          ELSE ~IsSuffix(DomainLabels(given), NameLabels(input))
    BY DEF NamesDenied
  <2>1. input \in Seq(NameTokens) /\ given \in Domains
    BY DEF NamesOfTokens
  <2>2. {".", "my", "local", "localhost"} \subseteq NameTokens
    BY DEF NameTokens
  <2>3. /\ <<"local">> \in Seq(NameTokens) /\ <<".", "local">> \in Seq(NameTokens)
        /\ <<"my", ".", "local">> \in Seq(NameTokens) /\ <<"localhost">> \in Seq(NameTokens)
    BY <2>2
  <2>4. \/ given = <<"local">> \/ given = <<".", "local">>
        \/ given = <<"my", ".", "local">> \/ given = <<"localhost">>
    BY <2>1, Zenon DEF Domains
  <2>5. given \in Seq(NameTokens)
    BY <2>3, <2>4, Zenon
  <2>6. given # <<>>
    BY <2>4
  <2> QED BY <2>1, <2>2, <2>5, <2>6, LabelsDecide
<1> QED BY <1>1, NamesAreOfTokens, PTL
=============================================================================
