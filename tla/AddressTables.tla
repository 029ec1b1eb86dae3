---------------------------- MODULE AddressTables ----------------------------
(***************************************************************************)
(* The ranges of the documentation of src/src/egress.rs as prefixes: what  *)
(* Addresses is compared with, and the addresses at and beside their ends. *)
(***************************************************************************)
EXTENDS Addresses

(* A prefix is its leading segments and the number of bits that count. *)
Prefix(segs, bits) == [segs |-> segs, bits |-> bits]

(* Does addr begin with the bits of p?  Segment by segment. *)
Within(addr, p) ==
  LET width == IF Len(addr) = 4 THEN 8 ELSE 16
      Spare(i) == IF p.bits >= width * i THEN 0 ELSE width * i - p.bits
  IN  \A i \in DOMAIN p.segs :
        addr[i] \div 2 ^ Spare(i) = p.segs[i] \div 2 ^ Spare(i)

(* The ranges of egress.rs:450-462. *)
RangesV4 ==
  {Prefix(<<0>>, 8), Prefix(<<10>>, 8), Prefix(<<172, 16>>, 12), Prefix(<<192, 168>>, 16),
   Prefix(<<100, 64>>, 10), Prefix(<<127>>, 8), Prefix(<<169, 254>>, 16),
   Prefix(<<192, 0, 0>>, 24), Prefix(<<192, 0, 2>>, 24), Prefix(<<198, 51, 100>>, 24),
   Prefix(<<203, 0, 113>>, 24), Prefix(<<192, 88, 99>>, 24), Prefix(<<198, 18>>, 15),
   Prefix(<<224>>, 4), Prefix(<<240>>, 4)}

(* The native ranges of egress.rs:505-509. *)
RangesV6 ==
  {Prefix(Zeros(8), 128), Prefix(Zeros(7) \o <<1>>, 128), Prefix(<<\h64, \hff9b, 1>>, 48),
   Prefix(<<\h100, 0, 0, 0>>, 64), Prefix(<<\h2001, 2, 0>>, 48), Prefix(<<\h2001, \hdb8>>, 32),
   Prefix(<<\h3fff, 0>>, 20), Prefix(<<\h5f00>>, 16), Prefix(<<\hfc00>>, 7),
   Prefix(<<\hfe80>>, 10), Prefix(<<\hfec0>>, 10), Prefix(<<\hff00>>, 8)}

(* What the mask of egress.rs:552 refuses where 3fff::/20 is documented. *)
WiderV6 == Prefix(<<\h3ff0>>, 12)

MappedV4 == {Prefix(Zeros(5) \o <<\hffff>>, 96), Prefix(Zeros(6), 96)}

(* The embeddings of egress.rs:494-503: a prefix, and the IPv4 address that an   *)
(* address within it stands for.                                                *)
Embedded(addr) ==
  {v4 \in {Octets(addr[7], addr[8])} :
     \E p \in MappedV4 \cup {Prefix(<<0, 0, 0, 0, \hffff, 0>>, 96),
                             Prefix(<<\h64, \hff9b, 0, 0, 0, 0>>, 96)} : Within(addr, p)}
  \cup {v4 \in {Octets(addr[2], addr[3])} : Within(addr, Prefix(<<\h2002>>, 16))}
  \cup {v4 \in {Octets(65535 - addr[7], 65535 - addr[8])} : Within(addr, Prefix(<<\h2001, 0>>, 32))}

BarredV4(addr) == \E p \in RangesV4 : Within(addr, p)
BarredV6(addr) ==
  (\E p \in RangesV6 : Within(addr, p)) \/ (\E v4 \in Embedded(addr) : BarredV4(v4))

-----------------------------------------------------------------------------
(* The ends of the ranges and their neighbours, by segment. *)
EndsV4 ==
  <<{0, 1, 8, 9, 10, 11, 99, 100, 101, 126, 127, 128, 168, 169, 170, 171, 172, 173,
     191, 192, 193, 197, 198, 199, 202, 203, 204, 223, 224, 239, 240, 255},
    {0, 1, 15, 16, 17, 18, 19, 20, 31, 32, 50, 51, 52, 63, 64, 87, 88, 89, 127, 128,
     167, 168, 169, 253, 254, 255},
    {0, 1, 2, 3, 98, 99, 100, 101, 112, 113, 114, 255},
    {0, 1, 254, 255}>>

EndsV6 ==
  <<{0, 1, \h64, \h65, \hff, \h100, \h101, \h2000, \h2001, \h2002, \h2003, \h3fef, \h3ff0, \h3fff,
     \h4000, \h5eff, \h5f00, \h5f01, \hfbff, \hfc00, \hfdff, \hfe00, \hfe7f, \hfe80, \hfebf,
     \hfec0, \hfeff, \hff00, \hffff},
    {0, 1, 2, \hdb8, \h808, \hfff, \h1000, \h7f00, \hff9b},
    {0, 1, 2, \hffff},
    {0, 1},
    {0, \hffff},
    {0, 1, \hffff},
    {0, \h7f00, \h808, \h80ff, \hf7f7},
    {0, 1, 2, \hffff}>>
=============================================================================
