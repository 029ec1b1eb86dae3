------------------------------ MODULE Addresses ------------------------------
(***************************************************************************)
(* The address classes of src/src/egress.rs: which IP addresses a client   *)
(* with an egress policy does not connect to.  An IPv4 address is its four *)
(* octets, an IPv6 address its eight segments; o[0] of the source is ip[1] *)
(* here.                                                                   *)
(***************************************************************************)
EXTENDS Naturals, Sequences

Zeros(n) == [i \in 1..n |-> 0]

(* seg & mask, for the mask that clears all bits below the power of two `low`.   *)
Masked(seg, low) == seg - (seg % low)

(* The IPv4 address two segments hold, and the complement of one. *)
Octets(high, low) == <<high \div 256, high % 256, low \div 256, low % 256>>
Complement(v4) == [i \in 1..4 |-> 255 - v4[i]]

-----------------------------------------------------------------------------
(* Methods of the standard library's Ipv4Addr and Ipv6Addr. *)
LoopbackV4(ip) == ip[1] = 127
PrivateV4(ip) ==
  \/ ip[1] = 10
  \/ ip[1] = 172 /\ ip[2] \in 16..31
  \/ ip[1] = 192 /\ ip[2] = 168
LinkLocalV4(ip) == ip[1] = 169 /\ ip[2] = 254
BroadcastV4(ip) == ip = <<255, 255, 255, 255>>
MulticastV4(ip) == ip[1] \in 224..239
LoopbackV6(ip) == ip = Zeros(7) \o <<1>>
UnspecifiedV6(ip) == ip = Zeros(8)
EmbedsV4(ip) == SubSeq(ip, 1, 5) = Zeros(5) /\ ip[6] \in {0, \hffff}

-----------------------------------------------------------------------------
(* Plausible bug: the end of the range is included. *)
CgnatWide(ip) == ip[1] = 100 /\ ip[2] \in 64..128

Cgnat(ip) == ip[1] = 100 /\ ip[2] \in 64..127

IsInternalV4(ip) ==
  \/ LoopbackV4(ip) \/ PrivateV4(ip) \/ LinkLocalV4(ip) \/ BroadcastV4(ip) \/ MulticastV4(ip)
  \/ ip[1] = 0                                             \* this_network
  \/ Cgnat(ip)
  \/ <<ip[1], ip[2], ip[3]>> \in
       {<<192, 0, 0>>,                                     \* protocol_assignments
        <<192, 0, 2>>, <<198, 51, 100>>, <<203, 0, 113>>,  \* documentation
        <<192, 88, 99>>}                                   \* relay_6to4
  \/ ip[1] = 198 /\ ip[2] \in {18, 19}                     \* benchmarking
  \/ ip[1] >= 240                                          \* reserved

(* The client's address in a Teredo address; plausible bug: taken as it stands. *)
TeredoClientPlain(ip) == Octets(ip[7], ip[8])
TeredoClient(ip) == Complement(Octets(ip[7], ip[8]))

NativeInternal(ip) ==
  \/ SubSeq(ip, 1, 4) = <<\h0100, 0, 0, 0>>                \* discard
  \/ SubSeq(ip, 1, 3) = <<\h2001, 2, 0>>                   \* benchmarking
  \/ SubSeq(ip, 1, 2) = <<\h2001, \h0db8>>                 \* documentation
  \/ Masked(ip[1], 16) = \h3ff0
  \/ ip[1] = \h5f00                                        \* srv6
  \/ Masked(ip[1], 512) = \hfc00                           \* unique_local
  \/ Masked(ip[1], 64) = \hfe80                            \* link_local
  \/ Masked(ip[1], 64) = \hfec0                            \* site_local
  \/ Masked(ip[1], 256) = \hff00                           \* multicast

(* The forms that embed an IPv4 address are unwrapped, in the code's order. *)
IsInternalV6(ip) ==
  \/ LoopbackV6(ip) \/ UnspecifiedV6(ip)
  \/ IF \/ EmbedsV4(ip)
        \/ SubSeq(ip, 1, 6) = <<0, 0, 0, 0, \hffff, 0>>    \* IPv4-translated
        \/ SubSeq(ip, 1, 6) = <<\h64, \hff9b, 0, 0, 0, 0>> \* NAT64
       THEN IsInternalV4(Octets(ip[7], ip[8]))
     ELSE IF SubSeq(ip, 1, 3) = <<\h64, \hff9b, 1>>        \* local-use NAT64
       THEN TRUE
     ELSE IF ip[1] = \h2002                                \* 6to4
       THEN IsInternalV4(Octets(ip[2], ip[3]))
     ELSE IF SubSeq(ip, 1, 2) = <<\h2001, 0>>              \* Teredo
       THEN IsInternalV4(TeredoClient(ip))
     ELSE NativeInternal(ip)

(* Plausible bug: is_loopback_ip asks whether the last 32 bits are loopback. *)
IsLoopbackLow(ip) ==
  IF Len(ip) = 4 THEN LoopbackV4(ip)
                 ELSE LoopbackV6(ip) \/ LoopbackV4(Octets(ip[7], ip[8]))

IsLoopback(ip) ==
  IF Len(ip) = 4 THEN LoopbackV4(ip)
                 ELSE LoopbackV6(ip) \/ (EmbedsV4(ip) /\ LoopbackV4(Octets(ip[7], ip[8])))

IsInternal(ip) == IF Len(ip) = 4 THEN IsInternalV4(ip) ELSE IsInternalV6(ip)

(* EgressPolicy::is_allowed_ip *)
IsAllowed(allow_loopback, ip) == (allow_loopback /\ IsLoopback(ip)) \/ ~IsInternal(ip)
=============================================================================
