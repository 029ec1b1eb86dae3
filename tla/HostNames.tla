------------------------------ MODULE HostNames ------------------------------
(***************************************************************************)
(* src/src/egress.rs: the host names an egress policy denies.  A name is   *)
(* the sequence of its characters, where only dots and the pieces that     *)
(* suffixes are made of are told apart.  Letters have no case here: both   *)
(* sides of every comparison are in lower case.                            *)
(***************************************************************************)
EXTENDS Naturals, Sequences, SequencesExt

(* normalize_name: one dot at the end is the root and is dropped. *)
Normalized(name) ==
  IF name # <<>> /\ Last(name) = "." THEN Front(name) ELSE name

(* Plausible bug: the leading dot is not supplied. *)
SuffixBare(suffix) == suffix

(* deny_host_suffix *)
DeniedSuffix(suffix) ==
  IF suffix # <<>> /\ Head(suffix) = "." THEN suffix ELSE <<".">> \o suffix

IsLocalhostName(name) ==
  Normalized(name) = <<"localhost">> \/ IsSuffix(<<".", "localhost">>, Normalized(name))

IsDeniedName(suffixes, name) ==
  \/ Normalized(name) = <<"localhost">>
  \/ \E s \in suffixes : IsSuffix(s, Normalized(name)) \/ Normalized(name) = Tail(s)

(* resolve_name: is the name looked up at all? *)
LooksUp(allow_loopback, suffixes, name) ==
  IF IsLocalhostName(name) THEN allow_loopback ELSE ~IsDeniedName(suffixes, name)
=============================================================================
