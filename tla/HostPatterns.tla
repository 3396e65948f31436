----------------------------- MODULE HostPatterns -----------------------------
(***************************************************************************)
(* The patterns of hosts that the redirect policy                          *)
(* (src/auth/unregistered-client-redirect-policy.ts) and the origin check  *)
(* (src/transport/http-transport.ts) judge by.  A host is its labels, an   *)
(* address its bits.                                                       *)
(***************************************************************************)
EXTENDS Integers, SequencesExt

CONSTANT Width         \* the bits of an address

Host == [kind : {"name", "v4", "v6"}, is : Seq(STRING)]
HostPattern(p) == p.kind \in {"exact", "under", "range"} /\ p.host \in Host /\ p.host.is # <<>>

Localhost == [kind |-> "name", is |-> <<"localhost">>]
LoopbackAddress == [kind |-> "v4", is |-> [i \in 1 .. Width |-> IF i = 1 THEN "0" ELSE "1"]]

\* The positions, from the left, that the mask of a range keeps.  For IPv4 it is a
\* shift of Width ones by Width - bits, and a shift counts modulo Width.
MaskLow(version, bits) == Width - bits + 1 .. Width
Mask(version, bits) ==
    IF version = "v4" THEN 1 .. Width - ((Width - bits) % Width) ELSE 1 .. bits
MatchCIDR(host, range, bits) ==
    /\ host.kind = range.kind /\ host.kind \in {"v4", "v6"} /\ bits \in 0 .. Width
    /\ \A i \in Mask(host.kind, bits) : host.is[i] = range.is[i]

MatchRedirectHost(host, p) ==
    \/ p.kind = "exact" /\ host = p.host
    \/ p.kind = "under" /\ host.kind = "name" /\ IsSuffix(p.host.is, host.is)
    \/ p.kind = "range" /\ MatchCIDR(host, p.host, p.bits)

\* What a pattern means: the host itself, the domain and what is below it, the
\* addresses of the version that begin with the range's bits.
Belongs(host, p) ==
    \/ host = p.host /\ p.kind = "exact"
    \/ /\ p.kind = "under" /\ host.kind = "name"
       /\ \E above \in {SubSeq(host.is, i, Len(host.is)) : i \in DOMAIN host.is} : above = p.host.is
    \/ /\ p.kind = "range" /\ host.kind = p.host.kind /\ host.kind \in {"v4", "v6"}
       /\ SubSeq(host.is, 1, p.bits) = SubSeq(p.host.is, 1, p.bits)
=============================================================================
