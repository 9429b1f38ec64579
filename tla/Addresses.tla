----------------------------- MODULE Addresses -----------------------------
(***************************************************************************)
(* Internet addresses as wsproxy-utils.ts and target-policy.ts read them:  *)
(* which peers may name the client they forward, who the client is, and    *)
(* which networks a client may not be connected to.                        *)
(*                                                                         *)
(* An address is what its text parses to: octets, octets written as        *)
(* ::ffff:a.b.c.d, eight groups, or a name that is none of these.          *)
(***************************************************************************)
EXTENDS Integers, Sequences, SequencesExt

CONSTANT None

V4(octets) == [form |-> "v4", octets |-> octets]
Mapped(octets) == [form |-> "mapped", octets |-> octets]
V6(groups) == [form |-> "v6", groups |-> groups]
Name == [form |-> "name"]

Quad == [1..4 -> 0..255]
Hextet == 0..65535
Hextets == [1..8 -> Hextet]
Address == {Name} \union [form : {"v4", "mapped"}, octets : Quad]
                  \union [form : {"v6"}, groups : Hextets]

(* normalizeAddress: the mapped spelling of an IPv4 address is that address. *)
NormalizeAddress(a) == IF a.form = "mapped" THEN V4(a.octets) ELSE a

Clamp(n, width) == IF n < 0 THEN 0 ELSE IF n > width THEN width ELSE n

(* matchesPrefix, matchesPrefixV6 and inV4Network: the first prefix bits of *)
(* two addresses of parts of a width agree.                                 *)
MatchesPrefix(x, y, width, prefix) ==
  \A i \in DOMAIN x :
    LET rest == 2 ^ (width - Clamp(prefix - (i - 1) * width, width))
    IN  x[i] \div rest = y[i] \div rest

MappedGroups(o) == <<0, 0, 0, 0, 0, 65535, o[1] * 256 + o[2], o[3] * 256 + o[4]>>

-----------------------------------------------------------------------------
(* A trust list trusts every peer, or those its entries name: an address    *)
(* (prefix None) or a range.  The family of a range is the one it is        *)
(* written in; an IPv4 peer has a mapped form for ranges of IPv6.           *)
EntryMatches(peer, entry) ==
  IF entry.prefix = None THEN NormalizeAddress(entry.net) = peer
  ELSE IF entry.net.form = "v4"
       THEN peer.form = "v4" /\ MatchesPrefix(peer.octets, entry.net.octets, 8, entry.prefix)
       ELSE /\ peer.form # "name"
            /\ MatchesPrefix(IF peer.form = "v6" THEN peer.groups ELSE MappedGroups(peer.octets),
                             IF entry.net.form = "v6" THEN entry.net.groups
                             ELSE MappedGroups(entry.net.octets),
                             16, entry.prefix)

IsTrustedPeer(peer, trust) ==
  trust.all \/ \E entry \in trust.entries : EntryMatches(NormalizeAddress(peer), entry)

(* Mutant of Forwarded: the chain is read from its left end. *)
ForwardedLeft(peer, hops, trust) == IF hops = <<>> THEN peer ELSE Head(hops)

(* The client in an x-forwarded-for chain: the rightmost hop that is not a  *)
(* proxy; when every peer is trusted, the leftmost.                         *)
Forwarded(peer, hops, trust) ==
  LET others == {i \in DOMAIN hops : ~IsTrustedPeer(hops[i], trust)}
  IN  IF trust.all /\ hops # <<>> THEN Head(hops)
      ELSE IF others # {} THEN hops[Max(others)] ELSE peer

(* resolveClientAddress *)
ResolveClientAddress(peer, headers, trust) ==
  IF ~IsTrustedPeer(peer, trust) THEN peer
  ELSE IF headers.realIp # None THEN headers.realIp
       ELSE Forwarded(peer, headers.hops, trust)

-----------------------------------------------------------------------------
ReservedV4 ==
  {<<<<0, 0, 0, 0>>, 8>>, <<<<10, 0, 0, 0>>, 8>>, <<<<100, 64, 0, 0>>, 10>>,
   <<<<127, 0, 0, 0>>, 8>>, <<<<169, 254, 0, 0>>, 16>>, <<<<172, 16, 0, 0>>, 12>>,
   <<<<192, 0, 0, 0>>, 24>>, <<<<192, 0, 2, 0>>, 24>>, <<<<192, 168, 0, 0>>, 16>>,
   <<<<198, 18, 0, 0>>, 15>>, <<<<224, 0, 0, 0>>, 4>>, <<<<240, 0, 0, 0>>, 4>>}

InReservedV4(octets) == \E net \in ReservedV4 : MatchesPrefix(octets, net[1], 8, net[2])

(* isReservedAddress: what cannot be read as an address is reserved, and an *)
(* IPv4 address is classified as one however it is written.                 *)
IsReservedAddress(address) ==
  LET a == NormalizeAddress(address)
      g == a.groups
      leading(prefix, bits) == MatchesPrefix(<<g[1]>>, <<prefix>>, 16, bits)
  IN  CASE a.form = "name" -> TRUE
        [] a.form = "v4" -> InReservedV4(a.octets)
        [] OTHER ->
             IF SubSeq(g, 1, 6) = <<0, 0, 0, 0, 0, 65535>>
             THEN InReservedV4(<<g[7] \div 256, g[7] % 256, g[8] \div 256, g[8] % 256>>)
             ELSE \/ \A i \in 1..7 : g[i] = 0 /\ g[8] \in {0, 1}
                  \/ leading(64512, 7)      \* fc00::/7
                  \/ leading(65152, 10)     \* fe80::/10
                  \/ leading(65280, 8)      \* ff00::/8
=============================================================================
