--------------------------- MODULE AdmissionProofs ---------------------------
(***************************************************************************)
(* What the front of the proxy lets in, for every environment, request,    *)
(* frame, target and DNS answer, and not only those at the edges of the    *)
(* rules.                                                                  *)
(*                                                                         *)
(* Each decision is made from what an earlier one left behind: the checks  *)
(* of parseRuntimeConfig hold of the configuration in use, those of the    *)
(* upgrade and of the connection handler of the client that is served      *)
(* (AdmissionInv).                                                         *)
(***************************************************************************)
EXTENDS Admission, WellFoundedInduction, TLAPS

-----------------------------------------------------------------------------
(* Reserved addresses: prefixes and ranges agree.                          *)

(* The first k of eight bits of two octets agree. *)
Agree(x, y, k) == x \div 2 ^ (8 - k) = y \div 2 ^ (8 - k)

(* How many bits of the octets a prefix covers. *)
LEMMA ClampValues ==
  /\ \A p \in {4, 8, 10, 12, 15, 16, 24} : Clamp(p - 0, 8) = IF p = 4 THEN 4 ELSE 8
  /\ \A p \in {4, 8} : Clamp(p - 8, 8) = 0
  /\ Clamp(10 - 8, 8) = 2 /\ Clamp(12 - 8, 8) = 4 /\ Clamp(15 - 8, 8) = 7
  /\ Clamp(16 - 8, 8) = 8 /\ Clamp(24 - 8, 8) = 8
  /\ \A p \in {4, 8, 10, 12, 15, 16} : Clamp(p - 16, 8) = 0
  /\ Clamp(24 - 16, 8) = 8
  /\ \A p \in {4, 8, 10, 12, 15, 16, 24} : Clamp(p - 24, 8) = 0
BY DEF Clamp

(* A prefix of an IPv4 address, octet by octet. *)
LEMMA PrefixByOctet ==
  ASSUME NEW o \in Quad, NEW n, NEW p \in Nat
  PROVE  MatchesPrefix(o, n, 8, p) <=>
           /\ Agree(o[1], n[1], Clamp(p - 0, 8)) /\ Agree(o[2], n[2], Clamp(p - 8, 8))
           /\ Agree(o[3], n[3], Clamp(p - 16, 8)) /\ Agree(o[4], n[4], Clamp(p - 24, 8))
<1>1. DOMAIN o = 1..4 BY DEF Quad
<1>2. /\ (1 - 1) * 8 = 0 /\ (2 - 1) * 8 = 8 /\ (3 - 1) * 8 = 16 /\ (4 - 1) * 8 = 24
      /\ \A i : i \in 1..4 <=> i = 1 \/ i = 2 \/ i = 3 \/ i = 4
  OBVIOUS
<1> QED BY <1>1, <1>2 DEF MatchesPrefix, Agree

(* What agreement in no bit, all eight, or some of them means. *)
LEMMA AgreeAll ==
  ASSUME NEW x \in 0..255, NEW y, y \in 0..255
  PROVE  Agree(x, y, 0) /\ (Agree(x, y, 8) <=> x = y)
<1>1. 2 ^ (8 - 0) = 256 /\ 2 ^ (8 - 8) = 1 OBVIOUS
<1>2. x \div 256 = 0 /\ y \div 256 = 0 /\ x \div 1 = x /\ y \div 1 = y OBVIOUS
<1> QED BY <1>1, <1>2 DEF Agree

LEMMA AgreeSome ==
  ASSUME NEW x \in 0..255
  PROVE  /\ Agree(x, 64, 2) <=> x \in 64..127
         /\ Agree(x, 16, 4) <=> x \in 16..31
         /\ Agree(x, 18, 7) <=> x \in 18..19
         /\ Agree(x, 224, 4) <=> x \in 224..239
         /\ Agree(x, 240, 4) <=> x \in 240..255
<1>1. 2 ^ (8 - 2) = 64 /\ 2 ^ (8 - 4) = 16 /\ 2 ^ (8 - 7) = 2 OBVIOUS
<1>2. /\ 64 \div 64 = 1 /\ 16 \div 16 = 1 /\ 18 \div 2 = 9
      /\ 224 \div 16 = 14 /\ 240 \div 16 = 15
  OBVIOUS
<1>3. /\ x \div 64 = 1 <=> x \in 64..127
      /\ x \div 16 = 1 <=> x \in 16..31
      /\ x \div 2 = 9 <=> x \in 18..19
      /\ x \div 16 = 14 <=> x \in 224..239
      /\ x \div 16 = 15 <=> x \in 240..255
  OBVIOUS
<1> QED BY <1>1, <1>2, <1>3 DEF Agree

(* The reserved networks as ranges of octets. *)
LEMMA Networks ==
  ASSUME NEW o \in Quad
  PROVE  /\ \A x \in {0, 10, 127} : MatchesPrefix(o, <<x, 0, 0, 0>>, 8, 8) <=> o[1] = x
         /\ MatchesPrefix(o, <<100, 64, 0, 0>>, 8, 10) <=> o[1] = 100 /\ o[2] \in 64..127
         /\ MatchesPrefix(o, <<169, 254, 0, 0>>, 8, 16) <=> o[1] = 169 /\ o[2] = 254
         /\ MatchesPrefix(o, <<172, 16, 0, 0>>, 8, 12) <=> o[1] = 172 /\ o[2] \in 16..31
         /\ \A z \in {0, 2} : MatchesPrefix(o, <<192, 0, z, 0>>, 8, 24) <=>
                               o[1] = 192 /\ o[2] = 0 /\ o[3] = z
         /\ MatchesPrefix(o, <<192, 168, 0, 0>>, 8, 16) <=> o[1] = 192 /\ o[2] = 168
         /\ MatchesPrefix(o, <<198, 18, 0, 0>>, 8, 15) <=> o[1] = 198 /\ o[2] \in 18..19
         /\ MatchesPrefix(o, <<224, 0, 0, 0>>, 8, 4) <=> o[1] \in 224..239
         /\ MatchesPrefix(o, <<240, 0, 0, 0>>, 8, 4) <=> o[1] \in 240..255
<1>1. o[1] \in 0..255 /\ o[2] \in 0..255 /\ o[3] \in 0..255 /\ o[4] \in 0..255 BY DEF Quad
<1>2. ASSUME NEW x \in {0, 10, 127} PROVE MatchesPrefix(o, <<x, 0, 0, 0>>, 8, 8) <=> o[1] = x
  <2>1. MatchesPrefix(o, <<x, 0, 0, 0>>, 8, 8) <=>
          /\ Agree(o[1], x, 8) /\ Agree(o[2], 0, 0)
          /\ Agree(o[3], 0, 0) /\ Agree(o[4], 0, 0)
    BY PrefixByOctet, ClampValues
  <2>2. Agree(o[1], x, 8) <=> o[1] = x BY <1>1, AgreeAll
  <2>3. Agree(o[2], 0, 0) /\ Agree(o[3], 0, 0) /\ Agree(o[4], 0, 0) BY <1>1, AgreeAll
  <2> QED BY <2>1, <2>2, <2>3
<1>3. MatchesPrefix(o, <<100, 64, 0, 0>>, 8, 10) <=> o[1] = 100 /\ o[2] \in 64..127
  <2>1. MatchesPrefix(o, <<100, 64, 0, 0>>, 8, 10) <=>
          /\ Agree(o[1], 100, 8) /\ Agree(o[2], 64, 2)
          /\ Agree(o[3], 0, 0) /\ Agree(o[4], 0, 0)
    BY PrefixByOctet, ClampValues
  <2>2. Agree(o[1], 100, 8) <=> o[1] = 100 BY <1>1, AgreeAll
  <2>3. Agree(o[3], 0, 0) /\ Agree(o[4], 0, 0) BY <1>1, AgreeAll
  <2> QED BY <1>1, <2>1, <2>2, <2>3, AgreeSome
<1>4. MatchesPrefix(o, <<169, 254, 0, 0>>, 8, 16) <=> o[1] = 169 /\ o[2] = 254
  <2>1. MatchesPrefix(o, <<169, 254, 0, 0>>, 8, 16) <=>
          /\ Agree(o[1], 169, 8) /\ Agree(o[2], 254, 8)
          /\ Agree(o[3], 0, 0) /\ Agree(o[4], 0, 0)
    BY PrefixByOctet, ClampValues
  <2>2. Agree(o[1], 169, 8) <=> o[1] = 169 BY <1>1, AgreeAll
  <2>3. Agree(o[2], 254, 8) <=> o[2] = 254 BY <1>1, AgreeAll
  <2>4. Agree(o[3], 0, 0) /\ Agree(o[4], 0, 0) BY <1>1, AgreeAll
  <2> QED BY <2>1, <2>2, <2>3, <2>4
<1>5. MatchesPrefix(o, <<172, 16, 0, 0>>, 8, 12) <=> o[1] = 172 /\ o[2] \in 16..31
  <2>1. MatchesPrefix(o, <<172, 16, 0, 0>>, 8, 12) <=>
          /\ Agree(o[1], 172, 8) /\ Agree(o[2], 16, 4)
          /\ Agree(o[3], 0, 0) /\ Agree(o[4], 0, 0)
    BY PrefixByOctet, ClampValues
  <2>2. Agree(o[1], 172, 8) <=> o[1] = 172 BY <1>1, AgreeAll
  <2>3. Agree(o[3], 0, 0) /\ Agree(o[4], 0, 0) BY <1>1, AgreeAll
  <2> QED BY <1>1, <2>1, <2>2, <2>3, AgreeSome
<1>6. ASSUME NEW z \in {0, 2} PROVE MatchesPrefix(o, <<192, 0, z, 0>>, 8, 24) <=> o[1] = 192 /\ o[2] = 0 /\ o[3] = z
  <2>1. MatchesPrefix(o, <<192, 0, z, 0>>, 8, 24) <=>
          /\ Agree(o[1], 192, 8) /\ Agree(o[2], 0, 8)
          /\ Agree(o[3], z, 8) /\ Agree(o[4], 0, 0)
    BY PrefixByOctet, ClampValues
  <2>2. Agree(o[1], 192, 8) <=> o[1] = 192 BY <1>1, AgreeAll
  <2>3. Agree(o[2], 0, 8) <=> o[2] = 0 BY <1>1, AgreeAll
  <2>4. Agree(o[3], z, 8) <=> o[3] = z BY <1>1, AgreeAll
  <2>5. Agree(o[4], 0, 0) BY <1>1, AgreeAll
  <2> QED BY <2>1, <2>2, <2>3, <2>4, <2>5
<1>7. MatchesPrefix(o, <<192, 168, 0, 0>>, 8, 16) <=> o[1] = 192 /\ o[2] = 168
  <2>1. MatchesPrefix(o, <<192, 168, 0, 0>>, 8, 16) <=>
          /\ Agree(o[1], 192, 8) /\ Agree(o[2], 168, 8)
          /\ Agree(o[3], 0, 0) /\ Agree(o[4], 0, 0)
    BY PrefixByOctet, ClampValues
  <2>2. Agree(o[1], 192, 8) <=> o[1] = 192 BY <1>1, AgreeAll
  <2>3. Agree(o[2], 168, 8) <=> o[2] = 168 BY <1>1, AgreeAll
  <2>4. Agree(o[3], 0, 0) /\ Agree(o[4], 0, 0) BY <1>1, AgreeAll
  <2> QED BY <2>1, <2>2, <2>3, <2>4
<1>8. MatchesPrefix(o, <<198, 18, 0, 0>>, 8, 15) <=> o[1] = 198 /\ o[2] \in 18..19
  <2>1. MatchesPrefix(o, <<198, 18, 0, 0>>, 8, 15) <=>
          /\ Agree(o[1], 198, 8) /\ Agree(o[2], 18, 7)
          /\ Agree(o[3], 0, 0) /\ Agree(o[4], 0, 0)
    BY PrefixByOctet, ClampValues
  <2>2. Agree(o[1], 198, 8) <=> o[1] = 198 BY <1>1, AgreeAll
  <2>3. Agree(o[3], 0, 0) /\ Agree(o[4], 0, 0) BY <1>1, AgreeAll
  <2> QED BY <1>1, <2>1, <2>2, <2>3, AgreeSome
<1>9. MatchesPrefix(o, <<224, 0, 0, 0>>, 8, 4) <=> o[1] \in 224..239
  <2>1. MatchesPrefix(o, <<224, 0, 0, 0>>, 8, 4) <=>
          /\ Agree(o[1], 224, 4) /\ Agree(o[2], 0, 0)
          /\ Agree(o[3], 0, 0) /\ Agree(o[4], 0, 0)
    BY PrefixByOctet, ClampValues
  <2>2. Agree(o[2], 0, 0) /\ Agree(o[3], 0, 0) /\ Agree(o[4], 0, 0) BY <1>1, AgreeAll
  <2> QED BY <1>1, <2>1, <2>2, AgreeSome
<1>10. MatchesPrefix(o, <<240, 0, 0, 0>>, 8, 4) <=> o[1] \in 240..255
  <2>1. MatchesPrefix(o, <<240, 0, 0, 0>>, 8, 4) <=>
          /\ Agree(o[1], 240, 4) /\ Agree(o[2], 0, 0)
          /\ Agree(o[3], 0, 0) /\ Agree(o[4], 0, 0)
    BY PrefixByOctet, ClampValues
  <2>2. Agree(o[2], 0, 0) /\ Agree(o[3], 0, 0) /\ Agree(o[4], 0, 0) BY <1>1, AgreeAll
  <2> QED BY <1>1, <2>1, <2>2, AgreeSome
<1> QED BY <1>2, <1>3, <1>4, <1>5, <1>6, <1>7, <1>8, <1>9, <1>10

(* The ranges of PublicV4, one by one. *)
LEMMA PublicRanges ==
  ASSUME NEW o
  PROVE  PublicV4(o) <=>
           /\ High(o) < 0 \/ High(o) > 255
           /\ High(o) < 2560 \/ High(o) > 2815
           /\ High(o) < 25664 \/ High(o) > 25727
           /\ High(o) < 32512 \/ High(o) > 32767
           /\ High(o) < 43518 \/ High(o) > 43518
           /\ High(o) < 44048 \/ High(o) > 44063
           /\ High(o) < 49320 \/ High(o) > 49320
           /\ High(o) < 50706 \/ High(o) > 50707
           /\ High(o) < 57344 \/ High(o) > 65535
           /\ ~(High(o) = 49152 /\ o[3] \in {0, 2})
BY DEF PublicV4

LEMMA ReservedQuads ==
  ASSUME NEW o \in Quad
  PROVE  InReservedV4(o) <=> ~PublicV4(o)
<1> DEFINE x == o[1]
           y == o[2]
           z == o[3]
           Listed == \/ x \in {0, 10, 127} \/ x \in 224..239 \/ x \in 240..255
                     \/ x = 100 /\ y \in 64..127
                     \/ x = 169 /\ y = 254
                     \/ x = 172 /\ y \in 16..31
                     \/ x = 192 /\ y = 168
                     \/ x = 198 /\ y \in 18..19
                     \/ x = 192 /\ y = 0 /\ z \in {0, 2}
<1>1. x \in 0..255 /\ y \in 0..255 /\ z \in 0..255 BY DEF Quad
<1>2. InReservedV4(o) <=> Listed BY Networks DEF InReservedV4, ReservedV4
<1>3. High(o) = x * 256 + y BY DEF High
<1> HIDE DEF x, y
<1>4. PublicV4(o) <=> ~Listed BY <1>1, <1>3, PublicRanges DEF z
<1> QED BY <1>2, <1>4

LEMMA HextetValue == ASSUME NEW x \in Hextet PROVE x \in Nat /\ x <= 65535
BY SMTT(20) DEF Hextet

(* The first k of sixteen bits of two groups agree. *)
AgreeGroup(x, y, k) == x \div 2 ^ (16 - k) = y \div 2 ^ (16 - k)

LEMMA ReservedGroups ==
  ASSUME NEW x \in Nat, x <= 65535
  PROVE  /\ MatchesPrefix(<<x>>, <<64512>>, 16, 7) <=> x \in 64512..65023
         /\ MatchesPrefix(<<x>>, <<65152>>, 16, 10) <=> x \in 65152..65215
         /\ MatchesPrefix(<<x>>, <<65280>>, 16, 8) <=> x >= 65280
<1>1. /\ Clamp(7 - (1 - 1) * 16, 16) = 7 /\ Clamp(10 - (1 - 1) * 16, 16) = 10
      /\ Clamp(8 - (1 - 1) * 16, 16) = 8
  BY DEF Clamp
<1>2. 2 ^ (16 - 7) = 512 /\ 2 ^ (16 - 10) = 64 /\ 2 ^ (16 - 8) = 256 OBVIOUS
<1>3. DOMAIN <<x>> = {1} OBVIOUS
<1>4. ASSUME NEW y, NEW p
      PROVE  MatchesPrefix(<<x>>, <<y>>, 16, p) <=> AgreeGroup(x, y, Clamp(p - (1 - 1) * 16, 16))
  BY <1>3 DEF MatchesPrefix, AgreeGroup
<1>5. /\ x \div 512 = 126 <=> x \in 64512..65023
      /\ x \div 64 = 1018 <=> x \in 65152..65215
      /\ x \div 256 = 255 <=> x >= 65280
  OBVIOUS
<1>6. 64512 \div 512 = 126 /\ 65152 \div 64 = 1018 /\ 65280 \div 256 = 255 OBVIOUS
<1>7. /\ MatchesPrefix(<<x>>, <<64512>>, 16, 7) <=> AgreeGroup(x, 64512, 7)
      /\ MatchesPrefix(<<x>>, <<65152>>, 16, 10) <=> AgreeGroup(x, 65152, 10)
      /\ MatchesPrefix(<<x>>, <<65280>>, 16, 8) <=> AgreeGroup(x, 65280, 8)
  BY <1>1, <1>4
<1>8. /\ AgreeGroup(x, 64512, 7) <=> x \div 512 = 64512 \div 512
      /\ AgreeGroup(x, 65152, 10) <=> x \div 64 = 65152 \div 64
      /\ AgreeGroup(x, 65280, 8) <=> x \div 256 = 65280 \div 256
  BY <1>2 DEF AgreeGroup
<1> QED BY <1>5, <1>6, <1>7, <1>8

(* The forms an address has. *)
LEMMA Forms ==
  ASSUME NEW a \in Address
  PROVE  \/ a = Name
         \/ a.form \in {"v4", "mapped"} /\ a.octets \in Quad
         \/ a \in [form : {"v6"}, groups : Hextets]
BY DEF Address

(* Eight groups: the IPv4 address they embed, or networks of their own. *)
EmbeddedQuad(g) == <<g[7] \div 256, g[7] % 256, g[8] \div 256, g[8] % 256>>
Zeros(g, n) == \A i \in 1..n : g[i] = 0
Embedded(g) == Zeros(g, 5) /\ g[6] = 65535
LocalGroups(g) ==
  \/ Zeros(g, 7) /\ g[8] <= 1
  \/ g[1] \in 64512..65023
  \/ g[1] \in 65152..65215
  \/ g[1] >= 65280

LEMMA HextetParts ==
  ASSUME NEW g \in Hextets
  PROVE  \A i \in 1..8 : g[i] \in Hextet
BY DEF Hextets

LEMMA Halves ==
  ASSUME NEW x \in Nat, x <= 65535
  PROVE  x \div 256 \in 0..255 /\ x % 256 \in 0..255
OBVIOUS

LEMMA EmbeddedType ==
  ASSUME NEW g \in Hextets
  PROVE  EmbeddedQuad(g) \in Quad
<1> DEFINE a == g[7]
           b == g[8]
<1>1. a \in Nat /\ a <= 65535 /\ b \in Nat /\ b <= 65535 BY HextetParts, HextetValue
<1>2. EmbeddedQuad(g) = <<a \div 256, a % 256, b \div 256, b % 256>> BY DEF EmbeddedQuad
<1> HIDE DEF a, b
<1>3. a \div 256 \in 0..255 /\ a % 256 \in 0..255 BY <1>1, Halves
<1>4. b \div 256 \in 0..255 /\ b % 256 \in 0..255 BY <1>1, Halves
<1> QED BY <1>2, <1>3, <1>4 DEF Quad

LEMMA EmbeddedPrefix ==
  ASSUME NEW g \in Hextets
  PROVE  SubSeq(g, 1, 6) = <<0, 0, 0, 0, 0, 65535>> <=> Embedded(g)
<1> DEFINE first == [i \in 1..6 |-> g[i]]
           mapped == <<0, 0, 0, 0, 0, 65535>>
           start == SubSeq(g, 1, 6)
<1> SUFFICES start = mapped <=> Embedded(g) OBVIOUS
<1>1. start = first BY DEF Hextets
<1>2. \A i : i \in 1..5 <=> i = 1 \/ i = 2 \/ i = 3 \/ i = 4 \/ i = 5 OBVIOUS
<1>3. first = <<g[1], g[2], g[3], g[4], g[5], g[6]>> OBVIOUS
<1>4. first = mapped <=>
        g[1] = 0 /\ g[2] = 0 /\ g[3] = 0 /\ g[4] = 0 /\ g[5] = 0 /\ g[6] = 65535
  <2> HIDE DEF first
  <2> QED BY <1>3
<1>5. Zeros(g, 5) <=> g[1] = 0 /\ g[2] = 0 /\ g[3] = 0 /\ g[4] = 0 /\ g[5] = 0
  BY <1>2 DEF Zeros
<1>6. first = mapped <=> Embedded(g)
  <2> HIDE DEF first, mapped
  <2> QED BY <1>4, <1>5 DEF Embedded
<1> HIDE DEF first, mapped, start
<1> QED BY <1>1, <1>6

LEMMA LoopbackGroups ==
  ASSUME NEW g \in Hextets
  PROVE  (\A i \in 1..7 : g[i] = 0 /\ g[8] \in {0, 1}) <=> Zeros(g, 7) /\ g[8] <= 1
<1>1. g[8] \in Nat BY HextetParts, HextetValue
<1>2. g[8] \in {0, 1} <=> g[8] <= 1 BY <1>1
<1>3. 1 \in 1..7 OBVIOUS
<1> QED BY <1>2, <1>3 DEF Zeros

LEMMA ReservedHextets ==
  ASSUME NEW a \in [form : {"v6"}, groups : Hextets]
  PROVE  IsReservedAddress(a) <=> ~Public(a)
<1> DEFINE g == a.groups
<1>1. g \in Hextets /\ a.form = "v6" OBVIOUS
<1>2. NormalizeAddress(a) = a BY <1>1 DEF NormalizeAddress
<1>3. g[1] \in Nat /\ g[1] <= 65535 BY <1>1, HextetParts, HextetValue
<1>4. IsReservedAddress(a) <=> IF Embedded(g) THEN InReservedV4(EmbeddedQuad(g)) ELSE LocalGroups(g)
  BY <1>1, <1>2, <1>3, EmbeddedPrefix, LoopbackGroups, ReservedGroups
  DEF IsReservedAddress, EmbeddedQuad, LocalGroups
<1>5. Public(a) <=> IF Embedded(g) THEN PublicV4(EmbeddedQuad(g)) ELSE ~LocalGroups(g)
  BY <1>1, <1>3 DEF Public, Embedded, Zeros, EmbeddedQuad, LocalGroups
<1>6. EmbeddedQuad(g) \in Quad BY <1>1, EmbeddedType
<1> QED BY <1>4, <1>5, <1>6, ReservedQuads

(* isReservedAddress refuses exactly what is not a public address. *)
LEMMA ReservedIsNotPublic ==
  ASSUME NEW a \in Address
  PROVE  IsReservedAddress(a) <=> ~Public(a)
<1>1. CASE a = Name BY <1>1 DEF Name, IsReservedAddress, NormalizeAddress, Public
<1>2. CASE a.form \in {"v4", "mapped"} /\ a.octets \in Quad
  <2>1. Public(a) <=> PublicV4(a.octets) BY <1>2 DEF Public
  <2>2. NormalizeAddress(a).form = "v4" /\ NormalizeAddress(a).octets = a.octets
    BY <1>2 DEF NormalizeAddress, V4
  <2>3. IsReservedAddress(a) <=> InReservedV4(a.octets) BY <2>2 DEF IsReservedAddress
  <2> QED BY <1>2, <2>1, <2>3, ReservedQuads
<1>3. CASE a \in [form : {"v6"}, groups : Hextets] BY <1>3, ReservedHextets
<1> QED BY <1>1, <1>2, <1>3, Forms

-----------------------------------------------------------------------------
(* Who the client is.                                                      *)

(* Of indexes in a sequence there is a last one. *)
LEMMA LastIndex ==
  ASSUME NEW n \in Nat, NEW S \in SUBSET (1..n), S # {}
  PROVE  Max(S) \in S /\ \A y \in S : y <= Max(S)
<1> DEFINE T == {n - i : i \in S}
           R == OpToRel(<, Nat)
<1>1. T \subseteq Nat /\ T # {}
  <2>1. \A i \in S : n - i \in Nat OBVIOUS
  <2> QED BY <2>1
<1> HIDE DEF R
<1>2. IsWellFoundedOn(R, Nat) BY NatLessThanWellFounded DEF R
<1>3. PICK t \in T : \A u \in T : <<u, t>> \notin R BY <1>1, <1>2, WFMin
<1>4. \A u, v \in Nat : u < v => <<u, v>> \in R
  <2> SUFFICES ASSUME NEW u \in Nat, NEW v \in Nat, u < v PROVE <<u, v>> \in R OBVIOUS
  <2>1. <<u, v>> \in Nat \X Nat /\ <<u, v>>[1] < <<u, v>>[2] OBVIOUS
  <2> QED BY <2>1, Zenon DEF R, OpToRel
<1>5. PICK m \in S : t = n - m OBVIOUS
<1>6. ASSUME NEW y \in S PROVE m >= y
  <2>1. n - y \in T OBVIOUS
  <2>2. ~(n - y < n - m) BY <1>1, <1>3, <1>4, <1>5, <2>1
  <2>3. m \in 1..n /\ y \in 1..n OBVIOUS
  <2> QED BY <2>2, <2>3
<1>7. Max(S) \in S /\ \A y \in S : Max(S) >= y BY <1>6 DEF Max
<1>8. Max(S) \in 1..n BY <1>7
<1> QED
  <2> SUFFICES ASSUME NEW y \in S PROVE y <= Max(S) BY <1>7
  <2>1. Max(S) >= y /\ y \in 1..n BY <1>7
  <2> QED BY <1>8, <2>1

(* Every peer is trusted by a list that trusts all. *)
LEMMA TrustAll == ASSUME NEW peer, NEW trust, trust.all PROVE IsTrustedPeer(peer, trust)
BY DEF IsTrustedPeer

(* resolveClientAddress, applied to its own answer, gives it again. *)
LEMMA ResolvedTwice ==
  ASSUME NEW peer, NEW headers, NEW trust
  PROVE  LET client == ResolveClientAddress(peer, headers, trust)
         IN  ResolveClientAddress(client, headers, trust) = client
BY TrustAll DEF ResolveClientAddress, Forwarded

(* Hops in front of a chain with a client in it change nothing. *)
LEMMA ForgedHops ==
  ASSUME NEW peer, NEW trust, ~trust.all, NEW hops \in Seq(Address), NEW forged \in Seq(Address),
         \E i \in DOMAIN hops : ~IsTrustedPeer(hops[i], trust)
  PROVE  Forwarded(peer, forged \o hops, trust) = Forwarded(peer, hops, trust)
<1> DEFINE chain == forged \o hops
           k == Len(forged)
           others == {i \in DOMAIN hops : ~IsTrustedPeer(hops[i], trust)}
           all == {i \in DOMAIN chain : ~IsTrustedPeer(chain[i], trust)}
           m == Max(others)
           l == Max(all)
<1>1. /\ k \in Nat /\ Len(hops) \in Nat /\ DOMAIN hops = 1..Len(hops)
      /\ DOMAIN chain = 1..(k + Len(hops)) /\ k + Len(hops) \in Nat
  OBVIOUS
<1>2. \A i \in 1..Len(hops) : chain[k + i] = hops[i] OBVIOUS
<1>3. others # {} /\ others \in SUBSET (1..Len(hops)) BY <1>1
<1>4. m \in others /\ \A y \in others : y <= m BY <1>1, <1>3, LastIndex
<1>5. k + m \in all BY <1>1, <1>2, <1>4
<1>6. l \in all /\ \A y \in all : y <= l BY <1>1, <1>5, LastIndex
<1>7. l \in 1..(k + Len(hops)) /\ m \in 1..Len(hops) BY <1>1, <1>4, <1>6
<1>8. k + m <= l BY <1>5, <1>6
<1> DEFINE n == Len(hops)
<1> HIDE DEF k, l, m, n
<1>9. l - k \in 1..n /\ k + (l - k) = l
  <2>1. k \in Nat /\ n \in Nat BY <1>1 DEF n
  <2>2. l \in 1..(k + n) /\ m \in 1..n BY <1>7 DEF n
  <2> QED BY <1>8, <2>1, <2>2
<1>10. l - k \in others
  <2>1. chain[l] = hops[l - k] BY <1>2, <1>9 DEF n
  <2> QED BY <1>1, <1>6, <1>9, <2>1 DEF n
<1>11. l = k + m
  <2>1. l - k <= m BY <1>4, <1>10
  <2> QED BY <1>1, <1>7, <1>8, <2>1
<1>12. chain[l] = hops[m] BY <1>2, <1>7, <1>11
<1> QED BY <1>3, <1>5, <1>12 DEF Forwarded, l, m

-----------------------------------------------------------------------------
(* What a parsed configuration and a dispatched frame are.                 *)

Clean(e) ==
  /\ e.tls = "required" => /\ CheckedDir(e) \in e.certs /\ CheckedDir(e) \in e.keys
                           /\ e.matching
  /\ ~(e.tls = "off" /\ e.bind # "loopback" /\ ~e.acknowledged)
  /\ ~MonitorThrows(e)
  /\ ~(e.requireApp /\ ~AttestEnabled(e))
  /\ ~(e.target = "arbitrary" /\ e.auth = "none" /\ ~e.requireApp)
  /\ ~(e.target = "allowlist" /\ e.listed # "valid")

LEMMA CleanConfig == ASSUME NEW e, ConfigErrors(e) = {} PROVE Clean(e)
<1>1. ParsedErrors(e) = {} /\ ~(e.tls = "required" /\ ~e.matching) BY DEF ConfigErrors
<1>2. /\ ListenerErrors(e) = {} /\ TimingErrors(e) = {} /\ AccessErrors(e) = {}
      /\ TargetErrors(e) = {}
  BY <1>1 DEF ParsedErrors
<1>3. /\ ~(e.tls = "required" /\ CheckedDir(e) \notin e.certs)
      /\ ~(e.tls = "required" /\ CheckedDir(e) \notin e.keys)
      /\ ~(e.tls = "off" /\ e.bind # "loopback" /\ ~e.acknowledged)
  <2> DEFINE rules ==
        [certificate |-> e.tls = "required" /\ CheckedDir(e) \notin e.certs,
         key         |-> e.tls = "required" /\ CheckedDir(e) \notin e.keys,
         plaintext   |-> e.tls = "off" /\ e.bind # "loopback" /\ ~e.acknowledged]
  <2>1. \A r \in DOMAIN rules : ~rules[r] BY <1>2 DEF ListenerErrors, Broken
  <2>2. {"certificate", "key", "plaintext"} \subseteq DOMAIN rules OBVIOUS
  <2>3. ~rules["certificate"] /\ ~rules["key"] /\ ~rules["plaintext"] BY <2>1, <2>2
  <2> QED BY <2>3
<1>4. ~MonitorThrows(e)
  <2> DEFINE rules ==
        [heartbeat |-> e.interval <= 0 \/ e.timeout <= e.interval,
         rates     |-> e.perConn <= 0 \/ e.perAddr < e.perConn,
         shutdown  |-> e.grace <= 0 \/ e.deadline <= e.grace]
  <2>1. \A r \in DOMAIN rules : ~rules[r] BY <1>2 DEF TimingErrors, Broken
  <2>2. "heartbeat" \in DOMAIN rules OBVIOUS
  <2>3. ~rules["heartbeat"] BY <2>1, <2>2
  <2> QED BY <2>3 DEF MonitorThrows
<1>5. /\ ~(e.requireApp /\ ~AttestEnabled(e))
      /\ ~(e.target = "arbitrary" /\ e.auth = "none" /\ ~e.requireApp)
  <2> DEFINE rules ==
        [appAuth   |-> e.requireApp /\ ~AttestEnabled(e),
         openRelay |-> e.target = "arbitrary" /\ e.auth = "none" /\ ~e.requireApp]
  <2>1. \A r \in DOMAIN rules : ~rules[r] BY <1>2 DEF AccessErrors, Broken
  <2>2. {"appAuth", "openRelay"} \subseteq DOMAIN rules OBVIOUS
  <2>3. ~rules["appAuth"] /\ ~rules["openRelay"] BY <2>1, <2>2
  <2> QED BY <2>3
<1>6. ~(e.target = "allowlist" /\ e.listed # "valid")
  <2> DEFINE rules ==
        [targets |-> e.target = "allowlist" /\ e.listed # "valid",
         ports   |-> e.target = "arbitrary" /\ e.ports = "none",
         secret  |-> e.auth = "shared-secret" /\ e.secret # "long"]
  <2>1. \A r \in DOMAIN rules : ~rules[r] BY <1>2 DEF TargetErrors, Broken
  <2>2. "targets" \in DOMAIN rules OBVIOUS
  <2>3. ~rules["targets"] BY <2>1, <2>2
  <2> QED BY <2>3
<1> QED BY <1>1, <1>3, <1>4, <1>5, <1>6 DEF Clean

(* Run where it lies, or given its paths, the program looks for its pair    *)
(* where the parser did.                                                    *)
LEMMA SameDirectory ==
  ASSUME NEW e \in Envs, Clean(e)
  PROVE  /\ e.tls = "off" => ListenerDir(e) = None /\ (e.bind = "loopback" \/ e.acknowledged)
         /\ ListenerDir(e) # None => Pair(e, ListenerDir(e))
         /\ e.tls = "required" /\ (e.layout = "same" \/ e.explicitPaths) =>
              ListenerDir(e) = CheckedDir(e) /\ e.matching
<1>1. e.tls \in {"off", "required"} BY AdmissionAssumption
<1>2. CASE e.tls = "required"
  <2>1. CheckedDir(e) \in e.certs /\ CheckedDir(e) \in e.keys /\ e.matching
    BY <1>2 DEF Clean
  <2>2. ListenerDir(e) # None => Pair(e, ListenerDir(e))
    BY <1>2 DEF ListenerDir
  <2>3. CASE e.explicitPaths
    <3>1. CheckedDir(e) = "named" BY <2>3 DEF CheckedDir
    <3>2. ListenerDir(e) = "named" BY <1>2, <2>1, <2>3, <3>1 DEF ListenerDir, Pair
    <3> QED BY <1>2, <2>1, <2>2, <3>1, <3>2
  <2>4. CASE ~e.explicitPaths
    <3>1. ASSUME e.layout = "same" PROVE ListenerDir(e) = CheckedDir(e)
      <4>1. CwdOf(e) = "app" BY <3>1 DEF CwdOf
      <4> QED BY <1>2, <2>1, <2>4, <4>1 DEF CheckedDir, ListenerDir, Pair
    <3> QED BY <1>2, <2>1, <2>2, <2>4, <3>1
  <2> QED BY <2>3, <2>4
<1>3. CASE e.tls = "off" BY <1>3 DEF ListenerDir, Clean
<1> QED BY <1>1, <1>2, <1>3

(* What Outcome says of a frame. *)
UsableFrame(f, outcome) ==
  LET given(name) == IF f.field = name THEN f.value ELSE "good"
  IN  /\ outcome = "handled" =>
           /\ f.type = "naws" => \A n \in {"width", "height"} : given(n) \in {"good", "int"}
           /\ f.type \in {"resume", "syncAck"} =>
                /\ given("lastSeq") \in {"good", "int", "zero", "big"}
                /\ given("sessionId") \in {"good", "text"}
           /\ f.type = "connect" => given("port") \in {"good", "int"} /\ given("host") \in {"good", "text"}
      /\ outcome = "forward" => ~(f.brace /\ f.json /\ f.type # "absent")

LEMMA OutcomeUsable == ASSUME NEW f PROVE UsableFrame(f, Outcome(f))
<1>1. CASE ~f.brace \/ ~f.json BY <1>1 DEF Outcome, UsableFrame
<1>2. CASE f.brace /\ f.json /\ f.type = "absent" BY <1>2 DEF UsableFrame
<1>3. CASE f.brace /\ f.json /\ f.type \in KnownTypes
  <2>1. Outcome(f) = "handled" \/ Outcome(f) = "invalid" BY <1>3 DEF Outcome, KnownTypes
  <2>2. Outcome(f) = "handled" => Satisfies(f, FieldChecks(f.type))
    BY <1>3 DEF Outcome, KnownTypes
  <2>3. Satisfies(f, FieldChecks("naws")) => \A n \in {"width", "height"} : ValueOf(f, n) \in {"good", "int"}
    BY DEF Satisfies, FieldChecks
  <2>4. Satisfies(f, FieldChecks("resume")) =>
          /\ ValueOf(f, "lastSeq") \in {"good", "int", "zero", "big"}
          /\ ValueOf(f, "sessionId") \in {"good", "text"}
    BY DEF Satisfies, FieldChecks
  <2>5. Satisfies(f, FieldChecks("syncAck")) =>
          /\ ValueOf(f, "lastSeq") \in {"good", "int", "zero", "big"}
          /\ ValueOf(f, "sessionId") \in {"good", "text"}
    BY DEF Satisfies, FieldChecks
  <2>6. Satisfies(f, FieldChecks("connect")) =>
          ValueOf(f, "port") \in {"good", "int"} /\ ValueOf(f, "host") \in {"good", "text"}
    BY DEF Satisfies, FieldChecks
  <2> QED BY <1>3, <2>1, <2>2, <2>3, <2>4, <2>5, <2>6 DEF UsableFrame, ValueOf
<1>4. CASE f.brace /\ f.json /\ f.type # "absent" /\ f.type \notin KnownTypes
  BY <1>4 DEF Outcome, UsableFrame
<1> QED BY <1>1, <1>2, <1>3, <1>4

-----------------------------------------------------------------------------
(* The invariant.                                                          *)

(* A configuration in use is that of an environment that parsed. *)
Parsed(c) == \E e \in Envs : ConfigErrors(e) = {} /\ c = ConfigOf(e)

(* What the upgrade handler has checked of a request. *)
Passed(request) ==
  /\ request \in Requests
  /\ AuthorizeSharedSecret(request, config)
  /\ config.requireApp => request.assertion = "verified"

StageInv ==
  /\ stage \in {"down", "aborted", "started", "up"}
  /\ stage = "started" => env \in Envs /\ ConfigErrors(env) = {} /\ listener = ListenerDir(env)
  /\ stage = "up" => Parsed(config)
  /\ stage # "up" => conn = None /\ event = Quiet

ClientInv ==
  conn # None => /\ conn.charged = conn.client
                 /\ config.target = "arbitrary" => conn.proven

(* What an event says of the decision behind it. *)
EventInv ==
  /\ event.kind = "http" /\ event.route \in {"debug", "diagnostic"} /\ event.status = 200 =>
       config.diagnostics /\ event.request.adminToken = "right"
  /\ event.kind = "frame" => event.outcome = Outcome(event.frame)
  /\ event.kind = "accepted" =>
       /\ Passed(event.request)
       /\ conn.client = ClientOf(event.request.peer, event.request.headers)
  /\ event.kind = "connect" =>
       /\ conn # None /\ event.target \in Targets /\ event.answers \in Seq(Address)
       /\ event.dialled = AuthorizeConnect(event.target, event.answers)

AdmissionInv == StageInv /\ ClientInv /\ EventInv

LEMMA AdmissionStart == AdmissionInit => AdmissionInv
BY DEF AdmissionInit, AdmissionInv, StageInv, ClientInv, EventInv, Quiet

(* A step that serves no one yet. *)
LEMMA BootKeeps == ASSUME AdmissionInv, NEW e \in Envs, Boot(e) PROVE AdmissionInv'
BY DEF AdmissionInv, StageInv, ClientInv, EventInv, Quiet, Boot

LEMMA ServeKeeps == ASSUME AdmissionInv, Serve PROVE AdmissionInv'
<1>1. env \in Envs /\ ConfigErrors(env) = {} BY DEF Serve, AdmissionInv, StageInv
<1>2. stage' = "up" /\ Parsed(config') BY <1>1, CleanConfig DEF Serve, Clean, Parsed
<1> QED BY <1>2 DEF Serve, AdmissionInv, StageInv, ClientInv, EventInv, Quiet

LEMMA DrainKeeps == ASSUME AdmissionInv, Drain PROVE AdmissionInv'
BY DEF AdmissionInv, StageInv, ClientInv, EventInv, Drain, front, Parsed, Passed,
       ClientOf, AuthorizeConnect

(* A parsed configuration that lets clients name targets asks for a credential. *)
LEMMA CredentialAsked ==
  ASSUME Parsed(config), config.target = "arbitrary", NEW r, Passed(r)
  PROVE  Proven(r)
<1>1. PICK e \in Envs : ConfigErrors(e) = {} /\ config = ConfigOf(e) BY DEF Parsed
<1>2. config.target = e.target /\ config.auth = e.auth /\ config.requireApp = e.requireApp
  BY <1>1 DEF ConfigOf
<1>3. Clean(e) BY <1>1, CleanConfig
<1>4. e.auth = "shared-secret" \/ e.requireApp BY <1>2, <1>3, AdmissionAssumption DEF Clean
<1> QED BY <1>2, <1>4 DEF Proven, Passed

LEMMA UpgradeKeeps == ASSUME AdmissionInv, NEW r \in Requests, Upgrade(r) PROVE AdmissionInv'
<1>1. PICK throttled \in BOOLEAN :
        IF UpgradeStatus(open, throttled, r, config) = 101 /\ StillAllowed(r)
        THEN conn' = Connection(r) /\ event' = [kind |-> "accepted", request |-> r]
        ELSE /\ conn' = None
             /\ event' = [kind |-> "refused",
                          status |-> UpgradeStatus(open, throttled, r, config)]
  BY DEF Upgrade
<1> DEFINE status == UpgradeStatus(open, throttled, r, config)
           client == ClientOf(r.peer, r.headers)
<1>2. stage = "up" /\ stage' = "up" /\ config' = config /\ Parsed(config)
  BY DEF Upgrade, front, AdmissionInv, StageInv
<1>3. StageInv' BY <1>2 DEF StageInv, Parsed
<1>4. CASE status = 101 /\ StillAllowed(r)
  <2>1. Passed(r)
    <3>1. AuthorizeSharedSecret(r, config) /\ (config.requireApp => r.assertion = "verified")
      BY <1>4 DEF UpgradeStatus
    <3> QED BY <3>1 DEF Passed
  <2>2. /\ conn' = [proven |-> Proven(r), client |-> client, charged |-> ClientOf(client, r.headers)]
        /\ event' = [kind |-> "accepted", request |-> r]
    BY <1>1, <1>4 DEF Connection
  <2>3. ClientOf(client, r.headers) = client BY ResolvedTwice DEF ClientOf
  <2>4. config.target = "arbitrary" => Proven(r) BY <1>2, <2>1, CredentialAsked
  <2>5. ClientInv' BY <1>2, <2>2, <2>3, <2>4 DEF ClientInv
  <2>6. EventInv'
    <3>1. event'.kind = "accepted" /\ event'.request = r /\ conn'.client = client BY <2>2
    <3>2. Passed(event.request)' BY <1>2, <2>1, <3>1 DEF Passed
    <3> QED BY <1>2, <3>1, <3>2 DEF EventInv, ClientOf
  <2> QED BY <1>3, <2>5, <2>6 DEF AdmissionInv
<1>5. CASE ~(status = 101 /\ StillAllowed(r))
  <2>1. conn' = None /\ event' = [kind |-> "refused", status |-> status] BY <1>1, <1>5
  <2>2. event'.kind = "refused" BY <2>1
  <2> QED BY <1>3, <2>1, <2>2 DEF AdmissionInv, ClientInv, EventInv
<1> QED BY <1>4, <1>5

LEMMA DoneKeeps == ASSUME AdmissionInv, Done PROVE AdmissionInv'
BY DEF AdmissionInv, StageInv, ClientInv, EventInv, Done, front, Parsed, Passed, Quiet

LEMMA CloseKeeps == ASSUME AdmissionInv, Close PROVE AdmissionInv'
BY DEF AdmissionInv, StageInv, ClientInv, EventInv, Close, front, Parsed, Passed, Quiet

LEMMA HttpKeeps ==
  ASSUME AdmissionInv, NEW route \in Routes, NEW r \in Requests, Http(route, r)
  PROVE  AdmissionInv'
<1> DEFINE status == HttpStatus(open, route, r, config)
<1>1. /\ stage = "up" /\ UNCHANGED <<stage, config, conn>>
      /\ event' = [kind |-> "http", route |-> route, request |-> r, status |-> status]
  BY DEF Http, front
<1>2. /\ event'.kind = "http" /\ event'.route = route /\ event'.request = r
      /\ event'.status = status
  BY <1>1
<1>3. route \in {"debug", "diagnostic"} /\ status = 200 =>
        config.diagnostics /\ r.adminToken = "right"
  BY DEF HttpStatus, DiagnosticAuthorized, DebugAuthorized
<1>4. StageInv' /\ ClientInv'
  BY <1>1 DEF AdmissionInv, StageInv, ClientInv, Parsed
<1>5. EventInv' BY <1>1, <1>2, <1>3 DEF EventInv
<1> QED BY <1>4, <1>5 DEF AdmissionInv

LEMMA FrameKeeps == ASSUME AdmissionInv, NEW f \in Frames, Frame(f) PROVE AdmissionInv'
<1>1. /\ stage = "up" /\ UNCHANGED <<stage, config, conn>>
      /\ event' = [kind |-> "frame", frame |-> f, outcome |-> Outcome(f)]
  BY DEF Frame, front, AdmissionInv, StageInv
<1>2. StageInv' /\ ClientInv'
  BY <1>1 DEF AdmissionInv, StageInv, ClientInv, Parsed
<1>3. EventInv' BY <1>1 DEF EventInv
<1> QED BY <1>2, <1>3 DEF AdmissionInv

LEMMA ConnectKeeps ==
  ASSUME AdmissionInv, NEW t \in Targets, NEW answers \in Seq(Address), Connect(t, answers)
  PROVE  AdmissionInv'
<1> DEFINE dialled == AuthorizeConnect(t, answers)
<1>1. /\ stage = "up" /\ UNCHANGED <<stage, config, conn>>
      /\ conn # None
      /\ event' = [kind |-> "connect", target |-> t, answers |-> answers, dialled |-> dialled]
  BY DEF Connect, front, AdmissionInv, StageInv
<1>2. StageInv' /\ ClientInv'
  BY <1>1 DEF AdmissionInv, StageInv, ClientInv, Parsed
<1>3. /\ event'.kind = "connect" /\ event'.target = t /\ event'.answers = answers
      /\ event'.dialled = dialled
  BY <1>1
<1>4. EventInv' BY <1>1, <1>3 DEF EventInv, AuthorizeConnect
<1> QED BY <1>2, <1>4 DEF AdmissionInv

LEMMA AdmissionStep == ASSUME AdmissionInv, [AdmissionNext]_avars PROVE AdmissionInv'
<1>1. CASE UNCHANGED avars
  BY <1>1 DEF avars, AdmissionInv, StageInv, ClientInv, EventInv, Parsed, Passed,
              ClientOf, AuthorizeConnect
<1>2. ASSUME NEW t \in Targets,
             NEW answers \in IF t.host = Name THEN Answers ELSE {<<>>}, Connect(t, answers)
      PROVE  AdmissionInv'
  <2>1. <<>> \in Seq(Address) /\ Answers \subseteq Seq(Address) BY AdmissionAssumption
  <2>2. answers \in Answers \/ answers = <<>> BY <1>2
  <2>3. answers \in Seq(Address) BY <2>1, <2>2
  <2> QED BY <1>2, <2>3, ConnectKeeps
<1> QED
  BY <1>1, <1>2, BootKeeps, ServeKeeps, DrainKeeps, UpgradeKeeps, DoneKeeps,
     CloseKeeps, HttpKeeps, FrameKeeps
  DEF AdmissionNext

(* The invariant holds of every run. *)
THEOREM AdmissionInvariant == AdmissionSpec => []AdmissionInv
<1>1. AdmissionInv /\ [AdmissionNext]_avars => AdmissionInv' BY AdmissionStep
<1> QED BY <1>1, AdmissionStart, PTL DEF AdmissionSpec

-----------------------------------------------------------------------------
(* What it gives.                                                          *)

(* parseRuntimeConfig, resolveTlsSettings and init, for every environment:  *)
(* an acknowledged plaintext listener or one with a whole pair, the pair    *)
(* that was checked when the program runs in its own directory or has       *)
(* explicit paths (elsewhere it need not be: TlsRequiredMeansTls fails),    *)
(* and handlers with the App Attest and the allowlist they need.            *)
THEOREM StartTheorem == AdmissionSpec => []StartsAsConfigured
<1>1. AdmissionInv => StartsAsConfigured
  <2> SUFFICES ASSUME AdmissionInv PROVE StartsAsConfigured OBVIOUS
  <2>1. ListenerAsConfigured
    <3>1. stage = "started" => env \in Envs /\ Clean(env) /\ listener = ListenerDir(env)
      BY CleanConfig DEF AdmissionInv, StageInv
    <3> QED BY <3>1, SameDirectory DEF ListenerAsConfigured
  <2>2. ParsedServes
    <3>1. stage # "failed" BY DEF AdmissionInv, StageInv
    <3>2. ASSUME stage = "up"
          PROVE  /\ config.requireApp => config.attest
                 /\ config.target = "allowlist" =>
                      \E target \in config.allowed : ValidateTarget(target, config)
      <4>1. PICK e \in Envs : ConfigErrors(e) = {} /\ config = ConfigOf(e)
        BY <3>2 DEF AdmissionInv, StageInv, Parsed
      <4>2. /\ config.requireApp = e.requireApp /\ config.attest = AttestEnabled(e)
            /\ config.target = e.target
            /\ config.allowed = IF e.listed = "valid" THEN AllowedTargets ELSE {}
        BY <4>1 DEF ConfigOf
      <4>3. Clean(e) BY <4>1, CleanConfig
      <4>4. config.requireApp => config.attest BY <4>2, <4>3 DEF Clean
      <4>5. ASSUME config.target = "allowlist"
            PROVE  \E target \in config.allowed : ValidateTarget(target, config)
        <5>1. config.allowed # {} BY <4>2, <4>3, <4>5, AdmissionAssumption DEF Clean
        <5> QED BY <4>5, <5>1 DEF ValidateTarget
      <4> QED BY <4>4, <4>5
    <3> QED BY <3>1, <3>2 DEF ParsedServes
  <2> QED BY <2>1, <2>2 DEF StartsAsConfigured
<1> QED BY <1>1, AdmissionInvariant, PTL

(* authorizeSharedSecret, isDiagnosticRequestAuthorized, authorizeConnect:  *)
(* nothing is had without the credential the configuration asks for.        *)
THEOREM CredentialTheorem == AdmissionSpec => []CredentialsDecide
<1>1. AdmissionInv => CredentialsDecide
  <2> SUFFICES ASSUME AdmissionInv PROVE CredentialsDecide OBVIOUS
  <2>1. HeaderDecides
    BY DEF AdmissionInv, EventInv, HeaderDecides, Passed, AuthorizeSharedSecret
  <2>2. NoOpenRelay
    <3> SUFFICES ASSUME event.kind = "connect", event.dialled # None
                 PROVE  event.target \in AllowedTargets \union {DefaultTarget} \/ conn.proven
      BY DEF NoOpenRelay
    <3>1. /\ conn # None /\ ValidateTarget(event.target, config)
      BY DEF AdmissionInv, EventInv, AuthorizeConnect
    <3>2. stage = "up" BY <3>1 DEF AdmissionInv, StageInv
    <3>3. PICK e \in Envs : config = ConfigOf(e) BY <3>2 DEF AdmissionInv, StageInv, Parsed
    <3>4. /\ config.target \in {"fixed", "allowlist", "arbitrary"}
          /\ config.default = DefaultTarget /\ config.allowed \subseteq AllowedTargets
      BY <3>3, AdmissionAssumption DEF ConfigOf
    <3>5. CASE config.target = "arbitrary" BY <3>1, <3>5 DEF AdmissionInv, ClientInv
    <3>6. CASE config.target = "fixed" BY <3>1, <3>4, <3>6 DEF ValidateTarget
    <3>7. CASE config.target = "allowlist" BY <3>1, <3>4, <3>7 DEF ValidateTarget
    <3> QED BY <3>4, <3>5, <3>6, <3>7
  <2> QED BY <2>1, <2>2 DEF CredentialsDecide
<1> QED BY <1>1, AdmissionInvariant, PTL

(* parseNewMessage, validateTyped and the schemas: a frame that reaches a   *)
(* handler has what the handler needs, whatever its fields hold.            *)
THEOREM FrameTheorem == AdmissionSpec => []DispatchedIsUsable
<1>1. AdmissionInv => DispatchedIsUsable
  BY OutcomeUsable DEF AdmissionInv, EventInv, DispatchedIsUsable, UsableFrame
<1> QED BY <1>1, AdmissionInvariant, PTL

(* resolveClientAddress, in the connection handler and the message handler: *)
(* invented hops do not change who a client is, and its frames are charged  *)
(* to the address it was accepted for.                                      *)
THEOREM ClientTheorem == AdmissionSpec => []ClientCannotForge
<1>1. AdmissionInv => ClientCannotForge
  <2> DEFINE trust == TrustLists[config.trust]
             chain == event.request.headers
  <2> SUFFICES ASSUME AdmissionInv, event.kind = "accepted", ~trust.all,
                      \E i \in DOMAIN chain.hops : ~IsTrustedPeer(chain.hops[i], trust),
                      NEW r \in Requests
               PROVE  conn.client = ClientOf(event.request.peer,
                                             [chain EXCEPT !.hops = r.headers.hops \o @])
    BY DEF AdmissionInv, ClientInv, ClientCannotForge
  <2> DEFINE peer == event.request.peer
             forged == r.headers.hops
             other == [chain EXCEPT !.hops = forged \o @]
  <2>1. conn.client = ClientOf(peer, chain) /\ event.request \in Requests
    BY DEF AdmissionInv, EventInv, Passed
  <2>2. chain \in [realIp : Address \union {None}, hops : Seq(Address)] /\ forged \in Seq(Address)
    BY <2>1, AdmissionAssumption
  <2>3. other.realIp = chain.realIp /\ other.hops = forged \o chain.hops BY <2>2
  <2>4. Forwarded(peer, other.hops, trust) = Forwarded(peer, chain.hops, trust)
    BY <2>2, <2>3, ForgedHops
  <2> QED BY <2>1, <2>3, <2>4 DEF ClientOf, ResolveClientAddress
<1> QED BY <1>1, AdmissionInvariant, PTL

(* A reading of host and answers: the addresses they could mean. *)
LEMMA ResolvedPublic ==
  ASSUME NEW host \in Address, NEW answers \in Seq(Address)
  PROVE  LET meant == IF host.form = "name" THEN ToSet(answers) ELSE {NormalizeAddress(host)}
         IN  IF meant # {} /\ \A a \in meant : Public(a)
             THEN ResolveTarget(host, answers) \in meant
             ELSE ResolveTarget(host, answers) = None
<1> DEFINE meant == IF host.form = "name" THEN ToSet(answers) ELSE {NormalizeAddress(host)}
           found == IF host.form = "name" THEN answers ELSE <<NormalizeAddress(host)>>
<1>1. NormalizeAddress(host) \in Address
  <2>1. CASE host.form = "mapped"
    <3>1. host.octets \in Quad BY <2>1, Forms DEF Name
    <3> QED BY <2>1, <3>1 DEF NormalizeAddress, V4, Address
  <2>2. CASE host.form # "mapped" BY <2>2 DEF NormalizeAddress
  <2> QED BY <2>1, <2>2
<1>2. found \in Seq(Address) BY <1>1
<1>3. meant = {found[i] : i \in DOMAIN found}
  <2>1. CASE host.form = "name" BY <2>1 DEF ToSet
  <2>2. CASE host.form # "name"
    <3>1. DOMAIN found = {1} /\ found[1] = NormalizeAddress(host) BY <2>2
    <3> QED BY <2>2, <3>1
  <2> QED BY <2>1, <2>2
<1> HIDE DEF meant
<1>4. \A i \in DOMAIN found : found[i] \in Address /\ found[i] \in meant BY <1>2, <1>3
<1>5. (\E i \in DOMAIN found : IsReservedAddress(found[i])) <=> \E a \in meant : ~Public(a)
  BY <1>3, <1>4, ReservedIsNotPublic
<1>6. found = <<>> <=> meant = {}
  <2>1. found # <<>> => 1 \in DOMAIN found BY <1>2
  <2>2. found # <<>> => meant # {} BY <1>4, <2>1
  <2>3. CASE found = <<>>
    <3>1. DOMAIN found = {} BY <2>3
    <3> QED BY <1>3, <2>3, <3>1
  <2> QED BY <2>2, <2>3
<1>7. found # <<>> => Head(found) \in meant BY <1>2, <1>3
<1>8. ResolveTarget(host, answers) =
        IF found = <<>> \/ \E i \in DOMAIN found : IsReservedAddress(found[i])
        THEN None ELSE Head(found)
  BY DEF ResolveTarget
<1> HIDE DEF found
<1> QED BY <1>5, <1>6, <1>7, <1>8 DEF meant

(* resolveTargetAddress and isReservedAddress: in arbitrary mode what is    *)
(* dialled is public, for every address and every list of DNS answers, and  *)
(* nothing public on an allowed port is refused.                            *)
THEOREM PublicTheorem == AdmissionSpec => []DialledIsPublic
<1>1. AdmissionInv => DialledIsPublic
  <2> SUFFICES ASSUME AdmissionInv, event.kind = "connect", config.target = "arbitrary"
               PROVE  LET meant == IF event.target.host.form = "name" THEN ToSet(event.answers)
                                   ELSE {NormalizeAddress(event.target.host)}
                      IN  IF /\ \E r \in config.ports : event.target.port \in r[1]..r[2]
                             /\ meant # {} /\ \A a \in meant : Public(a)
                          THEN event.dialled \in meant
                          ELSE event.dialled = None
    BY DEF DialledIsPublic
  <2> DEFINE host == event.target.host
             port == event.target.port
             meant == IF host.form = "name" THEN ToSet(event.answers) ELSE {NormalizeAddress(host)}
             InRange == \E r \in config.ports : port \in r[1]..r[2]
  <2>1. /\ conn # None /\ event.target \in Targets /\ event.answers \in Seq(Address)
        /\ event.dialled = AuthorizeConnect(event.target, event.answers)
    BY DEF AdmissionInv, EventInv
  <2>2. host \in Address /\ port \in Nat BY <2>1, AdmissionAssumption
  <2>3. config.ports \subseteq PortRanges
    <3>1. stage = "up" BY <2>1 DEF AdmissionInv, StageInv
    <3>2. PICK e \in Envs : config = ConfigOf(e) BY <3>1 DEF AdmissionInv, StageInv, Parsed
    <3> QED BY <3>2 DEF ConfigOf
  <2>4. PortIsAllowed(port, config.ports) <=> InRange
    <3>1. \A r \in config.ports : r[1] \in Nat /\ r[2] \in Nat BY <2>3, AdmissionAssumption
    <3> QED BY <2>2, <3>1 DEF PortIsAllowed
  <2>5. event.dialled = IF InRange THEN ResolveTarget(host, event.answers) ELSE None
    BY <2>1, <2>4 DEF AuthorizeConnect, ValidateTarget
  <2>6. IF meant # {} /\ \A a \in meant : Public(a)
        THEN ResolveTarget(host, event.answers) \in meant
        ELSE ResolveTarget(host, event.answers) = None
    BY <2>1, <2>2, ResolvedPublic
  <2> HIDE DEF meant, InRange
  <2>7. IF InRange /\ meant # {} /\ \A a \in meant : Public(a)
        THEN event.dialled \in meant ELSE event.dialled = None
    BY <2>5, <2>6
  <2> QED BY <2>7 DEF meant, InRange
<1> QED BY <1>1, AdmissionInvariant, PTL
=============================================================================
