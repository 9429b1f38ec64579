---------------------------- MODULE OutputProofs ----------------------------
(***************************************************************************)
(* The way of the MUD's output, for every stream and every limit: what     *)
(* telnet-parser.ts makes of the bytes, however they are cut into reads,   *)
(* and what circular-buffer.ts keeps for a client that resumes.            *)
(*                                                                         *)
(* None of the properties is inductive.  Those of the ring need that the   *)
(* pointers, the index and the byte count describe one queue (RingInv).    *)
(* Those of the parser speak of a drained stream, and between reads        *)
(* nothing is drained; StreamInv speaks of the parser as it will be when   *)
(* it has read what is on the wire.                                        *)
(***************************************************************************)
EXTENDS CircularBuffer, TelnetParser, FiniteSetTheorems, WellFoundedInduction, TLAPS

(* Numbers that are not all excluded have a least one: the induction of    *)
(* this module.                                                            *)
LEMMA Least ==
  ASSUME NEW S \in SUBSET Nat, S # {}
  PROVE  \E m \in S : \A y \in S : m <= y
<1> DEFINE R == OpToRel(<, Nat)
<1> HIDE DEF R
<1>1. IsWellFoundedOn(R, Nat) BY NatLessThanWellFounded DEF R
<1>2. PICK m \in S : \A y \in S : <<y, m>> \notin R BY <1>1, WFMin
<1>3. \A u, v \in Nat : u < v => <<u, v>> \in R
  <2> SUFFICES ASSUME NEW u \in Nat, NEW v \in Nat, u < v PROVE <<u, v>> \in R OBVIOUS
  <2>1. <<u, v>> \in Nat \X Nat /\ <<u, v>>[1] < <<u, v>>[2] OBVIOUS
  <2> QED BY <2>1, Zenon DEF R, OpToRel
<1>4. ASSUME NEW y \in S PROVE m <= y
  <2>1. ~(y < m) BY <1>2, <1>3
  <2> QED BY <2>1
<1> QED BY <1>4

-----------------------------------------------------------------------------
(* The bytes of a sequence of chunks.                                      *)

Chunk == [seq : Nat, size : Nat]

IsSums(f, s, n) == f = [k \in 0 .. n |-> IF k = 0 THEN 0 ELSE f[k - 1] + s[k].size]
Sums(s) == CHOOSE f : IsSums(f, s, Len(s))

LEMMA SumsExist == ASSUME NEW s, NEW n \in Nat PROVE \E f : IsSums(f, s, n)
<1> DEFINE S == {k \in Nat : ~\E f : IsSums(f, s, k)}
<1> SUFFICES ASSUME S # {} PROVE FALSE OBVIOUS
<1>1. PICK m \in S : \A y \in S : m <= y BY Least
<1>2. m # 0
  <2>1. IsSums([k \in 0 .. 0 |-> 0], s, 0) BY DEF IsSums
  <2> QED BY <2>1
<1>3. m - 1 \in Nat /\ m - 1 \notin S BY <1>1, <1>2
<1>4. PICK f : IsSums(f, s, m - 1) BY <1>3
<1> DEFINE g == [k \in 0 .. m |-> IF k = m THEN f[m - 1] + s[m].size ELSE f[k]]
<1>5. IsSums(g, s, m)
  <2>1. \A k \in 0 .. m - 1 : f[k] = IF k = 0 THEN 0 ELSE f[k - 1] + s[k].size BY <1>4 DEF IsSums
  <2>2. ASSUME NEW k \in 0 .. m PROVE g[k] = IF k = 0 THEN 0 ELSE g[k - 1] + s[k].size
    <3>1. CASE k = m BY <1>2, <1>3, <3>1
    <3>2. CASE k # m
      <4>1. k \in 0 .. m - 1 /\ (k # 0 => k - 1 \in 0 .. m /\ k - 1 # m) BY <3>2
      <4>2. g[k] = f[k] /\ (k # 0 => g[k - 1] = f[k - 1]) BY <3>2, <4>1
      <4> HIDE DEF g
      <4> QED BY <2>1, <4>1, <4>2
    <3> QED BY <3>1, <3>2
  <2> QED BY <2>2 DEF IsSums
<1> HIDE DEF g
<1> QED BY <1>5

LEMMA SumsAre ==
  ASSUME NEW s \in Seq(Chunk)
  PROVE  /\ Bytes(s) = Sums(s)[Len(s)]
         /\ Sums(s)[0] = 0
         /\ \A k \in 1 .. Len(s) : Sums(s)[k] = Sums(s)[k - 1] + s[k].size
<1>1. Bytes(s) = Sums(s)[Len(s)] BY DEF Bytes, Sums, IsSums
<1>2. Len(s) \in Nat OBVIOUS
<1>3. IsSums(Sums(s), s, Len(s)) BY <1>2, SumsExist DEF Sums
<1>4. \A k \in 0 .. Len(s) : Sums(s)[k] = IF k = 0 THEN 0 ELSE Sums(s)[k - 1] + s[k].size
  BY <1>3 DEF IsSums
<1> QED BY <1>1, <1>2, <1>4

LEMMA SumsNat ==
  ASSUME NEW s \in Seq(Chunk) PROVE \A k \in 0 .. Len(s) : Sums(s)[k] \in Nat
<1> DEFINE S == {k \in 0 .. Len(s) : Sums(s)[k] \notin Nat}
<1> SUFFICES ASSUME S # {} PROVE FALSE OBVIOUS
<1>0. S \in SUBSET Nat OBVIOUS
<1>1. PICK m \in S : \A y \in S : m <= y BY <1>0, Least
<1>2. m # 0 BY SumsAre
<1>3. m - 1 \in 0 .. Len(s) /\ m \in 1 .. Len(s) BY <1>2
<1>4. m - 1 \notin S BY <1>1, <1>3
<1>5. Sums(s)[m - 1] \in Nat BY <1>3, <1>4
<1>6. s[m] \in Chunk BY <1>3
<1>7. s[m].size \in Nat BY <1>6 DEF Chunk
<1>8. Sums(s)[m] \in Nat BY <1>3, <1>5, <1>7, SumsAre
<1> QED BY <1>8

(* Summing goes on where a part of the sequence begins. *)
LEMMA SumsShift ==
  ASSUME NEW s \in Seq(Chunk), NEW t \in Seq(Chunk), NEW n \in Nat, n + Len(t) <= Len(s),
         \A i \in 1 .. Len(t) : t[i] = s[n + i]
  PROVE  \A k \in 0 .. Len(t) : Sums(s)[n + k] = Sums(s)[n] + Sums(t)[k]
<1> DEFINE S == {k \in 0 .. Len(t) : Sums(s)[n + k] # Sums(s)[n] + Sums(t)[k]}
<1> SUFFICES ASSUME S # {} PROVE FALSE OBVIOUS
<1>0. S \in SUBSET Nat OBVIOUS
<1>1. PICK m \in S : \A y \in S : m <= y BY <1>0, Least
<1>2. m # 0
  <2>1. n \in 0 .. Len(s) OBVIOUS
  <2>2. Sums(s)[n] \in Nat BY <2>1, SumsNat
  <2> QED BY <2>2, SumsAre
<1>3. m - 1 \in 0 .. Len(t) /\ m \in 1 .. Len(t) /\ n + m \in 1 .. Len(s)
      /\ n \in 0 .. Len(s) /\ n + m - 1 = n + (m - 1) /\ n + (m - 1) \in 0 .. Len(s)
  BY <1>2
<1>4. m - 1 \notin S BY <1>1, <1>3
<1>5. Sums(s)[n + (m - 1)] = Sums(s)[n] + Sums(t)[m - 1] BY <1>3, <1>4
<1>6. /\ Sums(s)[n + m] = Sums(s)[n + (m - 1)] + s[n + m].size
      /\ Sums(t)[m] = Sums(t)[m - 1] + t[m].size
  BY <1>3, SumsAre
<1>7. s[n + m] \in Chunk /\ t[m] = s[n + m] BY <1>3
<1>8. t[m].size \in Nat /\ s[n + m].size = t[m].size BY <1>7 DEF Chunk
<1>9. Sums(s)[n] \in Nat /\ Sums(t)[m - 1] \in Nat BY <1>3, SumsNat
<1>10. ASSUME NEW a \in Nat, NEW b \in Nat, NEW c \in Nat PROVE (a + b) + c = a + (b + c) OBVIOUS
<1> DEFINE x == Sums(s)[n]
           y == Sums(t)[m - 1]
           z == t[m].size
<1>11. Sums(s)[n + m] = (x + y) + z /\ Sums(t)[m] = y + z BY <1>5, <1>6, <1>8
<1>12. x \in Nat /\ y \in Nat /\ z \in Nat BY <1>8, <1>9
<1> HIDE DEF x, y, z
<1>13. (x + y) + z = x + (y + z) BY <1>10, <1>12
<1>14. Sums(s)[n + m] = x + Sums(t)[m] BY <1>11, <1>13
<1> QED BY <1>14 DEF x

(* The bytes of a part, and of one chunk more. *)
LEMMA BytesOf ==
  ASSUME NEW s \in Seq(Chunk), NEW n \in 0 .. Len(s)
  PROVE  /\ Bytes(s) \in Nat /\ Sums(s)[n] \in Nat /\ Sums(s)[n] <= Bytes(s)
         /\ Bytes(SubSeq(s, 1, n)) = Sums(s)[n]
         /\ Bytes(SubSeq(s, n + 1, Len(s))) = Bytes(s) - Sums(s)[n]
<1> DEFINE u == SubSeq(s, 1, n)
           t == SubSeq(s, n + 1, Len(s))
<1>1. u \in Seq(Chunk) /\ Len(u) = n /\ \A i \in 1 .. n : u[i] = s[0 + i] OBVIOUS
<1>2. t \in Seq(Chunk) /\ Len(t) = Len(s) - n /\ \A i \in 1 .. Len(s) - n : t[i] = s[n + i] OBVIOUS
<1> HIDE DEF u, t
<1>3. Sums(s)[0 + n] = Sums(s)[0] + Sums(u)[n]
  <2>1. 0 + Len(u) <= Len(s) /\ 0 \in Nat /\ n \in 0 .. Len(u) BY <1>1
  <2>2. \A i \in 1 .. Len(u) : u[i] = s[0 + i] BY <1>1
  <2>3. \A k \in 0 .. Len(u) : Sums(s)[0 + k] = Sums(s)[0] + Sums(u)[k] BY <1>1, <2>1, <2>2, SumsShift, Zenon
  <2> QED BY <2>1, <2>3, Zenon
<1>4. Sums(s)[n + (Len(s) - n)] = Sums(s)[n] + Sums(t)[Len(s) - n]
  <2> DEFINE m == Len(s) - n
  <2>1. m \in Nat /\ n + m <= Len(s) /\ n \in Nat /\ m \in 0 .. m OBVIOUS
  <2>2. t \in Seq(Chunk) /\ Len(t) = m /\ \A i \in 1 .. m : t[i] = s[n + i] BY <1>2
  <2> HIDE DEF m
  <2>3. \A k \in 0 .. m : Sums(s)[n + k] = Sums(s)[n] + Sums(t)[k] BY <2>1, <2>2, SumsShift
  <2> QED BY <2>1, <2>3 DEF m
<1>5. Sums(s)[n] \in Nat /\ Sums(u)[n] \in Nat /\ Sums(t)[Len(s) - n] \in Nat /\ Sums(s)[Len(s)] \in Nat
  BY <1>1, <1>2, SumsNat
<1>6. Bytes(u) = Sums(u)[n] /\ Bytes(t) = Sums(t)[Len(s) - n] /\ Bytes(s) = Sums(s)[Len(s)] /\ Sums(s)[0] = 0
  BY <1>1, <1>2, SumsAre
<1>7. 0 + n = n /\ n + (Len(s) - n) = Len(s) OBVIOUS
<1> QED BY <1>3, <1>4, <1>5, <1>6, <1>7 DEF u, t

LEMMA BytesAppend ==
  ASSUME NEW s \in Seq(Chunk), NEW e \in Chunk
  PROVE  Bytes(Append(s, e)) = Bytes(s) + e.size
<1> DEFINE a == Append(s, e)
           n == Len(s)
<1>1. a \in Seq(Chunk) /\ Len(a) = n + 1 /\ n \in Nat /\ a[n + 1] = e /\ \A i \in 1 .. n : a[i] = s[i]
  OBVIOUS
<1>2. SubSeq(a, 1, n) = s BY <1>1
<1> HIDE DEF a
<1>3. n \in 0 .. Len(a) BY <1>1
<1>4. Bytes(s) = Sums(a)[n] BY <1>1, <1>2, <1>3, BytesOf
<1>5. Sums(a)[n + 1] = Sums(a)[(n + 1) - 1] + a[n + 1].size
  <2>1. n + 1 \in 1 .. Len(a) BY <1>1
  <2> QED BY <1>1, <2>1, SumsAre
<1>6. (n + 1) - 1 = n BY <1>1
<1>7. Bytes(a) = Sums(a)[n + 1] BY <1>1, SumsAre
<1> QED BY <1>1, <1>4, <1>5, <1>6, <1>7 DEF a

(* Sums grow with every chunk. *)
LEMMA FirstSum ==
  ASSUME NEW s \in Seq(Chunk), Len(s) > 0 PROVE Sums(s)[0] <= Sums(s)[1]
<1>1. 1 \in 1 .. Len(s) /\ 0 \in 0 .. Len(s) OBVIOUS
<1>2. s[1] \in Chunk BY <1>1
<1>3. s[1].size \in Nat BY <1>2 DEF Chunk
<1>4. Sums(s)[1] = Sums(s)[1 - 1] + s[1].size /\ Sums(s)[0] \in Nat BY <1>1, SumsAre, SumsNat
<1> QED BY <1>3, <1>4

-----------------------------------------------------------------------------
(* The ring.                                                               *)

LEMMA Ring == Capacity \in Nat \ {0} /\ MaxSize \in Nat /\ Sizes \subseteq Nat \ {0} /\ MaxSeq \in Nat
BY BufferAssumption

LEMMA Multiple ==
  ASSUME NEW n \in Nat, NEW d \in Nat, d > 0
  PROVE  n * d >= n /\ n * d \in Nat
OBVIOUS

(* A remainder is unique. *)
LEMMA RemainderUnique ==
  ASSUME NEW n \in Nat, NEW q \in Int, NEW r \in Nat, NEW p \in Int, NEW s \in Nat,
         r < n, s < n, n * q + r = n * p + s
  PROVE  r = s
<1>1. CASE q = p BY <1>1
<1>2. CASE q > p
  <2>1. q - p \in Nat /\ q - p > 0 BY <1>2
  <2>2. n * (q - p) >= n BY <2>1, Multiple
  <2>3. n * (q - p) = n * q - n * p OBVIOUS
  <2>4. n * q \in Int /\ n * p \in Int OBVIOUS
  <2> QED BY <2>2, <2>3, <2>4
<1>3. CASE q < p
  <2>1. p - q \in Nat /\ p - q > 0 BY <1>3
  <2>2. n * (p - q) >= n BY <2>1, Multiple
  <2>3. n * (p - q) = n * p - n * q OBVIOUS
  <2>4. n * q \in Int /\ n * p \in Int OBVIOUS
  <2> QED BY <2>2, <2>3, <2>4
<1> QED BY <1>1, <1>2, <1>3

(* Less than twice around the ring. *)
LEMMA Around ==
  ASSUME NEW x \in Nat, x < Capacity + Capacity
  PROVE  x % Capacity = IF x < Capacity THEN x ELSE x - Capacity
<1> DEFINE r == x % Capacity
           q == x \div Capacity
<1>1. r \in Nat /\ r < Capacity /\ q \in Int /\ x = Capacity * q + r BY Ring
<1> HIDE DEF r, q
<1>2. Capacity * 0 = 0 /\ Capacity * 1 = Capacity BY Ring
<1>3. CASE x < Capacity
  <2>1. Capacity * q + r = Capacity * 0 + x BY <1>1, <1>2
  <2>2. r = x BY <1>1, <1>3, <2>1, Ring, RemainderUnique
  <2> QED BY <1>3, <2>2 DEF r
<1>4. CASE ~(x < Capacity)
  <2>1. x - Capacity \in Nat /\ x - Capacity < Capacity BY <1>4, Ring
  <2>2. Capacity * q + r = Capacity * 1 + (x - Capacity) BY <1>1, <1>2, Ring
  <2>3. r = x - Capacity BY <1>1, <2>1, <2>2, Ring, RemainderUnique
  <2> QED BY <1>4, <2>3 DEF r
<1> QED BY <1>3, <1>4

(* The slot i places after h. *)
At(h, i) == (h + i) % Capacity

LEMMA AtIs ==
  ASSUME NEW h \in Slots, NEW i \in 0 .. Capacity
  PROVE  /\ At(h, i) = IF h + i < Capacity THEN h + i ELSE h + i - Capacity
         /\ At(h, i) \in Slots
<1> DEFINE x == h + i
<1>1. h \in Nat /\ h < Capacity /\ i \in Nat /\ i <= Capacity BY Ring DEF Slots
<1>2. x \in Nat /\ x < Capacity + Capacity BY <1>1, Ring
<1>3. At(h, i) = x % Capacity BY DEF At
<1> HIDE DEF x
<1>4. x % Capacity = IF x < Capacity THEN x ELSE x - Capacity BY <1>2, Around
<1>5. At(h, i) = IF h + i < Capacity THEN h + i ELSE h + i - Capacity
  BY <1>1, <1>2, <1>3, <1>4, Ring DEF x
<1> QED BY <1>1, <1>5, Ring DEF Slots

LEMMA Turn ==
  ASSUME NEW h \in Slots, NEW n \in Nat, NEW i \in Nat, n + i <= Capacity
  PROVE  At(At(h, n), i) = At(h, n + i)
<1>1. n \in 0 .. Capacity /\ i \in 0 .. Capacity /\ n + i \in 0 .. Capacity BY Ring
<1>2. h \in Nat /\ h < Capacity /\ At(h, n) \in Slots BY <1>1, AtIs, Ring DEF Slots
<1> DEFINE g == At(h, n)
<1>3. g = IF h + n < Capacity THEN h + n ELSE h + n - Capacity BY <1>1, AtIs
<1>4. At(h, n + i) = IF h + (n + i) < Capacity THEN h + (n + i) ELSE h + (n + i) - Capacity
  BY <1>1, AtIs
<1> HIDE DEF g
<1>5. g \in Slots /\ g \in Nat /\ g < Capacity BY <1>2, Ring DEF g, Slots
<1>6. At(g, i) = IF g + i < Capacity THEN g + i ELSE g + i - Capacity BY <1>1, <1>5, AtIs
<1>7. At(g, i) = At(h, n + i) BY <1>2, <1>3, <1>4, <1>5, <1>6, Ring
<1> QED BY <1>7 DEF g

LEMMA Apart ==
  ASSUME NEW h \in Slots, NEW j \in 0 .. Capacity, NEW k \in 0 .. Capacity, j < k,
         At(h, j) = At(h, k)
  PROVE  j = 0 /\ k = Capacity
<1>1. /\ At(h, j) = IF h + j < Capacity THEN h + j ELSE h + j - Capacity
      /\ At(h, k) = IF h + k < Capacity THEN h + k ELSE h + k - Capacity
  BY AtIs
<1>2. /\ h \in Nat /\ h < Capacity /\ j \in Nat /\ k \in Nat /\ j <= Capacity /\ k <= Capacity
      /\ Capacity \in Nat
  BY Ring DEF Slots
<1>3. CASE h + k < Capacity
  <2>1. h + j < Capacity BY <1>2, <1>3
  <2>2. h + j = h + k BY <1>1, <1>3, <2>1
  <2> QED BY <1>2, <2>2
<1>4. CASE ~(h + k < Capacity) /\ h + j < Capacity
  <2>1. h + j = h + k - Capacity BY <1>1, <1>4
  <2> QED BY <1>2, <2>1
<1>5. CASE ~(h + k < Capacity) /\ ~(h + j < Capacity)
  <2>1. h + j - Capacity = h + k - Capacity BY <1>1, <1>5
  <2> QED BY <1>2, <2>1
<1> QED BY <1>3, <1>4, <1>5

(* Pointers, slots, index and byte count describe one queue: the retained   *)
(* chunks, numbered in order.                                               *)
RingInv ==
  /\ chunks \in [Slots -> {Null} \union Chunk]
  /\ head \in Slots /\ count \in 0 .. Capacity /\ tail = Slot(count)
  /\ sequenceCounter \in Nat
  /\ \A i \in 1 .. count : Retained[i] \in Chunk /\ Retained[i].seq <= sequenceCounter
  /\ \A i, j \in 1 .. count : i < j => Retained[i].seq < Retained[j].seq
  /\ DOMAIN sequenceIndex = {Retained[i].seq : i \in 1 .. count}
  /\ \A i \in 1 .. count : sequenceIndex[Retained[i].seq] = Slot(i - 1)
  /\ currentSize = Bytes(Retained)

LEMMA RetainedIs ==
  ASSUME RingInv
  PROVE  /\ count \in Nat /\ count <= Capacity
         /\ Retained \in Seq(Chunk) /\ Len(Retained) = count
         /\ \A i \in 1 .. count : Retained[i] = chunks[Slot(i - 1)] /\ i - 1 \in 0 .. Capacity
         /\ \A n \in 0 .. count : Oldest(n) = SubSeq(Retained, 1, n) /\ Freed(n) = Sums(Retained)[n]
<1>0. count \in Nat /\ count <= Capacity BY Ring DEF RingInv
<1>1. Retained = [i \in 1 .. count |-> chunks[Slot(i - 1)]] BY DEF Retained, Oldest
<1>2. Retained \in [1 .. count -> Chunk]
  <2>1. DOMAIN Retained = 1 .. count BY <1>1
  <2>2. \A i \in 1 .. count : Retained[i] \in Chunk BY DEF RingInv
  <2> QED BY <1>1, <2>1, <2>2
<1>3. Retained \in Seq(Chunk) /\ Len(Retained) = count BY <1>0, <1>2
<1>4. \A i \in 1 .. count : Retained[i] = chunks[Slot(i - 1)] /\ i - 1 \in 0 .. Capacity
  BY <1>0, <1>1, Ring
<1>5. ASSUME NEW n \in 0 .. count
      PROVE  Oldest(n) = SubSeq(Retained, 1, n) /\ Freed(n) = Sums(Retained)[n]
  <2>1. Oldest(n) = [i \in 1 .. n |-> chunks[Slot(i - 1)]] BY DEF Oldest
  <2>2. SubSeq(Retained, 1, n) = [i \in 1 .. n |-> Retained[i]] BY <1>0, <1>3
  <2>3. \A i \in 1 .. n : Retained[i] = chunks[Slot(i - 1)] BY <1>0, <1>4
  <2>4. Oldest(n) = SubSeq(Retained, 1, n) BY <2>1, <2>2, <2>3
  <2> QED BY <1>0, <1>3, <2>4, BytesOf DEF Freed
<1> QED BY <1>0, <1>3, <1>4, <1>5

(* The least of some numbers is what Min returns. *)
LEMMA MinIs ==
  ASSUME NEW S \in SUBSET Nat, S # {}
  PROVE  Min(S) \in S /\ \A y \in S : Min(S) <= y
<1>1. PICK m \in S : \A y \in S : m <= y BY Least
<1> QED BY <1>1 DEF Min

LEMMA SameSize == ASSUME NEW s PROVE Log!SizeOf(s) = Bytes(s)
BY DEF Log!SizeOf, Bytes

(* When dropping k chunks makes room. *)
LEMMA FitsIs ==
  ASSUME RingInv, NEW k \in 0 .. count, NEW size \in Nat
  PROVE  Log!Fits(k, size) <=>
           currentSize - Freed(k) + size <= MaxSize /\ count - k < Capacity
<1> DEFINE kept == SubSeq(Retained, k + 1, count)
<1>1. Retained \in Seq(Chunk) /\ Len(Retained) = count /\ count \in Nat /\ Freed(k) = Sums(Retained)[k]
  BY RetainedIs
<1>2. Bytes(kept) = Bytes(Retained) - Sums(Retained)[k] BY <1>1, BytesOf
<1>3. Len(kept) = count - k BY <1>1
<1>4. currentSize = Bytes(Retained) BY DEF RingInv
<1>5. Log!Fits(k, size) <=> Log!SizeOf(kept) + size <= MaxSize /\ Len(kept) < Capacity
  BY <1>1 DEF Log!Fits
<1>6. Log!SizeOf(kept) = Bytes(kept) BY SameSize
<1> HIDE DEF kept
<1> QED BY <1>1, <1>2, <1>3, <1>4, <1>5, <1>6

(* append drops as few chunks as possible. *)
LEMMA EvictedIs ==
  ASSUME RingInv, NEW size \in Nat, size <= MaxSize
  PROVE  LET n == Evicted(size) IN
         /\ n \in 0 .. count /\ count - n < Capacity
         /\ Log!Fits(n, size) /\ \A m \in 0 .. n - 1 : ~Log!Fits(m, size)
<1> DEFINE room(k) == currentSize - Freed(k) + size <= MaxSize
           S == {k \in 0 .. count : room(k)}
           e == EvictedForSize(size)
           n == Evicted(size)
<1>1. /\ Retained \in Seq(Chunk) /\ Len(Retained) = count /\ count \in Nat /\ count <= Capacity
      /\ \A k \in 0 .. count : Freed(k) = Sums(Retained)[k]
  BY RetainedIs
<1>2. \A k \in 0 .. count : Log!Fits(k, size) <=> room(k) /\ count - k < Capacity BY FitsIs
<1>3. currentSize \in Nat /\ \A k \in 0 .. count : Freed(k) \in Nat /\ Freed(k) <= currentSize
  <2>1. currentSize = Bytes(Retained) /\ 0 \in 0 .. count BY <1>1 DEF RingInv
  <2>2. \A k \in 0 .. count : /\ Bytes(Retained) \in Nat /\ Sums(Retained)[k] \in Nat
                              /\ Sums(Retained)[k] <= Bytes(Retained)
    BY <1>1, BytesOf
  <2> QED BY <1>1, <2>1, <2>2
<1>4. S \in SUBSET Nat /\ count \in S
  <2>1. Freed(count) = currentSize BY <1>1, SumsAre DEF RingInv
  <2> QED BY <1>1, <1>3, <2>1, Ring
<1>5. e \in S /\ \A k \in S : e <= k BY <1>4, MinIs DEF EvictedForSize
<1>6. n = IF count - e = Capacity THEN e + 1 ELSE e BY DEF Evicted
<1> HIDE DEF room, e, n
<1>7. e \in 0 .. count /\ room(e) /\ \A k \in 0 .. e - 1 : ~room(k)
  <2>1. e \in 0 .. count /\ room(e) BY <1>5
  <2>2. ASSUME NEW k \in 0 .. e - 1 PROVE ~room(k)
    <3>1. k \in 0 .. count /\ ~(e <= k) BY <1>1, <2>1
    <3> QED BY <1>5, <3>1
  <2> QED BY <2>1, <2>2
<1>8. CASE count - e = Capacity
  <2>1. e = 0 /\ count = Capacity /\ n = 1 BY <1>1, <1>6, <1>7, <1>8, Ring
  <2>2. 1 \in 0 .. count /\ 0 \in 0 .. count /\ count - 1 < Capacity /\ ~(count - 0 < Capacity)
    BY <1>1, <2>1, Ring
  <2>3. Freed(0) <= Freed(1)
    <3>1. Sums(Retained)[0] <= Sums(Retained)[1] BY <1>1, <2>1, Ring, FirstSum
    <3> QED BY <1>1, <2>2, <3>1
  <2>4. room(1) BY <1>3, <1>7, <2>1, <2>2, <2>3, Ring DEF room
  <2>5. Log!Fits(1, size) /\ ~Log!Fits(0, size) BY <1>2, <2>2, <2>4
  <2>6. \A m \in 0 .. 1 - 1 : m = 0 OBVIOUS
  <2> QED BY <2>1, <2>2, <2>5, <2>6 DEF n
<1>9. CASE count - e # Capacity
  <2>1. n = e /\ count - e < Capacity BY <1>1, <1>6, <1>7, <1>9, Ring
  <2>2. \A m \in 0 .. e - 1 : m \in 0 .. count BY <1>1, <1>7
  <2>3. Log!Fits(e, size) /\ \A m \in 0 .. e - 1 : ~Log!Fits(m, size) BY <1>2, <1>7, <2>1, <2>2
  <2> QED BY <1>7, <2>1, <2>3 DEF n
<1> QED BY <1>8, <1>9

(* A stored chunk joins the ones that stay. *)
LEMMA StoredIs ==
  ASSUME RingInv, NEW size \in Sizes, AppendStored(size)
  PROVE  LET n == Evicted(size) IN
         /\ head' = At(head, n) /\ count' = count - n + 1 /\ sequenceCounter' = sequenceCounter + 1
         /\ chunks' \in [Slots -> {Null} \union Chunk]
         /\ \A i \in 0 .. count - n : At(head', i) = At(head, n + i)
         /\ tail' = At(head', count - n + 1)
         /\ Retained' = Append(SubSeq(Retained, n + 1, count), [seq |-> sequenceCounter + 1, size |-> size])
<1> DEFINE n == Evicted(size)
           e == [seq |-> sequenceCounter + 1, size |-> size]
           gone == {Slot(i) : i \in 0 .. n - 1}
           m == count - n
<1>0. size \in Nat /\ size <= MaxSize BY Ring DEF AppendStored
<1>1. n \in 0 .. count /\ m < Capacity BY <1>0, EvictedIs
<1>2. /\ sequenceCounter' = sequenceCounter + 1
      /\ chunks' = [i \in Slots |-> IF i = tail THEN e ELSE IF i \in gone THEN Null ELSE chunks[i]]
      /\ head' = At(head, n) /\ tail' = At(tail, 1) /\ count' = m + 1
  BY DEF AppendStored, Slot, At
<1>3. /\ head \in Slots /\ count \in Nat /\ count <= Capacity
      /\ tail = At(head, count) /\ sequenceCounter \in Nat /\ chunks \in [Slots -> {Null} \union Chunk]
  BY Ring DEF RingInv, Slots, Slot, At
<1>4. e \in Chunk BY <1>0, <1>3 DEF Chunk
<1>5. \A i : Slot(i) = At(head, i) BY DEF Slot, At
<1>6. \A i : Slot(i)' = At(head', i) BY DEF Slot, At
<1> HIDE DEF n, e
<1>7. n \in Nat /\ m \in Nat /\ n + m = count /\ m + 1 <= Capacity BY <1>1, <1>3, Ring
<1> HIDE DEF m
<1>8. n \in 0 .. Capacity /\ m \in 0 .. Capacity /\ count \in 0 .. Capacity /\ m \in 0 .. m
  BY <1>3, <1>7, Ring
<1>9. head' \in Slots BY <1>2, <1>3, <1>8, AtIs
<1>10. ASSUME NEW i \in 0 .. m PROVE At(head', i) = At(head, n + i)
  <2>1. i \in Nat /\ n + i <= Capacity BY <1>3, <1>7, Ring
  <2> QED BY <1>2, <1>3, <1>7, <2>1, Turn
<1>11. At(head', m) = tail BY <1>3, <1>7, <1>8, <1>10
<1>12. tail' = At(head', m + 1)
  <2>1. At(At(head', m), 1) = At(head', m + 1) BY <1>7, <1>9, Turn
  <2> QED BY <1>2, <1>11, <2>1
<1>13. tail \in Slots BY <1>3, <1>8, AtIs
<1>14. ASSUME NEW i \in 0 .. m - 1
       PROVE  At(head, n + i) \in Slots /\ At(head, n + i) # tail /\ At(head, n + i) \notin gone
  <2>1. n + i \in 0 .. Capacity /\ n + i < Capacity /\ n + i < count BY <1>3, <1>7, Ring
  <2>2. At(head, n + i) # At(head, count)
    <3>1. SUFFICES ASSUME At(head, n + i) = At(head, count) PROVE FALSE OBVIOUS
    <3>2. n + i = 0 /\ count = Capacity BY <1>3, <1>8, <2>1, <3>1, Apart
    <3> QED BY <1>7, <3>2, Ring
  <2>3. ASSUME NEW j \in 0 .. n - 1 PROVE At(head, n + i) # At(head, j)
    <3>1. j \in 0 .. Capacity /\ j < n + i BY <1>3, <1>7, Ring
    <3>2. n + i # Capacity BY <2>1, Ring
    <3> QED BY <1>3, <2>1, <3>1, <3>2, Apart
  <2>4. At(head, n + i) \in Slots BY <1>3, <2>1, AtIs
  <2> QED BY <1>3, <1>5, <2>2, <2>3, <2>4
<1>15. chunks' \in [Slots -> {Null} \union Chunk] BY <1>2, <1>3, <1>4
<1>16. ASSUME NEW i \in 0 .. m - 1 PROVE chunks'[At(head', i)] = chunks[At(head, n + i)]
  <2>1. i \in 0 .. m BY <1>7
  <2>2. At(head', i) = At(head, n + i) BY <1>10, <2>1
  <2> HIDE DEF gone
  <2> QED BY <1>2, <1>14, <2>2
<1>17. chunks'[At(head', m)] = e BY <1>2, <1>11, <1>13
<1>18. Retained' = Append(SubSeq(Retained, n + 1, count), e)
  <2> DEFINE kept == SubSeq(Retained, n + 1, count)
             new == Append(kept, e)
  <2>1. Retained \in Seq(Chunk) /\ Len(Retained) = count
        /\ \A i \in 1 .. count : Retained[i] = chunks[At(head, i - 1)]
    BY <1>5, RetainedIs
  <2>2. kept \in Seq(Chunk) /\ Len(kept) = m /\ \A i \in 1 .. m : kept[i] = Retained[n + i]
    BY <1>3, <1>7, <2>1
  <2> HIDE DEF kept
  <2>3. new \in Seq(Chunk) /\ Len(new) = m + 1
        /\ new[m + 1] = e /\ \A i \in 1 .. m : new[i] = kept[i]
    BY <1>4, <1>7, <2>2
  <2> HIDE DEF new
  <2>4. Retained' = [i \in 1 .. m + 1 |-> chunks'[At(head', i - 1)]]
    <3>1. Retained' = [i \in 1 .. count' |-> chunks'[At(head', i - 1)]]
      BY DEF Retained, Oldest, Slot, At
    <3> QED BY <1>2, <3>1
  <2>5. ASSUME NEW i \in 1 .. m + 1 PROVE chunks'[At(head', i - 1)] = new[i]
    <3>1. CASE i = m + 1
      <4>1. i - 1 = m BY <1>7, <3>1
      <4> QED BY <1>17, <2>3, <3>1, <4>1
    <3>2. CASE i # m + 1
      <4>1. i \in 1 .. m /\ i - 1 \in 0 .. m - 1 /\ n + i \in 1 .. count
        BY <1>7, <3>2
      <4>2. chunks'[At(head', i - 1)] = chunks[At(head, n + (i - 1))] BY <1>16, <4>1
      <4>3. new[i] = Retained[n + i] BY <2>2, <2>3, <4>1
      <4>4. Retained[n + i] = chunks[At(head, (n + i) - 1)] BY <2>1, <4>1
      <4>5. n + (i - 1) = (n + i) - 1 BY <1>7
      <4> QED BY <4>2, <4>3, <4>4, <4>5
    <3> QED BY <3>1, <3>2
  <2>6. new = [i \in 1 .. m + 1 |-> new[i]] BY <1>7, <2>3
  <2>7. Retained' = new BY <2>4, <2>5, <2>6
  <2> QED BY <2>7 DEF kept, new
<1> QED BY <1>2, <1>10, <1>12, <1>15, <1>18 DEF n, e, m

LEMMA BytesEmpty == Bytes(<<>>) = 0
<1> DEFINE s == <<>>
<1>1. s \in Seq(Chunk) /\ Len(s) = 0 OBVIOUS
<1> HIDE DEF s
<1>2. Bytes(s) = Sums(s)[0] /\ Sums(s)[0] = 0 BY <1>1, SumsAre
<1> QED BY <1>2 DEF s

LEMMA RingInit == Init => RingInv
<1> SUFFICES ASSUME Init PROVE RingInv OBVIOUS
<1>1. /\ chunks = [i \in Slots |-> Null] /\ head = 0 /\ tail = 0 /\ count = 0
      /\ currentSize = 0 /\ sequenceCounter = 0 /\ sequenceIndex = [s \in {} |-> 0]
  BY DEF Init
<1>2. 0 \in Slots /\ 0 \in 0 .. Capacity BY Ring DEF Slots
<1>3. Slot(count) = 0 BY <1>1, <1>2, AtIs, Ring DEF Slot, At, Slots
<1>4. Retained = <<>> BY <1>1 DEF Retained, Oldest
<1>5. Bytes(Retained) = 0 BY <1>4, BytesEmpty
<1> QED BY <1>1, <1>2, <1>3, <1>5 DEF RingInv

(* An emptied ring is as good as a new one. *)
LEMMA ClearKeeps == ASSUME RingInv, Clear PROVE RingInv' /\ Retained' = <<>>
<1>1. /\ chunks' = [i \in Slots |-> Null] /\ head' = 0 /\ tail' = 0 /\ count' = 0
      /\ currentSize' = 0 /\ sequenceCounter' = sequenceCounter /\ sequenceIndex' = [s \in {} |-> 0]
  BY DEF Clear
<1>2. 0 \in Slots /\ 0 \in 0 .. Capacity BY Ring DEF Slots
<1>3. At(0, 0) = 0 BY <1>2, AtIs, Ring
<1>4. Slot(count)' = 0 BY <1>1, <1>3 DEF Slot, At
<1>5. Retained' = <<>> BY <1>1 DEF Retained, Oldest
<1>6. Bytes(<<>>) = 0 BY BytesEmpty
<1>7. Bytes(Retained)' = 0
  <2>1. Bytes(Retained)' = Bytes(Retained') BY DEF Bytes
  <2> QED BY <1>5, <1>6, <2>1
<1> QED BY <1>1, <1>2, <1>4, <1>5, <1>7 DEF RingInv

LEMMA StoredKeeps ==
  ASSUME RingInv, NEW size \in Sizes, AppendStored(size) PROVE RingInv'
<1> DEFINE n == Evicted(size)
           m == count - n
           e == [seq |-> sequenceCounter + 1, size |-> size]
           kept == SubSeq(Retained, n + 1, count)
           R == Append(kept, e)
<1>0. size \in Nat /\ size <= MaxSize BY Ring DEF AppendStored
<1>1. n \in 0 .. count /\ m < Capacity BY <1>0, EvictedIs
<1>2. /\ head' = At(head, n) /\ count' = m + 1 /\ sequenceCounter' = sequenceCounter + 1
      /\ chunks' \in [Slots -> {Null} \union Chunk]
      /\ \A i \in 0 .. m : At(head', i) = At(head, n + i)
      /\ tail' = At(head', m + 1) /\ Retained' = R
  BY StoredIs
<1>3. /\ sequenceIndex' = [s \in {t \in DOMAIN sequenceIndex : sequenceIndex[t] \notin {Slot(i) : i \in 0 .. n - 1}}
                                  \union {sequenceCounter + 1} |->
                             IF s = sequenceCounter + 1 THEN tail ELSE sequenceIndex[s]]
      /\ currentSize' = currentSize - Freed(n) + size
  BY DEF AppendStored
<1>4. /\ head \in Slots /\ count \in Nat /\ count <= Capacity /\ tail = At(head, count)
      /\ sequenceCounter \in Nat /\ currentSize = Bytes(Retained)
      /\ Retained \in Seq(Chunk) /\ Len(Retained) = count /\ Freed(n) = Sums(Retained)[n]
  BY <1>1, RetainedIs DEF RingInv, Slot, At
<1>5. /\ \A i \in 1 .. count : Retained[i].seq <= sequenceCounter /\ Retained[i] \in Chunk
      /\ \A i, j \in 1 .. count : i < j => Retained[i].seq < Retained[j].seq
      /\ DOMAIN sequenceIndex = {Retained[i].seq : i \in 1 .. count}
      /\ \A i \in 1 .. count : sequenceIndex[Retained[i].seq] = At(head, i - 1)
  BY DEF RingInv, Slot, At
<1>6. e \in Chunk /\ e.seq = sequenceCounter + 1 /\ e.size = size BY <1>0, <1>4 DEF Chunk
<1> HIDE DEF n, e
<1>7. n \in Nat /\ m \in Nat /\ n + m = count /\ m + 1 <= Capacity BY <1>1, <1>4, Ring
<1>8. kept \in Seq(Chunk) /\ Len(kept) = m /\ \A i \in 1 .. m : kept[i] = Retained[n + i]
  BY <1>4, <1>7
<1>9. R \in Seq(Chunk) /\ Len(R) = m + 1 /\ R[m + 1] = e /\ \A i \in 1 .. m : R[i] = Retained[n + i]
  BY <1>6, <1>7, <1>8
<1>10. Bytes(R) = currentSize'
  <2>1. Bytes(kept) = Bytes(Retained) - Sums(Retained)[n] BY <1>1, <1>4, BytesOf
  <2>2. Bytes(R) = Bytes(kept) + size BY <1>6, <1>8, BytesAppend
  <2> QED BY <1>3, <1>4, <2>1, <2>2
<1> HIDE DEF m, kept, R
<1>11. \A i \in 1 .. m + 1 : i \in 1 .. m \/ i = m + 1 BY <1>7
<1>12. \A i \in 1 .. m : n + i \in 1 .. count BY <1>7
<1>13. ASSUME NEW i \in 1 .. m + 1 PROVE R[i] \in Chunk /\ R[i].seq <= sequenceCounter + 1
  <2>1. CASE i = m + 1 BY <1>4, <1>6, <1>9, <2>1
  <2>2. CASE i \in 1 .. m
    <3>1. R[i] \in Chunk /\ R[i].seq <= sequenceCounter BY <1>5, <1>9, <1>12, <2>2
    <3>2. R[i].seq \in Nat BY <3>1 DEF Chunk
    <3> QED BY <1>4, <3>1, <3>2
  <2> QED BY <1>11, <2>1, <2>2
<1>14. ASSUME NEW i \in 1 .. m + 1, NEW j \in 1 .. m + 1, i < j PROVE R[i].seq < R[j].seq
  <2>1. i \in 1 .. m BY <1>7, <1>14
  <2>2. R[i].seq <= sequenceCounter /\ R[i].seq \in Nat
    BY <1>5, <1>9, <1>12, <2>1 DEF Chunk
  <2>3. CASE j = m + 1 BY <1>4, <1>6, <1>9, <2>2, <2>3
  <2>4. CASE j \in 1 .. m
    <3>1. n + i < n + j BY <1>7, <1>14, <2>1
    <3> QED BY <1>5, <1>9, <1>12, <2>1, <2>4, <3>1
  <2> QED BY <1>11, <2>3, <2>4
<1>15. \A i \in 1 .. count : At(head, i - 1) \in {Slot(j) : j \in 0 .. n - 1} <=> i <= n
  <2> SUFFICES ASSUME NEW i \in 1 .. count
               PROVE  At(head, i - 1) \in {Slot(j) : j \in 0 .. n - 1} <=> i <= n
    OBVIOUS
  <2>1. \A j : Slot(j) = At(head, j) BY DEF Slot, At
  <2>2. CASE i <= n
    <3>1. i - 1 \in 0 .. n - 1 BY <1>7, <2>2
    <3> QED BY <2>1, <2>2, <3>1
  <2>3. CASE ~(i <= n)
    <3>1. ASSUME NEW j \in 0 .. n - 1, At(head, i - 1) = At(head, j) PROVE FALSE
      <4>1. i - 1 \in 0 .. Capacity /\ j \in 0 .. Capacity /\ j < i - 1 /\ i - 1 # Capacity
        BY <1>4, <1>7, <2>3, Ring
      <4> QED BY <1>4, <3>1, <4>1, Apart
    <3> QED BY <2>1, <2>3, <3>1
  <2> QED BY <2>2, <2>3
<1>16. {t \in DOMAIN sequenceIndex : sequenceIndex[t] \notin {Slot(i) : i \in 0 .. n - 1}} = {R[i].seq : i \in 1 .. m}
  <2> DEFINE gone == {Slot(i) : i \in 0 .. n - 1}
             K == {t \in DOMAIN sequenceIndex : sequenceIndex[t] \notin gone}
  <2>1. \A i \in 1 .. count : At(head, i - 1) \in gone <=> i <= n BY <1>15
  <2> HIDE DEF gone
  <2>2. ASSUME NEW t \in K PROVE t \in {R[i].seq : i \in 1 .. m}
    <3>1. PICK i \in 1 .. count : t = Retained[i].seq BY <1>5
    <3>2. ~(i <= n) BY <1>5, <2>1, <2>2, <3>1
    <3>3. i - n \in 1 .. m /\ n + (i - n) = i BY <1>7, <3>2
    <3>4. R[i - n] = Retained[i] BY <1>9, <3>3
    <3> QED BY <3>1, <3>3, <3>4
  <2>3. ASSUME NEW i \in 1 .. m PROVE R[i].seq \in K
    <3>1. n + i \in 1 .. count /\ ~(n + i <= n) /\ R[i] = Retained[n + i] BY <1>7, <1>9
    <3> QED BY <1>5, <2>1, <3>1
  <2>4. K = {R[i].seq : i \in 1 .. m} BY <2>2, <2>3
  <2> QED BY <2>4 DEF gone
<1>17. DOMAIN sequenceIndex' = {R[i].seq : i \in 1 .. m + 1}
  <2>1. DOMAIN sequenceIndex' = {R[i].seq : i \in 1 .. m} \union {sequenceCounter + 1} BY <1>3, <1>16
  <2>2. {R[i].seq : i \in 1 .. m + 1} = {R[i].seq : i \in 1 .. m} \union {R[m + 1].seq}
    <3>1. \A i \in 1 .. m : i \in 1 .. m + 1 BY <1>7
    <3>2. m + 1 \in 1 .. m + 1 BY <1>7
    <3> QED BY <1>11, <3>1, <3>2
  <2> QED BY <1>6, <1>9, <2>1, <2>2
<1>18. ASSUME NEW i \in 1 .. m + 1 PROVE sequenceIndex'[R[i].seq] = At(head', i - 1)
  <2>1. R[i].seq \in DOMAIN sequenceIndex' BY <1>17
  <2>2. sequenceIndex'[R[i].seq] = IF R[i].seq = sequenceCounter + 1 THEN tail ELSE sequenceIndex[R[i].seq]
    BY <1>3, <2>1
  <2>3. CASE i = m + 1
    <3>1. i - 1 = m /\ m \in 0 .. m BY <1>7, <2>3
    <3>2. At(head', m) = At(head, count) BY <1>2, <1>7, <3>1
    <3> QED BY <1>4, <1>6, <1>9, <2>2, <2>3, <3>1, <3>2
  <2>4. CASE i \in 1 .. m
    <3>1. n + i \in 1 .. count /\ R[i] = Retained[n + i] /\ i - 1 \in 0 .. m BY <1>7, <1>9, <2>4
    <3>2. R[i].seq <= sequenceCounter /\ R[i].seq \in Nat BY <1>5, <3>1 DEF Chunk
    <3>3. R[i].seq # sequenceCounter + 1 BY <1>4, <3>2
    <3>4. sequenceIndex[R[i].seq] = At(head, (n + i) - 1) BY <1>5, <3>1
    <3>5. At(head', i - 1) = At(head, n + (i - 1)) BY <1>2, <3>1
    <3>6. n + (i - 1) = (n + i) - 1 BY <1>7
    <3> QED BY <2>2, <3>3, <3>4, <3>5, <3>6
  <2> QED BY <1>11, <2>3, <2>4
<1>19. head' \in Slots
  <2>1. n \in 0 .. Capacity BY <1>4, <1>7, Ring
  <2> QED BY <1>2, <1>4, <2>1, AtIs
<1>20. Bytes(Retained)' = Bytes(R)
  <2>1. Bytes(Retained)' = Bytes(Retained') BY DEF Bytes
  <2> QED BY <1>2, <2>1
<1>21. Slot(count)' = At(head', m + 1) /\ \A i : Slot(i - 1)' = At(head', i - 1)
  BY <1>2 DEF Slot, At
<1>22. m + 1 \in 0 .. Capacity /\ sequenceCounter' \in Nat BY <1>2, <1>4, <1>7, Ring
<1> QED BY <1>2, <1>10, <1>13, <1>14, <1>17, <1>18, <1>19, <1>20, <1>21, <1>22 DEF RingInv

LEMMA RingStep == ASSUME RingInv, [Next]_vars PROVE RingInv'
<1>1. CASE Clear BY <1>1, ClearKeeps
<1>2. ASSUME UNCHANGED <<chunks, head, tail, count, currentSize, sequenceIndex>>,
             sequenceCounter' \in Nat, sequenceCounter <= sequenceCounter'
      PROVE  RingInv'
  <2>1. UNCHANGED <<chunks, head, tail, count, currentSize, sequenceIndex>> BY <1>2
  <2>2. Retained' = Retained /\ \A i : Slot(i)' = Slot(i) BY <2>1 DEF Retained, Oldest, Slot
  <2>3. Bytes(Retained)' = Bytes(Retained)
    <3>1. Bytes(Retained)' = Bytes(Retained') BY DEF Bytes
    <3> QED BY <2>2, <3>1
  <2>4. \A i \in 1 .. count : Retained[i].seq <= sequenceCounter'
    <3>1. \A i \in 1 .. count : Retained[i].seq \in Nat /\ Retained[i].seq <= sequenceCounter
      BY DEF RingInv, Chunk
    <3>2. sequenceCounter \in Nat BY DEF RingInv
    <3> QED BY <1>2, <3>1, <3>2
  <2>5. Slot(count)' = Slot(count) BY <2>1 DEF Slot
  <2> QED BY <1>2, <2>1, <2>2, <2>3, <2>4, <2>5 DEF RingInv
<1>3. sequenceCounter \in Nat BY DEF RingInv
<1>4. ASSUME NEW size \in Sizes, AppendRefused(size) PROVE RingInv'
  BY <1>2, <1>3, <1>4 DEF AppendRefused
<1>5. ASSUME NEW size \in Sizes, AppendStored(size) PROVE RingInv' BY <1>5, StoredKeeps
<1>6. CASE UNCHANGED vars BY <1>2, <1>3, <1>6 DEF vars
<1> QED BY <1>1, <1>4, <1>5, <1>6 DEF Next

(* The invariant holds of every run. *)
THEOREM RingInvariant == Spec => []RingInv
<1>1. RingInv /\ [Next]_vars => RingInv' BY RingStep
<1> QED BY <1>1, RingInit, PTL DEF Spec

(* CircularBuffer.append: the ring implements the log. *)
THEOREM LogTheorem == Spec => ImplementsLog
<1>1. Init => Log!Init
  <2> SUFFICES ASSUME Init PROVE Retained = <<>> /\ sequenceCounter = 0 BY DEF Log!Init
  <2> QED BY DEF Init, Retained, Oldest
<1>2. RingInv /\ [Next]_vars => [Log!Next]_<<Retained, sequenceCounter>>
  <2> SUFFICES ASSUME RingInv, [Next]_vars
               PROVE  Log!Next \/ UNCHANGED <<Retained, sequenceCounter>>
    OBVIOUS
  <2>1. CASE Clear
    <3>1. Retained' = <<>> /\ sequenceCounter' = sequenceCounter BY <2>1, ClearKeeps DEF Clear
    <3> QED BY <3>1 DEF Log!Next, Log!Clear
  <2>2. ASSUME NEW size \in Sizes, AppendRefused(size) PROVE Log!Next
    <3>1. size > MaxSize /\ sequenceCounter' = sequenceCounter + 1 BY <2>2 DEF AppendRefused
    <3>2. Retained' = Retained BY <2>2 DEF AppendRefused, Retained, Oldest, Slot
    <3>3. Log!Add(size) BY <3>1, <3>2 DEF Log!Add
    <3> QED BY <3>3 DEF Log!Next
  <2>3. ASSUME NEW size \in Sizes, AppendStored(size) PROVE Log!Next
    <3> DEFINE n == Evicted(size)
    <3>0. size \in Nat /\ size <= MaxSize BY <2>3, Ring DEF AppendStored
    <3>1. n \in 0 .. count /\ Log!Fits(n, size) /\ \A m \in 0 .. n - 1 : ~Log!Fits(m, size)
      BY <3>0, EvictedIs
    <3>2. /\ sequenceCounter' = sequenceCounter + 1
          /\ Retained' = Append(SubSeq(Retained, n + 1, count), [seq |-> sequenceCounter + 1, size |-> size])
      BY <2>3, StoredIs
    <3>3. Len(Retained) = count BY RetainedIs
    <3> HIDE DEF n
    <3>4. Log!Add(size) BY <3>0, <3>1, <3>2, <3>3 DEF Log!Add
    <3> QED BY <3>4 DEF Log!Next
  <2>4. CASE UNCHANGED vars BY <2>4 DEF vars, Retained, Oldest, Slot
  <2> QED BY <2>1, <2>2, <2>3, <2>4 DEF Next
<1> QED BY <1>1, <1>2, RingInvariant, PTL DEF Spec, ImplementsLog, Log!Spec

-----------------------------------------------------------------------------
(* Replay.                                                                 *)

(* Nothing is left out when everything is kept. *)
LEMMA PickAll ==
  ASSUME NEW C, NEW s \in Seq(C) PROVE Pick(s, 1 .. Len(s)) = s
<1> DEFINE n == Len(s)
<1>1. n \in Nat /\ s = [j \in 1 .. n |-> s[j]] OBVIOUS
<1>2. \A i \in 0 .. n : Cardinality(1 .. i) = i
  <2> SUFFICES ASSUME NEW i \in 0 .. n PROVE Cardinality(1 .. i) = i OBVIOUS
  <2>1. Cardinality(1 .. i) = IF 1 > i THEN 0 ELSE i - 1 + 1 BY FS_Interval
  <2> QED BY <1>1, <2>1
<1>3. \A i \in 1 .. n : {k \in 1 .. n : k <= i} = 1 .. i BY <1>1
<1>4. ASSUME NEW i \in 1 .. n PROVE Cardinality({k \in 1 .. n : k <= i}) = i
  <2>1. {k \in 1 .. n : k <= i} = 1 .. i /\ i \in 0 .. n BY <1>1, <1>3
  <2> HIDE DEF n
  <2> QED BY <1>2, <2>1
<1>5. \A j \in 1 .. n : (CHOOSE i \in 1 .. n : Cardinality({k \in 1 .. n : k <= i}) = j) = j
  <2> SUFFICES ASSUME NEW j \in 1 .. n
               PROVE  (CHOOSE i \in 1 .. n : Cardinality({k \in 1 .. n : k <= i}) = j) = j
    OBVIOUS
  <2> DEFINE at(i) == Cardinality({k \in 1 .. n : k <= i})
  <2>1. \A i \in 1 .. n : at(i) = i BY <1>4
  <2> HIDE DEF at
  <2>2. (CHOOSE i \in 1 .. n : at(i) = j) = j BY <2>1
  <2> QED BY <2>2 DEF at
<1>6. Cardinality(1 .. n) = n BY <1>1, <1>2
<1>7. Pick(s, 1 .. n) = [j \in 1 .. n |-> s[CHOOSE i \in 1 .. n : Cardinality({k \in 1 .. n : k <= i}) = j]]
  BY <1>6 DEF Pick
<1> QED BY <1>1, <1>5, <1>7

(* Replay from an offset sends the chunks behind it. *)
LEMMA ReplayFromOffset ==
  ASSUME RingInv, NEW sequence, NEW n \in 0 .. count, StartOffset(sequence) = n
  PROVE  ReplayAfter(sequence) = SubSeq(Retained, n + 1, count)
<1> DEFINE rest == [i \in 1 .. (IF n < count THEN count - n ELSE 0) |-> chunks[Slot(n + i - 1)]]
           part == SubSeq(Retained, n + 1, count)
<1>1. /\ count \in Nat /\ Retained \in Seq(Chunk) /\ Len(Retained) = count
      /\ \A i \in 1 .. count : Retained[i] = chunks[Slot(i - 1)]
  BY RetainedIs
<1>2. (IF n < count THEN count - n ELSE 0) = count - n /\ count - n \in Nat BY <1>1
<1>3. part \in Seq(Chunk) /\ Len(part) = count - n
      /\ part = [i \in 1 .. count - n |-> Retained[n + i]]
  BY <1>1
<1>4. \A i \in 1 .. count - n : Retained[n + i] = chunks[Slot(n + i - 1)]
  <2> SUFFICES ASSUME NEW i \in 1 .. count - n PROVE Retained[n + i] = chunks[Slot(n + (i - 1))] OBVIOUS
  <2>1. n + i \in 1 .. count /\ (n + i) - 1 = n + (i - 1) BY <1>1
  <2>2. Retained[n + i] = chunks[Slot((n + i) - 1)] BY <1>1, <2>1
  <2> QED BY <2>1, <2>2
<1>5. rest = part BY <1>2, <1>3, <1>4
<1>6. ReplayAfter(sequence) = Pick(rest, {i \in DOMAIN rest : rest[i] # Null}) BY DEF ReplayAfter
<1> HIDE DEF rest, part
<1>7. {i \in DOMAIN part : part[i] # Null} = 1 .. Len(part)
  <2>1. DOMAIN part = 1 .. Len(part) /\ \A i \in 1 .. Len(part) : part[i] \in Chunk
    <3>1. part \in Seq(Chunk) BY <1>3
    <3> QED BY <3>1
  <2>2. Null \notin Chunk BY BufferAssumption DEF Chunk
  <2> QED BY <2>1, <2>2
<1>8. Pick(part, 1 .. Len(part)) = part BY <1>3, PickAll
<1> QED BY <1>5, <1>6, <1>7, <1>8 DEF part

(* CircularBuffer.replayAfter: every retained chunk newer than the number    *)
(* the client reports, once and in order, and no other.                     *)
THEOREM ReplayAfterTheorem == Spec => []ReplayExact
<1>1. RingInv => ReplayExact
  <2> SUFFICES ASSUME RingInv, NEW sequence \in 0 .. MaxSeq + 1
               PROVE  \E n \in 0 .. count :
                        /\ ReplayAfter(sequence) = SubSeq(Retained, n + 1, count)
                        /\ \A i \in 1 .. count : Retained[i].seq > sequence <=> i > n
    BY DEF ReplayExact
  <2> SUFFICES \E n \in 0 .. count :
                 /\ StartOffset(sequence) = n
                 /\ \A i \in 1 .. count : Retained[i].seq > sequence <=> i > n
    BY ReplayFromOffset
  <2>1. /\ count \in Nat /\ count <= Capacity /\ head \in Slots
        /\ \A i \in 1 .. count : Retained[i] = chunks[Slot(i - 1)] /\ Retained[i].seq \in Nat
        /\ \A i, j \in 1 .. count : i < j => Retained[i].seq < Retained[j].seq
    BY RetainedIs DEF RingInv, Chunk
  <2>2. CASE sequence \in DOMAIN sequenceIndex
    <3>1. PICK i \in 1 .. count : sequence = Retained[i].seq BY <2>2 DEF RingInv
    <3>2. sequenceIndex[sequence] = At(head, i - 1) BY <3>1 DEF RingInv, Slot, At
    <3>3. StartOffset(sequence) = ((At(head, i - 1) + Capacity - head) % Capacity) + 1
      BY <2>2, <3>2 DEF StartOffset
    <3>4. i - 1 \in 0 .. Capacity /\ i - 1 \in Nat /\ i - 1 < Capacity BY <2>1, Ring
    <3>5. At(head, i - 1) = IF head + (i - 1) < Capacity THEN head + (i - 1)
                            ELSE head + (i - 1) - Capacity
      BY <2>1, <3>4, AtIs
    <3>6. head \in Nat /\ head < Capacity BY <2>1, Ring DEF Slots
    <3> DEFINE x == At(head, i - 1) + Capacity - head
    <3>7. x \in {i - 1, (i - 1) + Capacity} BY <3>4, <3>5, <3>6, Ring
    <3>8. StartOffset(sequence) = (x % Capacity) + 1 BY <3>3
    <3> HIDE DEF x
    <3>9. x \in Nat /\ x < Capacity + Capacity BY <3>4, <3>7, Ring
    <3>10. x % Capacity = IF x < Capacity THEN x ELSE x - Capacity BY <3>9, Around
    <3>11. x % Capacity = i - 1 BY <3>4, <3>7, <3>10, Ring
    <3>12. StartOffset(sequence) = i BY <3>8, <3>11
    <3>13. ASSUME NEW j \in 1 .. count PROVE Retained[j].seq > sequence <=> j > i
      BY <2>1, <3>1
    <3>14. i \in 0 .. count BY <2>1
    <3> QED BY <3>12, <3>13, <3>14
  <2>3. CASE sequence \notin DOMAIN sequenceIndex
    <3> DEFINE newer == {i \in 0 .. count - 1 : chunks[Slot(i)].seq > sequence}
    <3>1. StartOffset(sequence) = IF newer = {} THEN count ELSE Min(newer)
      BY <2>3 DEF StartOffset
    <3>2. \A i \in 1 .. count : i - 1 \in newer <=> Retained[i].seq > sequence BY <2>1
    <3>3. newer \in SUBSET Nat /\ \A k \in newer : k + 1 \in 1 .. count BY <2>1
    <3> HIDE DEF newer
    <3>4. CASE newer = {}
      <4>1. count \in 0 .. count /\ \A i \in 1 .. count : ~(i > count) BY <2>1
      <4> QED BY <3>1, <3>2, <3>4, <4>1
    <3>5. CASE newer # {}
      <4> DEFINE n == Min(newer)
      <4>1. n \in newer /\ \A k \in newer : n <= k BY <3>3, <3>5, MinIs
      <4> HIDE DEF n
      <4>2. n \in Nat /\ n + 1 \in 1 .. count /\ n \in 0 .. count /\ (n + 1) - 1 = n BY <2>1, <3>3, <4>1
      <4>3. Retained[n + 1].seq > sequence BY <3>2, <4>1, <4>2
      <4>4. ASSUME NEW i \in 1 .. count, i > n PROVE Retained[i].seq > sequence
        <5>1. i = n + 1 \/ n + 1 < i BY <4>2, <4>4
        <5> QED BY <2>1, <4>2, <4>3, <5>1
      <4>5. ASSUME NEW i \in 1 .. count, Retained[i].seq > sequence PROVE i > n
        <5>1. n <= i - 1 BY <3>2, <4>1, <4>5
        <5> QED BY <4>2, <5>1
      <4> QED BY <3>1, <3>5, <4>2, <4>4, <4>5 DEF n
    <3> QED BY <3>4, <3>5
  <2> QED BY <2>2, <2>3
<1> QED BY <1>1, RingInvariant, PTL

-----------------------------------------------------------------------------
(* A run of the parser, byte by byte.                                      *)

Octet == 0 .. 255

IsRun(f, r, d, n) == f = [k \in 0 .. n |-> IF k = 0 THEN r ELSE Byte(f[k - 1], d[k])]
RunOf(r, d) == CHOOSE f : IsRun(f, r, d, Len(d))

LEMMA RunsExist == ASSUME NEW r, NEW d, NEW n \in Nat PROVE \E f : IsRun(f, r, d, n)
<1> DEFINE S == {k \in Nat : ~\E f : IsRun(f, r, d, k)}
<1> SUFFICES ASSUME S # {} PROVE FALSE OBVIOUS
<1>1. PICK m \in S : \A y \in S : m <= y BY Least
<1>2. m # 0
  <2>1. IsRun([k \in 0 .. 0 |-> r], r, d, 0) BY DEF IsRun
  <2> QED BY <2>1
<1>3. m - 1 \in Nat /\ m - 1 \notin S BY <1>1, <1>2
<1>4. PICK f : IsRun(f, r, d, m - 1) BY <1>3
<1> DEFINE g == [k \in 0 .. m |-> IF k = m THEN Byte(f[m - 1], d[m]) ELSE f[k]]
<1>5. IsRun(g, r, d, m)
  <2>1. \A k \in 0 .. m - 1 : f[k] = IF k = 0 THEN r ELSE Byte(f[k - 1], d[k]) BY <1>4 DEF IsRun
  <2>2. ASSUME NEW k \in 0 .. m PROVE g[k] = IF k = 0 THEN r ELSE Byte(g[k - 1], d[k])
    <3>1. CASE k = m BY <1>2, <1>3, <3>1
    <3>2. CASE k # m
      <4>1. k \in 0 .. m - 1 /\ (k # 0 => k - 1 \in 0 .. m /\ k - 1 # m) BY <3>2
      <4>2. g[k] = f[k] /\ (k # 0 => g[k - 1] = f[k - 1]) BY <3>2, <4>1
      <4> HIDE DEF g
      <4> QED BY <2>1, <4>1, <4>2
    <3> QED BY <3>1, <3>2
  <2> QED BY <2>2 DEF IsRun
<1> HIDE DEF g
<1> QED BY <1>5

LEMMA RunIs ==
  ASSUME NEW r, NEW d \in Seq(Octet)
  PROVE  /\ Run(r, d) = RunOf(r, d)[Len(d)]
         /\ RunOf(r, d)[0] = r
         /\ \A k \in 1 .. Len(d) : RunOf(r, d)[k] = Byte(RunOf(r, d)[k - 1], d[k])
<1>1. Run(r, d) = RunOf(r, d)[Len(d)] BY DEF Run, RunOf, IsRun
<1>2. Len(d) \in Nat OBVIOUS
<1>3. IsRun(RunOf(r, d), r, d, Len(d)) BY <1>2, RunsExist DEF RunOf
<1>4. \A k \in 0 .. Len(d) : RunOf(r, d)[k] = IF k = 0 THEN r ELSE Byte(RunOf(r, d)[k - 1], d[k])
  BY <1>3 DEF IsRun
<1> QED BY <1>1, <1>2, <1>4

(* Two runs over the same bytes that agree once agree from there on. *)
LEMMA RunsInStep ==
  ASSUME NEW r, NEW d \in Seq(Octet), NEW t \in Seq(Octet), NEW n \in Nat,
         n + Len(t) <= Len(d), \A i \in 1 .. Len(t) : t[i] = d[n + i]
  PROVE  \A k \in 0 .. Len(t) : RunOf(r, d)[n + k] = RunOf(RunOf(r, d)[n], t)[k]
<1> DEFINE q == RunOf(r, d)[n]
<1> HIDE DEF q
<1> SUFFICES \A k \in 0 .. Len(t) : RunOf(r, d)[n + k] = RunOf(q, t)[k] BY DEF q
<1> DEFINE X == {k \in 0 .. Len(t) : RunOf(r, d)[n + k] # RunOf(q, t)[k]}
<1> SUFFICES ASSUME X # {} PROVE FALSE OBVIOUS
<1>0. X \in SUBSET Nat OBVIOUS
<1>1. PICK m \in X : \A y \in X : m <= y BY <1>0, Least
<1>2. m # 0
  <2>1. n + 0 = n /\ RunOf(r, d)[n] = q BY DEF q
  <2> QED BY <2>1, RunIs
<1>3. m - 1 \in 0 .. Len(t) /\ m \in 1 .. Len(t) /\ n + m \in 1 .. Len(d)
      /\ n + m - 1 = n + (m - 1)
  BY <1>2
<1>4. m - 1 \notin X BY <1>1, <1>3
<1>5. RunOf(r, d)[n + (m - 1)] = RunOf(q, t)[m - 1] BY <1>3, <1>4
<1>6. RunOf(r, d)[n + m] = Byte(RunOf(r, d)[n + (m - 1)], d[n + m]) BY <1>3, RunIs
<1>7. RunOf(q, t)[m] = Byte(RunOf(q, t)[m - 1], t[m]) BY <1>3, RunIs
<1>8. RunOf(r, d)[n + m] = RunOf(q, t)[m] BY <1>3, <1>5, <1>6, <1>7
<1> QED BY <1>8

(* A call on s and t is a call on s and then one on t. *)
LEMMA RunConcat ==
  ASSUME NEW r, NEW s \in Seq(Octet), NEW t \in Seq(Octet)
  PROVE  Run(r, s \o t) = Run(Run(r, s), t)
<1> DEFINE d == s \o t
<1>1. d \in Seq(Octet) OBVIOUS
<1>2. Len(d) = Len(s) + Len(t) /\ Len(s) \in Nat /\ Len(t) \in Nat OBVIOUS
<1>3. \A i \in 1 .. Len(s) : s[i] = d[0 + i] OBVIOUS
<1>4. \A i \in 1 .. Len(t) : t[i] = d[Len(s) + i] OBVIOUS
<1> HIDE DEF d
<1>5. 0 + Len(s) <= Len(d) /\ Len(s) + Len(t) <= Len(d) /\ 0 \in Nat BY <1>2
<1>6. Run(r, s) = RunOf(r, s)[Len(s)] BY RunIs
<1>7. Run(r, d) = RunOf(r, d)[Len(d)] /\ RunOf(r, d)[0] = r BY <1>1, RunIs
<1>8. \A k \in 0 .. Len(s) : RunOf(r, d)[0 + k] = RunOf(RunOf(r, d)[0], s)[k]
  BY <1>1, <1>3, <1>5, RunsInStep
<1>9. RunOf(r, d)[Len(s)] = Run(r, s) BY <1>2, <1>6, <1>7, <1>8
<1>10. \A k \in 0 .. Len(t) : RunOf(r, d)[Len(s) + k] = RunOf(RunOf(r, d)[Len(s)], t)[k]
  BY <1>1, <1>2, <1>4, <1>5, RunsInStep
<1>11. Run(Run(r, s), t) = RunOf(Run(r, s), t)[Len(t)] BY RunIs
<1> QED BY <1>2, <1>7, <1>9, <1>10, <1>11 DEF d

LEMMA RunShort ==
  ASSUME NEW r, NEW x \in Octet PROVE Run(r, <<>>) = r /\ Run(r, <<x>>) = Byte(r, x)
<1>1. Run(r, <<>>) = r
  <2>1. <<>> \in Seq(Octet) /\ Len(<<>>) = 0 OBVIOUS
  <2>2. Run(r, <<>>) = RunOf(r, <<>>)[Len(<<>>)] /\ RunOf(r, <<>>)[0] = r BY <2>1, RunIs, Zenon
  <2> QED BY <2>1, <2>2, Zenon
<1>2. <<x>> \in Seq(Octet) /\ Len(<<x>>) = 1 /\ <<x>>[1] = x OBVIOUS
<1>3. Run(r, <<x>>) = RunOf(r, <<x>>)[Len(<<x>>)] /\ RunOf(r, <<x>>)[0] = r BY <1>2, RunIs, Zenon
<1>4. 1 \in 1 .. Len(<<x>>) BY <1>2
<1>5. RunOf(r, <<x>>)[1] = Byte(RunOf(r, <<x>>)[1 - 1], <<x>>[1]) BY <1>2, <1>4, RunIs, Zenon
<1> QED BY <1>1, <1>2, <1>3, <1>5

LEMMA RunTwo ==
  ASSUME NEW r, NEW a \in Octet, NEW b \in Octet PROVE Run(r, <<a, b>>) = Byte(Byte(r, a), b)
<1>1. <<a>> \in Seq(Octet) /\ <<b>> \in Seq(Octet) OBVIOUS
<1> DEFINE c == <<a>> \o <<b>>
<1>2. c \in Seq(Octet) /\ Len(c) = 2 /\ c[1] = a /\ c[2] = b BY <1>1
<1> HIDE DEF c
<1>3. c = [i \in 1 .. 2 |-> c[i]] BY <1>2
<1>4. <<a, b>> = [i \in 1 .. 2 |-> IF i = 1 THEN a ELSE b] OBVIOUS
<1>5. ASSUME NEW i \in 1 .. 2 PROVE c[i] = IF i = 1 THEN a ELSE b
  <2>1. i = 1 \/ i = 2 OBVIOUS
  <2> QED BY <1>2, <2>1
<1>6. <<a, b>> = c BY <1>3, <1>4, <1>5
<1>7. Run(r, c) = Run(Run(r, <<a>>), <<b>>) BY <1>1, RunConcat, Zenon DEF c
<1>8. \A q : Run(q, <<a>>) = Byte(q, a) /\ Run(q, <<b>>) = Byte(q, b) BY RunShort, Zenon
<1> QED BY <1>6, <1>7, <1>8, Zenon

LEMMA RunThree ==
  ASSUME NEW r, NEW a \in Octet, NEW b \in Octet, NEW c \in Octet
  PROVE  Run(r, <<a, b, c>>) = Byte(Byte(Byte(r, a), b), c)
<1>1. <<a, b>> \in Seq(Octet) /\ <<c>> \in Seq(Octet) OBVIOUS
<1>2. <<a, b, c>> = <<a, b>> \o <<c>> BY <1>1
<1>3. Run(r, <<a, b>> \o <<c>>) = Run(Run(r, <<a, b>>), <<c>>) BY <1>1, RunConcat
<1>4. Run(r, <<a, b>>) = Byte(Byte(r, a), b) BY RunTwo, Zenon
<1>5. \A q : Run(q, <<c>>) = Byte(q, c) BY RunShort, Zenon
<1> QED BY <1>2, <1>3, <1>4, <1>5, Zenon

-----------------------------------------------------------------------------
(* The types of a call's record, and the primitives it is changed with.     *)

Word ==
  {"MUDBasher", "XTERM-256color", "MTTS 141", "client", "client_version", "CLIENT_ID",
   "CLIENT_VERSION", "XTERM_256_COLORS", "UTF_8", "UTF-8", "size", "IPADDRESS"}
(* A payload of legal size, and what is left of the terminal types. *)
Payload == {s \in Seq(Octet) : Len(s) <= MaxSubnegotiationBytes}
Names == {s \in Seq(Word) : Len(s) <= 3}
Parser ==
  [state : State, cmd : {0} \cup SB .. DONT, opt : Octet, buf : Payload, negotiated : SUBSET Octet,
   passwordMode : BOOLEAN, ttypeQueue : Names]
Mark == 0 .. 257
Message == {GmcpMessage(d) : d \in Seq(Octet)}
Answer == (Octet \X Octet) \cup (Octet \X Octet \X Word)
View ==
  [p : Parser, text : Seq(Mark), segments : Seq(Mark), messages : Seq(Message),
   replies : Seq(Answer)]

(* What the player has been or will be shown. *)
Shown(r) == r.segments \o r.text

(* Records that differ at most in how much of the text is flushed. *)
Same(r, q) ==
  r.p = q.p /\ Shown(r) = Shown(q) /\ r.messages = q.messages /\ r.replies = q.replies

Prefix(a, b) == Len(a) <= Len(b) /\ \A i \in 1 .. Len(a) : a[i] = b[i]

(* The two records after a step, the first of them from r. *)
Stepped(r, s, t) == s \in View /\ t \in View /\ Same(s, t) /\ Prefix(r.replies, s.replies)

LEMMA Fields ==
  ASSUME NEW r \in View
  PROVE  /\ r.p \in Parser /\ r.text \in Seq(Mark) /\ r.segments \in Seq(Mark)
         /\ r.messages \in Seq(Message) /\ r.replies \in Seq(Answer)
         /\ Shown(r) \in Seq(Mark)
BY DEF View, Shown

LEMMA PrefixLaws ==
  ASSUME NEW a \in Seq(Answer), NEW b \in Seq(Answer), NEW c \in Seq(Answer)
  PROVE  Prefix(a, a) /\ Prefix(a, a \o b) /\ (Prefix(a, b) /\ Prefix(b, c) => Prefix(a, c))
BY DEF Prefix

LEMMA SteppedThen ==
  ASSUME NEW r \in View, NEW s, NEW t, NEW u, NEW v, Stepped(r, s, t), Stepped(s, u, v)
  PROVE  Stepped(r, u, v)
<1>1. s \in View /\ u \in View /\ v \in View /\ Same(u, v) /\ Prefix(r.replies, s.replies)
      /\ Prefix(s.replies, u.replies)
  BY DEF Stepped
<1>2. Prefix(r.replies, u.replies)
  <2>1. r.replies \in Seq(Answer) /\ s.replies \in Seq(Answer) /\ u.replies \in Seq(Answer) BY <1>1, Fields
  <2> QED BY <1>1, <2>1, PrefixLaws
<1> QED BY <1>1, <1>2 DEF Stepped

(* r with other parser fields. *)
With(r, p) == [r EXCEPT !.p = p]

LEMMA WithIs ==
  ASSUME NEW r \in View, NEW q \in View, Same(r, q), NEW p \in Parser
  PROVE  Stepped(r, With(r, p), With(q, p)) /\ With(r, p).p = p /\ With(r, p).replies = r.replies
         /\ Shown(With(r, p)) = Shown(r) /\ With(r, p).messages = r.messages
<1>1. With(r, p) \in View /\ With(q, p) \in View BY DEF With, View
<1>2. /\ With(r, p).p = p /\ With(r, p).text = r.text /\ With(r, p).segments = r.segments
      /\ With(r, p).messages = r.messages /\ With(r, p).replies = r.replies
      /\ With(q, p).p = p /\ With(q, p).text = q.text /\ With(q, p).segments = q.segments
      /\ With(q, p).messages = q.messages /\ With(q, p).replies = q.replies
  BY DEF With, View
<1>3. Prefix(r.replies, r.replies) BY Fields, PrefixLaws
<1> QED BY <1>1, <1>2, <1>3 DEF Stepped, Same, Shown

LEMMA ToIs ==
  ASSUME NEW r \in View, NEW st \in State
  PROVE  To(r, st) = With(r, [r.p EXCEPT !.state = st]) /\ [r.p EXCEPT !.state = st] \in Parser
<1>1. r.p \in Parser BY Fields
<1> QED BY <1>1 DEF To, With, Parser, View

LEMMA ReplyIs ==
  ASSUME NEW r \in View, NEW q \in View, Same(r, q), NEW a \in Seq(Answer)
  PROVE  Stepped(r, Reply(r, a), Reply(q, a)) /\ Reply(r, a).p = r.p /\ Reply(r, a).replies = r.replies \o a
         /\ Shown(Reply(r, a)) = Shown(r) /\ Reply(r, a).messages = r.messages
<1>1. r.replies \o a \in Seq(Answer) /\ q.replies \o a \in Seq(Answer) /\ Prefix(r.replies, r.replies \o a)
  BY Fields, PrefixLaws
<1>2. Reply(r, a) \in View /\ Reply(q, a) \in View BY <1>1 DEF Reply, View
<1>3. /\ Reply(r, a).p = r.p /\ Reply(r, a).text = r.text /\ Reply(r, a).segments = r.segments
      /\ Reply(r, a).messages = r.messages /\ Reply(r, a).replies = r.replies \o a
      /\ Reply(q, a).p = q.p /\ Reply(q, a).text = q.text /\ Reply(q, a).segments = q.segments
      /\ Reply(q, a).messages = q.messages /\ Reply(q, a).replies = q.replies \o a
  BY DEF Reply, View
<1> QED BY <1>1, <1>2, <1>3 DEF Stepped, Same, Shown

LEMMA Concats ==
  ASSUME NEW x \in Seq(Mark), NEW y \in Seq(Mark), NEW b \in Mark
  PROVE  /\ x \o Append(y, b) = Append(x \o y, b) /\ Append(y, b) \in Seq(Mark)
         /\ x \o y \in Seq(Mark) /\ (x \o y) \o <<>> = x \o y /\ <<>> \in Seq(Mark)
OBVIOUS

LEMMA PushTextIs ==
  ASSUME NEW r \in View, NEW q \in View, Same(r, q), NEW b \in Octet
  PROVE  Stepped(r, PushText(r, b), PushText(q, b)) /\ PushText(r, b).p = r.p
         /\ PushText(r, b).replies = r.replies /\ PushText(r, b).messages = r.messages
         /\ Shown(PushText(r, b)) = Append(Shown(r), b)
<1>0. b \in Mark BY DEF Mark, Octet
<1>1. PushText(r, b) \in View /\ PushText(q, b) \in View
  <2>1. Append(r.text, b) \in Seq(Mark) /\ Append(q.text, b) \in Seq(Mark) BY <1>0, Fields
  <2> QED BY <2>1 DEF PushText, View
<1>2. /\ PushText(r, b).p = r.p /\ PushText(r, b).text = Append(r.text, b)
      /\ PushText(r, b).segments = r.segments
      /\ PushText(r, b).messages = r.messages /\ PushText(r, b).replies = r.replies
      /\ PushText(q, b).p = q.p /\ PushText(q, b).text = Append(q.text, b)
      /\ PushText(q, b).segments = q.segments
      /\ PushText(q, b).messages = q.messages /\ PushText(q, b).replies = q.replies
  BY DEF PushText, View
<1>3. Shown(PushText(r, b)) = Append(Shown(r), b) /\ Shown(PushText(q, b)) = Append(Shown(q), b)
  <2>0. r.text \in Seq(Mark) /\ r.segments \in Seq(Mark) /\ q.text \in Seq(Mark) /\ q.segments \in Seq(Mark)
    BY Fields, Zenon
  <2>1. r.segments \o Append(r.text, b) = Append(r.segments \o r.text, b)
    BY <1>0, <2>0, Concats, Zenon
  <2>2. q.segments \o Append(q.text, b) = Append(q.segments \o q.text, b)
    BY <1>0, <2>0, Concats, Zenon
  <2> QED BY <1>2, <2>1, <2>2 DEF Shown
<1>4. Prefix(r.replies, r.replies) BY Fields, PrefixLaws
<1> QED BY <1>1, <1>2, <1>3, <1>4 DEF Stepped, Same

LEMMA FlushTextIs ==
  ASSUME NEW r \in View
  PROVE  /\ FlushText(r) \in View /\ Same(FlushText(r), r)
         /\ FlushText(r).text = <<>> /\ FlushText(r).segments = Shown(r)
<1>1. FlushText(r) \in View
  <2>1. r.segments \o r.text \in Seq(Mark) /\ <<>> \in Seq(Mark) BY Fields
  <2> QED BY <2>1 DEF FlushText, View
<1>2. /\ FlushText(r).p = r.p /\ FlushText(r).text = <<>> /\ FlushText(r).segments = Shown(r)
      /\ FlushText(r).messages = r.messages /\ FlushText(r).replies = r.replies
  BY DEF FlushText, View, Shown
<1>3. Shown(FlushText(r)) = Shown(r) BY <1>2, Fields, Concats DEF Shown
<1> QED BY <1>1, <1>2, <1>3 DEF Same

-----------------------------------------------------------------------------
(* The replies.  A position on an option is a reply that is no              *)
(* subnegotiation.                                                          *)

Once == {GMCP, MXP, MSDP, NEW_ENV, SGA, NAWS}
Takes(x, o) == x[1] # SB /\ x[2] = o
Quiet(a, o) == \A i \in 1 .. Len(a) : ~Takes(a[i], o)
Single(a, o) == \A i, j \in 1 .. Len(a) : Takes(a[i], o) /\ Takes(a[j], o) => i = j

LEMMA QuietIsSingle == ASSUME NEW a, NEW o, Quiet(a, o) PROVE Single(a, o)
BY DEF Quiet, Single

LEMMA ConcatReplies ==
  ASSUME NEW a \in Seq(Answer), NEW b \in Seq(Answer), NEW o
  PROVE  /\ Quiet(a, o) /\ Quiet(b, o) => Quiet(a \o b, o)
         /\ Quiet(a, o) /\ Single(b, o) => Single(a \o b, o)
         /\ Single(a, o) /\ Quiet(b, o) => Single(a \o b, o)
<1>1. /\ a \o b \in Seq(Answer) /\ Len(a \o b) = Len(a) + Len(b) /\ Len(a) \in Nat /\ Len(b) \in Nat
      /\ \A i \in 1 .. Len(a) : (a \o b)[i] = a[i]
      /\ \A i \in 1 .. Len(a) + Len(b) : i > Len(a) => (a \o b)[i] = b[i - Len(a)]
  OBVIOUS
<1> DEFINE c == a \o b
<1> HIDE DEF c
<1>2. ASSUME NEW i \in 1 .. Len(c)
      PROVE  \/ i \in 1 .. Len(a) /\ c[i] = a[i]
             \/ i - Len(a) \in 1 .. Len(b) /\ c[i] = b[i - Len(a)]
  BY <1>1 DEF c
<1>3. Quiet(a, o) /\ Quiet(b, o) => Quiet(c, o) BY <1>2 DEF Quiet
<1>4. ASSUME Quiet(a, o), Single(b, o), NEW i \in 1 .. Len(c), NEW j \in 1 .. Len(c),
             Takes(c[i], o), Takes(c[j], o)
      PROVE  i = j
  <2>1. i - Len(a) \in 1 .. Len(b) /\ Takes(b[i - Len(a)], o) BY <1>2, <1>4 DEF Quiet
  <2>2. j - Len(a) \in 1 .. Len(b) /\ Takes(b[j - Len(a)], o) BY <1>2, <1>4 DEF Quiet
  <2>3. i - Len(a) = j - Len(a) BY <1>4, <2>1, <2>2 DEF Single
  <2>4. i \in Nat /\ j \in Nat BY <1>1 DEF c
  <2> QED BY <1>1, <2>3, <2>4
<1>5. ASSUME Single(a, o), Quiet(b, o), NEW i \in 1 .. Len(c), NEW j \in 1 .. Len(c),
             Takes(c[i], o), Takes(c[j], o)
      PROVE  i = j
  <2>1. i \in 1 .. Len(a) /\ Takes(a[i], o) BY <1>2, <1>5 DEF Quiet
  <2>2. j \in 1 .. Len(a) /\ Takes(a[j], o) BY <1>2, <1>5 DEF Quiet
  <2> QED BY <1>5, <2>1, <2>2 DEF Single
<1>6. Quiet(a, o) /\ Single(b, o) => Single(c, o) BY <1>4 DEF Single
<1>7. Single(a, o) /\ Quiet(b, o) => Single(c, o) BY <1>5 DEF Single
<1> QED BY <1>3, <1>6, <1>7 DEF c

(* The one position on an option, or nothing. *)
LEMMA OneReply ==
  ASSUME NEW c \in Octet, NEW x \in Octet, NEW o
  PROVE  /\ <<<<c, x>>>> \in Seq(Answer) /\ <<>> \in Seq(Answer)
         /\ Single(<<<<c, x>>>>, o) /\ (x # o => Quiet(<<<<c, x>>>>, o)) /\ Quiet(<<>>, o)
<1>1. <<c, x>> \in Answer BY DEF Answer
<1>2. <<<<c, x>>>> \in Seq(Answer) /\ Len(<<<<c, x>>>>) = 1 /\ <<<<c, x>>>>[1] = <<c, x>> BY <1>1
<1>3. <<>> \in Seq(Answer) /\ Len(<<>>) = 0 OBVIOUS
<1>4. x # o => Quiet(<<<<c, x>>>>, o)
  <2> SUFFICES ASSUME x # o, NEW i \in 1 .. 1 PROVE ~Takes(<<<<c, x>>>>[i], o) BY <1>2 DEF Quiet
  <2>1. i = 1 OBVIOUS
  <2>2. <<<<c, x>>>>[i] = <<c, x>> BY <1>2, <2>1
  <2> QED BY <2>2 DEF Takes
<1>5. Single(<<<<c, x>>>>, o) BY <1>2 DEF Single
<1>6. Quiet(<<>>, o) BY <1>3 DEF Quiet
<1> QED BY <1>2, <1>3, <1>4, <1>5, <1>6

LEMMA Singleton ==
  ASSUME NEW x \in Answer PROVE <<x>> \in Seq(Answer) /\ Len(<<x>>) = 1 /\ <<x>>[1] = x
OBVIOUS

LEMMA Triples ==
  ASSUME NEW A, NEW B, NEW x \in A, NEW y \in A, NEW v \in B
  PROVE  <<x, y, v>> \in A \X A \X B /\ <<x, y, v>>[1] = x
OBVIOUS

(* Subnegotiations take no position. *)
LEMMA SubReply ==
  ASSUME NEW x \in Octet, NEW v \in Word, NEW o
  PROVE  /\ <<SB, x, v>> \in Answer /\ <<<<SB, x, v>>>> \in Seq(Answer)
         /\ Quiet(<<<<SB, x, v>>>>, o)
<1> DEFINE y == <<SB, x, v>>
<1>1. SB \in Octet BY DEF SB, Octet
<1>2. y \in Octet \X Octet \X Word /\ y[1] = SB BY <1>1, Triples
<1> HIDE DEF y
<1>3. y \in Answer BY <1>2 DEF Answer
<1>4. <<y>> \in Seq(Answer) /\ Len(<<y>>) = 1 /\ <<y>>[1] = y BY <1>3, Singleton
<1>5. Quiet(<<y>>, o) BY <1>2, <1>4 DEF Quiet, Takes
<1> QED BY <1>3, <1>4, <1>5 DEF y

LEMMA JoinedReplies ==
  ASSUME NEW x \in Answer, NEW y \in Answer
  PROVE  <<x, y>> = <<x>> \o <<y>>
<1>0. <<x>> \in Seq(Answer) /\ <<y>> \in Seq(Answer) OBVIOUS
<1> DEFINE c == <<x>> \o <<y>>
<1>1. c \in Seq(Answer) /\ Len(c) = 2 /\ c[1] = x /\ c[2] = y BY <1>0
<1> HIDE DEF c
<1>2. c = [i \in 1 .. 2 |-> c[i]] BY <1>1
<1>3. <<x, y>> = [i \in 1 .. 2 |-> IF i = 1 THEN x ELSE y] OBVIOUS
<1>4. ASSUME NEW i \in 1 .. 2 PROVE c[i] = IF i = 1 THEN x ELSE y
  <2>1. i = 1 \/ i = 2 OBVIOUS
  <2> QED BY <1>1, <2>1
<1> QED BY <1>2, <1>3, <1>4 DEF c

-----------------------------------------------------------------------------
(* Negotiations.  All but ECHO change parser fields and reply.              *)

LEMMA OctetCodes ==
  /\ {SE, NOP, GA, SB, WILL, WONT, DO, DONT, IAC} \subseteq Octet
  /\ {ECHO, SGA, TTYPE, NAWS, NEW_ENV, CHARSET, MSDP, MCCP2, MXP, GMCP, REQUEST} \subseteq Octet
BY DEF SE, NOP, GA, SB, WILL, WONT, DO, DONT, IAC, ECHO, SGA, TTYPE, NAWS, NEW_ENV, CHARSET, MSDP,
       MCCP2, MXP, GMCP, REQUEST, Octet

Changed(r, p, a) == Reply(With(r, p), a)

LEMMA ChangedIs ==
  ASSUME NEW r \in View, NEW q \in View, Same(r, q), NEW p \in Parser, NEW a \in Seq(Answer)
  PROVE  /\ Stepped(r, Changed(r, p, a), Changed(q, p, a))
         /\ Changed(r, p, a).p = p /\ Changed(r, p, a).replies = r.replies \o a
         /\ Shown(Changed(r, p, a)) = Shown(r) /\ Changed(r, p, a).messages = r.messages
<1>1. /\ Stepped(r, With(r, p), With(q, p)) /\ With(r, p).p = p /\ With(r, p).replies = r.replies
      /\ Shown(With(r, p)) = Shown(r) /\ With(r, p).messages = r.messages
  BY WithIs
<1> DEFINE s == With(r, p)
           t == With(q, p)
<1>2. s \in View /\ t \in View /\ Same(s, t) BY <1>1 DEF Stepped
<1>3. Changed(r, p, a) = Reply(s, a) /\ Changed(q, p, a) = Reply(t, a) BY DEF Changed
<1>4. s.p = p /\ s.replies = r.replies /\ Shown(s) = Shown(r) /\ s.messages = r.messages BY <1>1
<1>5. Stepped(r, s, t) BY <1>1
<1> HIDE DEF s, t
<1>6. /\ Stepped(s, Reply(s, a), Reply(t, a)) /\ Reply(s, a).p = s.p /\ Reply(s, a).replies = s.replies \o a
      /\ Shown(Reply(s, a)) = Shown(s) /\ Reply(s, a).messages = s.messages
  BY <1>2, ReplyIs
<1>7. Stepped(r, Reply(s, a), Reply(t, a)) BY <1>5, <1>6, SteppedThen
<1> QED BY <1>3, <1>4, <1>6, <1>7

LEMMA ChangedLaws ==
  ASSUME NEW r \in View, NEW p \in Parser, NEW p2 \in Parser, NEW a \in Seq(Answer)
  PROVE  /\ Changed(r, r.p, <<>>) = r
         /\ Changed(r, r.p, a) = Reply(r, a)
         /\ Changed(r, p, <<>>) = With(r, p)
         /\ Changed(With(r, p), p2, a) = Changed(r, p2, a)
<1>1. With(r, r.p) = r BY DEF With, View
<1>2. With(With(r, p), p2) = With(r, p2) BY DEF With, View
<1>3. ASSUME NEW s \in View PROVE Reply(s, <<>>) = s
  <2>1. s.replies \o <<>> = s.replies BY Fields
  <2> QED BY <2>1 DEF Reply, View
<1>4. With(r, p) \in View BY DEF With, View
<1> QED BY <1>1, <1>2, <1>3, <1>4 DEF Changed

(* Replies that take at most one position, on the option asked for. *)
Voices(a, cmd, opt) ==
  /\ a \in Seq(Answer)
  /\ \A o : Quiet(a, o) \/ (o = opt /\ cmd \in {DO, WILL} /\ Single(a, o))

(* The change p, a of the fields p0 that a negotiation makes. *)
Told(p0, p, a, cmd, opt) ==
  /\ p \in Parser /\ a \in Seq(Answer) /\ Voices(a, cmd, opt)
  /\ p.passwordMode = p0.passwordMode /\ p.opt = p0.opt /\ p.buf = p0.buf /\ p.cmd = p0.cmd
  /\ p0.negotiated \subseteq p.negotiated
  /\ \A o \in Once : Quiet(a, o) \/ (o \notin p0.negotiated /\ o \in p.negotiated)

LEMMA NotToldIs ==
  ASSUME NEW p \in Parser, NEW cmd, NEW opt PROVE Told(p, p, <<>>, cmd, opt)
<1>1. \A o : Quiet(<<>>, o) /\ <<>> \in Seq(Answer) BY OneReply, OctetCodes
<1> QED BY <1>1 DEF Told, Voices

LEMMA Ends ==
  ASSUME NEW S, NEW t \in Seq(S), t # <<>>
  PROVE  Head(t) \in S /\ Tail(t) \in Seq(S) /\ Len(Tail(t)) <= Len(t)
OBVIOUS

LEMMA NextTtypeIs ==
  ASSUME NEW r \in View, NEW q \in View, r.p = q.p
  PROVE  \E p, a : /\ \A cmd \in {DO, WILL} : Told(r.p, p, a, cmd, TTYPE)
                   /\ \A o \in Once : Quiet(a, o)
                   /\ SendNextTtype(r) = Changed(r, p, a) /\ SendNextTtype(q) = Changed(q, p, a)
<1> DEFINE t == r.p.ttypeQueue
           name == IF t = <<>> THEN "MUDBasher" ELSE Head(t)
           rest == IF t = <<>> THEN t ELSE Tail(t)
           p == [r.p EXCEPT !.ttypeQueue = rest]
           a == <<<<WILL, TTYPE>>, <<SB, TTYPE, name>>>>
<1>1. r.p \in Parser /\ t \in Seq(Word) /\ t \in Names BY Fields DEF Parser, Names
<1>2. name \in Word
  <2>1. CASE t = <<>>
    <3>1. "MUDBasher" \in Word BY DEF Word
    <3>2. name = "MUDBasher" BY <2>1
    <3> QED BY <3>1, <3>2
  <2>2. CASE t # <<>>
    <3>1. Head(t) \in Word BY <1>1, <2>2, Ends
    <3> QED BY <2>2, <3>1
  <2> QED BY <2>1, <2>2
<1>3. rest \in Names
  <2>1. CASE t = <<>> BY <1>1, <2>1
  <2>2. CASE t # <<>>
    <3>1. Tail(t) \in Seq(Word) /\ Len(Tail(t)) <= Len(t) BY <1>1, <2>2, Ends
    <3>2. Len(t) <= 3 /\ Len(t) \in Nat /\ Len(Tail(t)) \in Nat BY <1>1, <3>1 DEF Names
    <3>3. Tail(t) \in Names BY <3>1, <3>2 DEF Names
    <3> QED BY <2>2, <3>3
  <2> QED BY <2>1, <2>2
<1> HIDE DEF name, rest
<1>4. /\ p \in Parser /\ p.passwordMode = r.p.passwordMode /\ p.negotiated = r.p.negotiated
      /\ p.opt = r.p.opt /\ p.buf = r.p.buf /\ p.cmd = r.p.cmd
  BY <1>1, <1>3 DEF Parser
<1>5. /\ a \in Seq(Answer) /\ \A o \in Once : Quiet(a, o)
      /\ \A o : Quiet(a, o) \/ (o = TTYPE /\ Single(a, o))
  <2>1. /\ <<<<WILL, TTYPE>>>> \in Seq(Answer) /\ <<WILL, TTYPE>> \in Answer
        /\ \A o : Single(<<<<WILL, TTYPE>>>>, o) /\ (TTYPE # o => Quiet(<<<<WILL, TTYPE>>>>, o))
    BY OctetCodes, OneReply DEF Answer
  <2>2. /\ <<SB, TTYPE, name>> \in Answer /\ <<<<SB, TTYPE, name>>>> \in Seq(Answer)
        /\ \A o : Quiet(<<<<SB, TTYPE, name>>>>, o)
    BY <1>2, OctetCodes, SubReply
  <2>3. a = <<<<WILL, TTYPE>>>> \o <<<<SB, TTYPE, name>>>> BY <2>1, <2>2, JoinedReplies, Zenon
  <2>4. \A o \in Once : TTYPE # o BY DEF Once, TTYPE, GMCP, MXP, MSDP, NEW_ENV, SGA, NAWS
  <2> HIDE DEF a
  <2>5. \A o : Single(a, o) /\ (TTYPE # o => Quiet(a, o)) BY <2>1, <2>2, <2>3, ConcatReplies
  <2>6. a \in Seq(Answer) BY <2>1, <2>2, <2>3
  <2> QED BY <2>4, <2>5, <2>6
<1>6. SendNextTtype(r) = Changed(r, p, a)
  BY DEF SendNextTtype, Changed, With, View, name, rest
<1>7. SendNextTtype(q) = Changed(q, p, a)
  BY DEF SendNextTtype, Changed, With, View, name, rest
<1> HIDE DEF p, a
<1>8. \A cmd \in {DO, WILL} : Told(r.p, p, a, cmd, TTYPE) BY <1>4, <1>5 DEF Told, Voices
<1> QED BY <1>5, <1>6, <1>7, <1>8

LEMMA AgreeIs ==
  ASSUME NEW cmd, NEW opt \in Octet, NEW a \in {Agree(cmd, opt), Refuse(cmd, opt)}
  PROVE  /\ a \in Seq(Answer)
         /\ \A o : Single(a, o) /\ (o # opt \/ cmd \notin {DO, WILL} => Quiet(a, o))
<1>1. /\ <<>> \in Seq(Answer) /\ \A o : Quiet(<<>>, o)
  BY OctetCodes, OneReply
<1>2. ASSUME NEW c \in {DO, WILL, WONT, DONT}
      PROVE  /\ <<<<c, opt>>>> \in Seq(Answer)
             /\ \A o : Single(<<<<c, opt>>>>, o) /\ (o # opt => Quiet(<<<<c, opt>>>>, o))
  BY OctetCodes, OneReply
<1>3. CASE cmd \in {DO, WILL}
  <2>1. PICK c \in {DO, WILL, WONT, DONT} : a = <<<<c, opt>>>>
    BY <1>3 DEF Agree, Refuse, DO, WILL, WONT, DONT
  <2> QED BY <1>2, <1>3, <2>1
<1>4. CASE cmd \notin {DO, WILL}
  <2>1. a = <<>> BY <1>4 DEF Agree, Refuse
  <2> QED BY <1>1, <2>1, QuietIsSingle
<1> QED BY <1>3, <1>4

LEMMA VoicesThenSubs ==
  ASSUME NEW cmd, NEW opt \in Octet, NEW b \in Seq(Answer), \A o : Quiet(b, o)
  PROVE  Voices(Agree(cmd, opt) \o b, cmd, opt)
<1> DEFINE a == Agree(cmd, opt)
<1>1. a \in Seq(Answer) /\ \A o : Single(a, o) /\ (o # opt \/ cmd \notin {DO, WILL} => Quiet(a, o))
  BY AgreeIs
<1> HIDE DEF a
<1>2. a \o b \in Seq(Answer) BY <1>1
<1>3. ASSUME NEW o PROVE Quiet(a \o b, o) \/ (o = opt /\ cmd \in {DO, WILL} /\ Single(a \o b, o))
  <2>1. CASE o = opt /\ cmd \in {DO, WILL} BY <1>1, <2>1, ConcatReplies
  <2>2. CASE ~(o = opt /\ cmd \in {DO, WILL}) BY <1>1, <2>2, ConcatReplies
  <2> QED BY <2>1, <2>2
<1> QED BY <1>2, <1>3 DEF Voices, a

LEMMA VoicesOne ==
  ASSUME NEW cmd \in {DO, WILL}, NEW c \in Octet, NEW opt \in Octet
  PROVE  Voices(<<<<c, opt>>>>, cmd, opt)
<1> DEFINE a == <<<<c, opt>>>>
<1>1. a \in Seq(Answer) BY OneReply
<1>2. \A o : Single(a, o) /\ (opt # o => Quiet(a, o)) BY OneReply
<1> HIDE DEF a
<1>3. Voices(a, cmd, opt) BY <1>1, <1>2 DEF Voices
<1> QED BY <1>3 DEF a

LEMMA TwoSubs ==
  ASSUME NEW x \in Octet, NEW v \in Word, NEW w \in Word
  PROVE  /\ <<<<SB, x, v>>, <<SB, x, w>>>> \in Seq(Answer)
         /\ \A o : Quiet(<<<<SB, x, v>>, <<SB, x, w>>>>, o)
<1> DEFINE y == <<SB, x, v>>
           z == <<SB, x, w>>
<1>1. /\ y \in Answer /\ z \in Answer /\ <<y>> \in Seq(Answer) /\ <<z>> \in Seq(Answer)
      /\ \A o : Quiet(<<y>>, o) /\ Quiet(<<z>>, o)
  BY SubReply
<1> HIDE DEF y, z
<1>2. <<y, z>> = <<y>> \o <<z>> BY <1>1, JoinedReplies
<1>3. <<y, z>> \in Seq(Answer) BY <1>1
<1>4. ASSUME NEW o PROVE Quiet(<<y, z>>, o)
  <2>1. Quiet(<<y>> \o <<z>>, o) BY <1>1, ConcatReplies
  <2> QED BY <1>2, <2>1
<1> QED BY <1>3, <1>4 DEF y, z

LEMMA FourSubs ==
  ASSUME NEW x \in Octet, NEW s1 \in Word, NEW s2 \in Word, NEW s3 \in Word, NEW s4 \in Word
  PROVE  LET a == <<<<SB, x, s1>>, <<SB, x, s2>>, <<SB, x, s3>>, <<SB, x, s4>>>>
         IN  a \in Seq(Answer) /\ \A o : Quiet(a, o)
<1> DEFINE y1 == <<SB, x, s1>>
           y2 == <<SB, x, s2>>
           y3 == <<SB, x, s3>>
           y4 == <<SB, x, s4>>
<1>1. y1 \in Answer /\ y2 \in Answer /\ y3 \in Answer /\ y4 \in Answer BY SubReply
<1>2. y1[1] = SB /\ y2[1] = SB /\ y3[1] = SB /\ y4[1] = SB OBVIOUS
<1> HIDE DEF y1, y2, y3, y4
<1> DEFINE a == <<y1, y2, y3, y4>>
<1>3. a[1] = y1 /\ a[2] = y2 /\ a[3] = y3 /\ a[4] = y4 /\ Len(a) = 4 OBVIOUS
<1>4. a \in Seq(Answer) BY <1>1
<1> HIDE DEF a
<1>5. ASSUME NEW o PROVE Quiet(a, o)
  <2>1. ASSUME NEW i \in 1 .. 4 PROVE a[i][1] = SB
    <3>1. i = 1 \/ i = 2 \/ i = 3 \/ i = 4 OBVIOUS
    <3> QED BY <1>2, <1>3, <3>1
  <2> QED BY <1>3, <2>1 DEF Quiet, Takes
<1> QED BY <1>4, <1>5 DEF a, y1, y2, y3, y4

(* What FirstAnswer replies, but for a terminal type. *)
FirstReplies(cmd, opt) ==
  CASE opt = GMCP    -> Agree(cmd, opt) \o <<<<SB, GMCP, "client">>, <<SB, GMCP, "client_version">>>>
    [] opt = MXP     -> Refuse(cmd, opt)
    [] opt = NEW_ENV -> Agree(cmd, opt)
    [] opt = MSDP    -> Agree(cmd, opt) \o
                                 <<<<SB, MSDP, "CLIENT_ID">>, <<SB, MSDP, "CLIENT_VERSION">>,
                                   <<SB, MSDP, "XTERM_256_COLORS">>, <<SB, MSDP, "UTF_8">>>>
    [] opt = SGA     -> <<<<WONT, SGA>>>>
    [] opt = NAWS    -> IF cmd = DO THEN <<<<SB, NAWS, "size">>>> ELSE <<<<WONT, NAWS>>>>

LEMMA FirstRepliesAre ==
  ASSUME NEW cmd, NEW opt \in Once, Answered(cmd, opt)
  PROVE  /\ Voices(FirstReplies(cmd, opt), cmd, opt)
         /\ \A r : FirstAnswer(r, cmd, opt) = Reply(r, FirstReplies(cmd, opt))
<1> USE DEF GMCP, MXP, MSDP, NEW_ENV, SGA, NAWS, TTYPE
<1>0. /\ GMCP \in Octet /\ MXP \in Octet /\ MSDP \in Octet /\ NEW_ENV \in Octet /\ SGA \in Octet
      /\ NAWS \in Octet
  BY OctetCodes
<1>1. CASE opt = GMCP
  <2>1. FirstReplies(cmd, opt) = Agree(cmd, opt) \o <<<<SB, GMCP, "client">>, <<SB, GMCP, "client_version">>>>
    BY <1>1 DEF FirstReplies
  <2>2. \A r : FirstAnswer(r, cmd, opt) = Reply(r, FirstReplies(cmd, opt))
    BY <1>1 DEF FirstAnswer, FirstReplies
  <2>3. "client" \in Word /\ "client_version" \in Word BY DEF Word
  <2> DEFINE b == <<<<SB, GMCP, "client">>, <<SB, GMCP, "client_version">>>>
  <2>5. b \in Seq(Answer) /\ \A o : Quiet(b, o) BY <1>0, <2>3, TwoSubs
  <2>6. FirstReplies(cmd, opt) = Agree(cmd, opt) \o b /\ opt \in Octet BY <1>0, <1>1, <2>1
  <2> HIDE DEF b
  <2>7. Voices(Agree(cmd, opt) \o b, cmd, opt) BY <2>5, <2>6, VoicesThenSubs
  <2>4. Voices(FirstReplies(cmd, opt), cmd, opt) BY <2>6, <2>7
  <2> QED BY <2>2, <2>4
<1>2. CASE opt = MXP
  <2>1. FirstReplies(cmd, opt) = Refuse(cmd, opt) BY <1>2 DEF FirstReplies
  <2>2. \A r : FirstAnswer(r, cmd, opt) = Reply(r, FirstReplies(cmd, opt)) BY <1>2, <2>1 DEF FirstAnswer
  <2>4. Refuse(cmd, opt) \in {Agree(cmd, opt), Refuse(cmd, opt)} OBVIOUS
  <2>3. Voices(FirstReplies(cmd, opt), cmd, opt)
    BY <1>0, <1>2, <2>1, <2>4, AgreeIs DEF Voices
  <2> QED BY <2>2, <2>3
<1>3. CASE opt = NEW_ENV
  <2>1. FirstReplies(cmd, opt) = Agree(cmd, opt) BY <1>3 DEF FirstReplies
  <2>2. \A r : FirstAnswer(r, cmd, opt) = Reply(r, FirstReplies(cmd, opt)) BY <1>3, <2>1 DEF FirstAnswer
  <2>3. Voices(FirstReplies(cmd, opt), cmd, opt) BY <1>0, <1>3, <2>1, AgreeIs DEF Voices
  <2> QED BY <2>2, <2>3
<1>4. CASE opt = MSDP
  <2> DEFINE x == <<SB, MSDP, "CLIENT_ID">>
             y == <<SB, MSDP, "CLIENT_VERSION">>
             v == <<SB, MSDP, "XTERM_256_COLORS">>
             w == <<SB, MSDP, "UTF_8">>
  <2>1. FirstReplies(cmd, opt) = Agree(cmd, opt) \o <<x, y, v, w>> BY <1>4 DEF FirstReplies
  <2>2. \A r : FirstAnswer(r, cmd, opt) = Reply(r, FirstReplies(cmd, opt))
    BY <1>4 DEF FirstAnswer, FirstReplies
  <2>3. "CLIENT_ID" \in Word /\ "CLIENT_VERSION" \in Word /\ "XTERM_256_COLORS" \in Word /\ "UTF_8" \in Word
    BY DEF Word
  <2> DEFINE b == <<x, y, v, w>>
  <2>4. b \in Seq(Answer) /\ \A o : Quiet(b, o) BY <1>0, <2>3, FourSubs
  <2>5. FirstReplies(cmd, opt) = Agree(cmd, opt) \o b /\ opt \in Octet BY <1>0, <1>4, <2>1
  <2> HIDE DEF b
  <2>6. Voices(Agree(cmd, opt) \o b, cmd, opt) BY <2>4, <2>5, VoicesThenSubs
  <2>9. Voices(FirstReplies(cmd, opt), cmd, opt) BY <2>5, <2>6
  <2> QED BY <2>2, <2>9
<1>5. CASE opt = SGA
  <2>1. FirstReplies(cmd, opt) = <<<<WONT, SGA>>>> /\ cmd = WILL BY <1>5 DEF FirstReplies, Answered
  <2>2. \A r : FirstAnswer(r, cmd, opt) = Reply(r, FirstReplies(cmd, opt)) BY <1>5, <2>1 DEF FirstAnswer
  <2>3. Voices(FirstReplies(cmd, opt), cmd, opt) BY <1>0, <1>5, <2>1, OctetCodes, VoicesOne
  <2> QED BY <2>2, <2>3
<1>6. CASE opt = NAWS
  <2>1. /\ FirstReplies(cmd, opt) = IF cmd = DO THEN <<<<SB, NAWS, "size">>>> ELSE <<<<WONT, NAWS>>>>
        /\ cmd \in {DO, WILL}
    BY <1>6 DEF FirstReplies, Answered
  <2>2. \A r : FirstAnswer(r, cmd, opt) = Reply(r, FirstReplies(cmd, opt)) BY <1>6, <2>1 DEF FirstAnswer
  <2>3. CASE cmd = DO
    <3>1. "size" \in Word BY DEF Word
    <3>2. Voices(FirstReplies(cmd, opt), cmd, opt) BY <1>0, <2>1, <2>3, <3>1, SubReply DEF Voices
    <3> QED BY <2>2, <3>2
  <2>4. CASE cmd # DO
    <3>1. Voices(FirstReplies(cmd, opt), cmd, opt) BY <1>0, <1>6, <2>1, <2>4, OctetCodes, VoicesOne
    <3> QED BY <2>2, <3>1
  <2> QED BY <2>3, <2>4
<1> QED BY <1>1, <1>2, <1>3, <1>4, <1>5, <1>6 DEF Once

(* A negotiation of any option but ECHO. *)
LEMMA NegotiationIs ==
  ASSUME NEW r \in View, NEW q \in View, r.p = q.p, NEW cmd, NEW opt \in Octet, opt # ECHO
  PROVE  \E p, a : /\ Told(r.p, p, a, cmd, opt)
                   /\ HandleNegotiation(r, cmd, opt) = Changed(r, p, a)
                   /\ HandleNegotiation(q, cmd, opt) = Changed(q, p, a)
<1> DEFINE Known == {GMCP, TTYPE, MSDP, MXP, NEW_ENV, SGA, NAWS}
<1>0. r.p \in Parser BY Fields
<1>1. ASSUME HandleNegotiation(r, cmd, opt) = r, HandleNegotiation(q, cmd, opt) = q
      PROVE  \E p, a : /\ Told(r.p, p, a, cmd, opt)
                       /\ HandleNegotiation(r, cmd, opt) = Changed(r, p, a)
                       /\ HandleNegotiation(q, cmd, opt) = Changed(q, p, a)
  <2>1. Changed(r, r.p, <<>>) = r /\ Changed(q, r.p, <<>>) = q
    <3>1. <<>> \in Seq(Answer) BY OctetCodes, OneReply
    <3> QED BY <1>0, <3>1, ChangedLaws
  <2>2. Told(r.p, r.p, <<>>, cmd, opt) BY <1>0, NotToldIs
  <2> QED BY <1>1, <2>1, <2>2
<1>2. ASSUME NEW a \in Seq(Answer), Voices(a, cmd, opt), \A o \in Once : Quiet(a, o),
             HandleNegotiation(r, cmd, opt) = Reply(r, a), HandleNegotiation(q, cmd, opt) = Reply(q, a)
      PROVE  \E p, b : /\ Told(r.p, p, b, cmd, opt)
                       /\ HandleNegotiation(r, cmd, opt) = Changed(r, p, b)
                       /\ HandleNegotiation(q, cmd, opt) = Changed(q, p, b)
  <2>1. Changed(r, r.p, a) = Reply(r, a) /\ Changed(q, r.p, a) = Reply(q, a) BY <1>0, <1>2, ChangedLaws
  <2>2. Told(r.p, r.p, a, cmd, opt) BY <1>0, <1>2 DEF Told
  <2> QED BY <1>2, <2>1, <2>2
<1>3. CASE opt = MCCP2
  <2>1. HandleNegotiation(r, cmd, opt) = r /\ HandleNegotiation(q, cmd, opt) = q
    <3>1. opt # CHARSET /\ opt \notin Known
      BY <1>3 DEF CHARSET, MCCP2, GMCP, TTYPE, MSDP, MXP, NEW_ENV, SGA, NAWS
    <3> QED BY <1>3, <3>1, Zenon DEF HandleNegotiation
  <2> QED BY <1>1, <2>1
<1>4. CASE opt = CHARSET
  <2>0. opt # MCCP2 /\ opt \notin Known
    BY <1>4 DEF CHARSET, MCCP2, GMCP, TTYPE, MSDP, MXP, NEW_ENV, SGA, NAWS
  <2>1. CASE cmd = DO /\ CHARSET \notin r.p.negotiated
    <3> DEFINE a == <<<<WILL, CHARSET>>>>
    <3>1. HandleNegotiation(r, cmd, opt) = Reply(r, a) /\ HandleNegotiation(q, cmd, opt) = Reply(q, a)
      BY <1>4, <2>0, <2>1, Zenon DEF HandleNegotiation
    <3>2. a \in Seq(Answer) /\ \A o : CHARSET # o => Quiet(a, o) BY OctetCodes, OneReply
    <3>4. Voices(a, cmd, opt) BY <1>4, <2>1, OctetCodes, VoicesOne
    <3>3. \A o \in Once : CHARSET # o BY DEF Once, CHARSET, GMCP, MXP, MSDP, NEW_ENV, SGA, NAWS
    <3> HIDE DEF a
    <3> QED BY <1>2, <3>1, <3>2, <3>3, <3>4
  <2>2. CASE ~(cmd = DO /\ CHARSET \notin r.p.negotiated)
    <3>1. HandleNegotiation(r, cmd, opt) = r /\ HandleNegotiation(q, cmd, opt) = q
      BY <1>4, <2>0, <2>2, Zenon DEF HandleNegotiation
    <3> QED BY <1>1, <3>1
  <2> QED BY <2>1, <2>2
<1>5. CASE opt \in Known
  <2>0. opt # CHARSET /\ opt # MCCP2
    BY <1>5 DEF CHARSET, MCCP2, GMCP, TTYPE, MSDP, MXP, NEW_ENV, SGA, NAWS
  <2>1. CASE Answered(cmd, opt) /\ opt \notin r.p.negotiated
    <3> DEFINE N == r.p.negotiated \cup {opt}
               p1 == [r.p EXCEPT !.negotiated = N]
    <3>1. p1 \in Parser /\ p1.negotiated = N /\ p1.passwordMode = r.p.passwordMode
          /\ p1.opt = r.p.opt /\ p1.buf = r.p.buf /\ p1.cmd = r.p.cmd
      BY <1>0 DEF Parser
    <3>2. [r EXCEPT !.p.negotiated = @ \cup {opt}] = With(r, p1)
      BY DEF With, View
    <3>3. [q EXCEPT !.p.negotiated = @ \cup {opt}] = With(q, p1)
      BY DEF With, View
    <3>4. /\ HandleNegotiation(r, cmd, opt) = FirstAnswer(With(r, p1), cmd, opt)
          /\ HandleNegotiation(q, cmd, opt) = FirstAnswer(With(q, p1), cmd, opt)
      <4>1. HandleNegotiation(r, cmd, opt)
              = FirstAnswer([r EXCEPT !.p.negotiated = @ \cup {opt}], cmd, opt)
        BY <1>5, <2>0, <2>1, Zenon DEF HandleNegotiation
      <4>2. HandleNegotiation(q, cmd, opt)
              = FirstAnswer([q EXCEPT !.p.negotiated = @ \cup {opt}], cmd, opt)
        BY <1>5, <2>0, <2>1, Zenon DEF HandleNegotiation
      <4> QED BY <3>2, <3>3, <4>1, <4>2
    <3> HIDE DEF p1
    <3>5. With(r, p1) \in View /\ With(q, p1) \in View /\ With(r, p1).p = p1 /\ With(q, p1).p = p1
      BY <3>1 DEF With, View
    <3>6. CASE opt = TTYPE
      <4>1. /\ FirstAnswer(With(r, p1), cmd, opt) = SendNextTtype(With(r, p1))
            /\ FirstAnswer(With(q, p1), cmd, opt) = SendNextTtype(With(q, p1))
        BY <3>6 DEF FirstAnswer, GMCP, TTYPE, MSDP, MXP, NEW_ENV, SGA, NAWS
      <4>2. PICK p, a : /\ \A c \in {DO, WILL} : Told(p1, p, a, c, TTYPE)
                        /\ \A o \in Once : Quiet(a, o)
                        /\ SendNextTtype(With(r, p1)) = Changed(With(r, p1), p, a)
                        /\ SendNextTtype(With(q, p1)) = Changed(With(q, p1), p, a)
        BY <3>5, NextTtypeIs
      <4>5. cmd \in {DO, WILL} /\ Told(p1, p, a, cmd, opt)
        BY <2>1, <3>6, <4>2 DEF Answered, TTYPE, GMCP, MXP, MSDP, NEW_ENV, SGA, NAWS
      <4>3. p \in Parser /\ a \in Seq(Answer) BY <4>5 DEF Told
      <4>4. Changed(With(r, p1), p, a) = Changed(r, p, a) /\ Changed(With(q, p1), p, a) = Changed(q, p, a)
        BY <3>1, <4>3, ChangedLaws
      <4>6. \A o \in Once : Quiet(a, o) BY <4>2
      <4>7. Told(r.p, p, a, cmd, opt)
        <5>1. p1.negotiated \subseteq p.negotiated /\ r.p.negotiated \subseteq p1.negotiated
          BY <3>1, <4>5 DEF Told
        <5> QED BY <3>1, <4>3, <4>5, <4>6, <5>1 DEF Told
      <4> QED BY <3>4, <4>1, <4>2, <4>4, <4>7
    <3>7. CASE opt # TTYPE
      <4> DEFINE a == FirstReplies(cmd, opt)
      <4>1. opt \in Once BY <1>5, <3>7 DEF Once
      <4>2. /\ Voices(a, cmd, opt)
            /\ FirstAnswer(With(r, p1), cmd, opt) = Reply(With(r, p1), a)
            /\ FirstAnswer(With(q, p1), cmd, opt) = Reply(With(q, p1), a)
        BY <2>1, <4>1, FirstRepliesAre
      <4> HIDE DEF a
      <4>3. Told(r.p, p1, a, cmd, opt) BY <2>1, <3>1, <4>2 DEF Told, Voices
      <4>4. /\ HandleNegotiation(r, cmd, opt) = Changed(r, p1, a)
            /\ HandleNegotiation(q, cmd, opt) = Changed(q, p1, a)
        BY <3>4, <4>2 DEF Changed
      <4> QED BY <4>3, <4>4
    <3> QED BY <3>6, <3>7
  <2>2. CASE ~(Answered(cmd, opt) /\ opt \notin r.p.negotiated)
    <3>1. HandleNegotiation(r, cmd, opt) = r /\ HandleNegotiation(q, cmd, opt) = q
      BY <1>5, <2>0, <2>2, Zenon DEF HandleNegotiation
    <3> QED BY <1>1, <3>1
  <2> QED BY <2>1, <2>2
<1>6. CASE opt \notin Known \cup {CHARSET, MCCP2}
  <2> DEFINE a == Refuse(cmd, opt)
  <2>1. HandleNegotiation(r, cmd, opt) = Reply(r, a) /\ HandleNegotiation(q, cmd, opt) = Reply(q, a)
    BY <1>6, Zenon DEF HandleNegotiation
  <2>2. a \in {Agree(cmd, opt), Refuse(cmd, opt)} OBVIOUS
  <2> HIDE DEF a
  <2>3. /\ a \in Seq(Answer)
        /\ \A o : Single(a, o) /\ (o # opt \/ cmd \notin {DO, WILL} => Quiet(a, o))
    BY <2>2, AgreeIs
  <2>5. Voices(a, cmd, opt) BY <2>3 DEF Voices
  <2>4. \A o \in Once : o # opt BY <1>6 DEF Once
  <2> QED BY <1>2, <2>1, <2>3, <2>4, <2>5
<1> QED BY <1>3, <1>4, <1>5, <1>6

(* ECHO: the player sees a transition. *)
LEMMA PasswordModeIs ==
  ASSUME NEW r \in View, NEW q \in View, Same(r, q), NEW on \in BOOLEAN
  PROVE  /\ Stepped(r, SetPasswordMode(r, on), SetPasswordMode(q, on))
         /\ SetPasswordMode(r, on).p = [r.p EXCEPT !.passwordMode = on]
         /\ SetPasswordMode(r, on).replies = r.replies /\ SetPasswordMode(r, on).messages = r.messages
         /\ (r.p.passwordMode <=> on) => Shown(SetPasswordMode(r, on)) = Shown(r)
         /\ ~(r.p.passwordMode <=> on) => Shown(SetPasswordMode(r, on)) = Append(Shown(r), Echo(on))
<1>0. r.p \in Parser /\ q.p \in Parser /\ r.p = q.p /\ r.p.passwordMode \in BOOLEAN BY Fields DEF Parser, Same
<1>9. Prefix(r.replies, r.replies) BY Fields, PrefixLaws
<1>1. CASE r.p.passwordMode <=> on
  <2>0. r.p.passwordMode = on BY <1>0, <1>1, Zenon
  <2>1. SetPasswordMode(r, on) = r /\ SetPasswordMode(q, on) = q BY <1>0, <2>0 DEF SetPasswordMode
  <2>2. [r.p EXCEPT !.passwordMode = on] = r.p BY <1>0, <2>0 DEF Parser
  <2> QED BY <1>1, <1>9, <2>1, <2>2 DEF Stepped
<1>2. CASE ~(r.p.passwordMode <=> on)
  <2>0. r.p.passwordMode # on BY <1>0, <1>2, Zenon
  <2> DEFINE pp == [r.p EXCEPT !.passwordMode = on]
             g(s) == [FlushText(s) EXCEPT !.p.passwordMode = on, !.segments = Append(@, Echo(on))]
  <2>1. SetPasswordMode(r, on) = g(r) /\ SetPasswordMode(q, on) = g(q) BY <1>0, <2>0 DEF SetPasswordMode
  <2>2. pp \in Parser BY <1>0 DEF Parser
  <2>3. Echo(on) \in Mark BY DEF Echo, Mark
  <2>4. ASSUME NEW s \in View, s.p = r.p
        PROVE  /\ g(s) \in View /\ g(s).p = pp /\ g(s).replies = s.replies /\ g(s).messages = s.messages
               /\ Shown(g(s)) = Append(Shown(s), Echo(on))
    <3> DEFINE f == FlushText(s)
    <3>1. f \in View /\ f.p = r.p /\ f.text = <<>> /\ f.segments = Shown(s) /\ f.replies = s.replies
          /\ f.messages = s.messages
      BY <2>4, FlushTextIs DEF Same
    <3> HIDE DEF f
    <3>2. Append(f.segments, Echo(on)) \in Seq(Mark) BY <2>3, <3>1, Fields
    <3>3. /\ g(s) \in View /\ g(s).p = pp /\ g(s).replies = s.replies /\ g(s).messages = s.messages
          /\ g(s).segments = Append(Shown(s), Echo(on)) /\ g(s).text = <<>>
      <4>1. g(s) = [f EXCEPT !.p.passwordMode = on, !.segments = Append(@, Echo(on))] BY DEF f
      <4>2. g(s) = [f EXCEPT !.p = pp, !.segments = Append(f.segments, Echo(on))] BY <3>1, <4>1 DEF View
      <4> HIDE DEF g, pp
      <4> QED BY <2>2, <3>1, <3>2, <4>2 DEF View
    <3> HIDE DEF g
    <3>4. Append(Shown(s), Echo(on)) \o <<>> = Append(Shown(s), Echo(on)) BY <3>1, <3>2
    <3> QED BY <3>3, <3>4 DEF Shown
  <2> HIDE DEF g
  <2>5. /\ g(r) \in View /\ g(r).p = pp /\ g(r).replies = r.replies /\ g(r).messages = r.messages
        /\ Shown(g(r)) = Append(Shown(r), Echo(on))
    BY <2>4
  <2>6. /\ g(q) \in View /\ g(q).p = pp /\ g(q).replies = q.replies /\ g(q).messages = q.messages
        /\ Shown(g(q)) = Append(Shown(q), Echo(on))
    BY <1>0, <2>4
  <2> HIDE DEF pp
  <2>7. Stepped(r, g(r), g(q)) BY <1>9, <2>5, <2>6 DEF Stepped, Same
  <2> QED BY <1>2, <2>1, <2>5, <2>7 DEF pp
<1> QED BY <1>1, <1>2

-----------------------------------------------------------------------------
(* Subnegotiations, and the byte handlers.                                  *)

(* A subnegotiation asks for the terminal type, or for no answer. *)
SubCmd(opt, data) == IF opt = TTYPE /\ data # <<>> /\ data[1] = REQUEST THEN DO ELSE DONT

LEMMA SubOtherIs ==
  ASSUME NEW r \in View, NEW q \in View, r.p = q.p, NEW opt \in Octet, NEW data \in Seq(Octet), opt # GMCP
  PROVE  \E p, a : /\ Told(r.p, p, a, SubCmd(opt, data), opt)
                   /\ HandleSubnegotiation(r, opt, data) = Changed(r, p, a)
                   /\ HandleSubnegotiation(q, opt, data) = Changed(q, p, a)
<1> DEFINE requested == data # <<>> /\ data[1] = REQUEST
           H(s) == HandleSubnegotiation(s, opt, data)
<1> HIDE DEF requested
<1>0. r.p \in Parser BY Fields
<1>1. CASE opt = TTYPE /\ requested
  <2>1. opt # CHARSET /\ opt # NEW_ENV BY <1>1 DEF TTYPE, CHARSET, NEW_ENV
  <2>2. H(r) = SendNextTtype(r) /\ H(q) = SendNextTtype(q)
    BY <1>1, <2>1, Zenon DEF HandleSubnegotiation, requested
  <2>3. SubCmd(opt, data) = DO BY <1>1 DEF SubCmd, requested
  <2> QED BY <1>1, <2>2, <2>3, NextTtypeIs
<1>2. CASE opt = CHARSET /\ CHARSET \notin r.p.negotiated
  <2> DEFINE p == [r.p EXCEPT !.negotiated = @ \cup {CHARSET}]
             a == <<<<SB, CHARSET, "UTF-8">>>>
  <2>1. opt # TTYPE /\ opt # NEW_ENV BY <1>2 DEF TTYPE, CHARSET, NEW_ENV
  <2>2. /\ H(r) = Reply([r EXCEPT !.p.negotiated = @ \cup {CHARSET}], a)
        /\ H(q) = Reply([q EXCEPT !.p.negotiated = @ \cup {CHARSET}], a)
    BY <1>2, <2>1, Zenon DEF HandleSubnegotiation
  <2>3. /\ [r EXCEPT !.p.negotiated = @ \cup {CHARSET}] = With(r, p)
        /\ [q EXCEPT !.p.negotiated = @ \cup {CHARSET}] = With(q, p)
    BY DEF With, View
  <2>4. "UTF-8" \in Word BY DEF Word
  <2>5. a \in Seq(Answer) /\ \A o : Quiet(a, o) BY <2>4, OctetCodes, SubReply
  <2>6. /\ p \in Parser /\ r.p.negotiated \subseteq p.negotiated /\ p.passwordMode = r.p.passwordMode
        /\ p.opt = r.p.opt /\ p.buf = r.p.buf /\ p.cmd = r.p.cmd
    BY <1>0, OctetCodes DEF Parser
  <2> HIDE DEF a, p
  <2>7. Told(r.p, p, a, SubCmd(opt, data), opt) BY <2>5, <2>6 DEF Told, Voices
  <2> QED BY <2>2, <2>3, <2>7 DEF Changed
<1>3. CASE opt = NEW_ENV /\ requested
  <2> DEFINE a == <<<<SB, NEW_ENV, "IPADDRESS">>>>
  <2>1. opt # CHARSET /\ opt # TTYPE BY <1>3 DEF TTYPE, CHARSET, NEW_ENV
  <2>2. H(r) = Reply(r, a) /\ H(q) = Reply(q, a)
    BY <1>3, <2>1, Zenon DEF HandleSubnegotiation, requested
  <2>3. "IPADDRESS" \in Word BY DEF Word
  <2>4. a \in Seq(Answer) /\ \A o : Quiet(a, o) BY <2>3, OctetCodes, SubReply
  <2> HIDE DEF a
  <2>5. Changed(r, r.p, a) = Reply(r, a) /\ Changed(q, r.p, a) = Reply(q, a) BY <1>0, <2>4, ChangedLaws
  <2>6. Told(r.p, r.p, a, SubCmd(opt, data), opt) BY <1>0, <2>4 DEF Told, Voices
  <2> QED BY <2>2, <2>5, <2>6
<1>4. CASE ~\/ opt = TTYPE /\ requested
            \/ opt = CHARSET /\ CHARSET \notin r.p.negotiated
            \/ opt = NEW_ENV /\ requested
  <2>1. H(r) = r /\ H(q) = q BY <1>4, Zenon DEF HandleSubnegotiation, requested
  <2>2. Changed(r, r.p, <<>>) = r /\ Changed(q, r.p, <<>>) = q
    <3>1. <<>> \in Seq(Answer) BY OctetCodes, OneReply
    <3> QED BY <1>0, <3>1, ChangedLaws
  <2>3. Told(r.p, r.p, <<>>, SubCmd(opt, data), opt) BY <1>0, NotToldIs
  <2> QED BY <2>1, <2>2, <2>3
<1> QED BY <1>1, <1>2, <1>3, <1>4

LEMMA SubGmcpIs ==
  ASSUME NEW r \in View, NEW q \in View, Same(r, q), NEW data \in Seq(Octet)
  PROVE  LET H(s) == HandleSubnegotiation(s, GMCP, data) IN
         /\ Stepped(r, H(r), H(q)) /\ H(r).p = r.p /\ H(r).replies = r.replies
         /\ Shown(H(r)) = Shown(r) /\ H(r).messages = Append(r.messages, GmcpMessage(data))
<1> DEFINE H(s) == HandleSubnegotiation(s, GMCP, data)
           m == GmcpMessage(data)
<1>1. m \in Message BY DEF Message
<1>2. GMCP # TTYPE /\ GMCP # CHARSET /\ GMCP # NEW_ENV BY DEF GMCP, TTYPE, CHARSET, NEW_ENV
<1>3. H(r) = [r EXCEPT !.messages = Append(@, m)] /\ H(q) = [q EXCEPT !.messages = Append(@, m)]
  BY <1>2, Zenon DEF HandleSubnegotiation
<1> HIDE DEF H, m
<1>4. Append(r.messages, m) \in Seq(Message) /\ Append(q.messages, m) \in Seq(Message) BY <1>1, Fields
<1>5. /\ H(r) \in View /\ H(r).p = r.p /\ H(r).replies = r.replies /\ H(r).text = r.text
      /\ H(r).segments = r.segments /\ H(r).messages = Append(r.messages, m)
  BY <1>3, <1>4 DEF View
<1>6. /\ H(q) \in View /\ H(q).p = q.p /\ H(q).replies = q.replies /\ H(q).text = q.text
      /\ H(q).segments = q.segments /\ H(q).messages = Append(q.messages, m)
  BY <1>3, <1>4 DEF View
<1>7. Prefix(r.replies, r.replies) BY Fields, PrefixLaws
<1>8. Stepped(r, H(r), H(q)) /\ Shown(H(r)) = Shown(r) BY <1>5, <1>6, <1>7 DEF Stepped, Same, Shown
<1> QED BY <1>5, <1>8 DEF H, m

LEMMA ToStepped ==
  ASSUME NEW r \in View, NEW q \in View, Same(r, q), NEW st \in State
  PROVE  /\ Stepped(r, To(r, st), To(q, st)) /\ To(r, st).p = [r.p EXCEPT !.state = st]
         /\ To(r, st).replies = r.replies
         /\ Shown(To(r, st)) = Shown(r) /\ To(r, st).messages = r.messages
<1>1. To(r, st) = With(r, [r.p EXCEPT !.state = st]) /\ To(q, st) = With(q, [r.p EXCEPT !.state = st])
      /\ [r.p EXCEPT !.state = st] \in Parser
  BY ToIs DEF Same
<1> QED BY <1>1, WithIs

LEMMA AppendSubnegIs ==
  ASSUME NEW r \in View, NEW q \in View, Same(r, q), NEW b \in Octet
  PROVE  LET A(s) == AppendSubnegByte(s, b)
             over == Len(r.p.buf) >= MaxSubnegotiationBytes
         IN /\ Stepped(r, A(r), A(q)) /\ A(r).replies = r.replies
            /\ A(r).p = [r.p EXCEPT !.buf = IF over THEN <<>> ELSE Append(@, b),
                                    !.state = IF over THEN "SUBNEG_DISCARD" ELSE "SUBNEG"]
            /\ Shown(A(r)) = Shown(r) /\ A(r).messages = r.messages
<1> DEFINE A(s) == AppendSubnegByte(s, b)
           over == Len(r.p.buf) >= MaxSubnegotiationBytes
           p == [r.p EXCEPT !.buf = IF over THEN <<>> ELSE Append(@, b),
                            !.state = IF over THEN "SUBNEG_DISCARD" ELSE "SUBNEG"]
<1>0. r.p \in Parser /\ q.p = r.p BY Fields DEF Same
<1>1. p \in Parser
  <2>1. r.p.buf \in Seq(Octet) BY <1>0 DEF Parser, Payload
  <2>2. (~over => Append(r.p.buf, b) \in Payload) /\ <<>> \in Payload BY <2>1, TelnetAssumption DEF Payload
  <2>3. "SUBNEG_DISCARD" \in State /\ "SUBNEG" \in State BY DEF State
  <2>4. (IF over THEN <<>> ELSE Append(r.p.buf, b)) \in Payload BY <2>2
  <2> QED BY <1>0, <2>3, <2>4 DEF Parser
<1>2. A(r) = With(r, p) BY DEF AppendSubnegByte, With, View
<1>3. A(q) = With(q, p) BY <1>0 DEF AppendSubnegByte, With, View
<1> HIDE DEF p, A, over
<1>4. /\ Stepped(r, A(r), A(q)) /\ A(r).replies = r.replies /\ A(r).p = p
      /\ Shown(A(r)) = Shown(r) /\ A(r).messages = r.messages
  BY <1>1, <1>2, <1>3, WithIs
<1> QED BY <1>4 DEF p, A, over

LEMMA AppendSubnegStepped ==
  ASSUME NEW r \in View, NEW q \in View, Same(r, q), NEW b \in Octet
  PROVE  Stepped(r, AppendSubnegByte(r, b), AppendSubnegByte(q, b))
BY AppendSubnegIs

LEMMA EchoIs ==
  ASSUME NEW s, NEW cmd
  PROVE  HandleNegotiation(s, cmd, ECHO)
           = IF cmd \in {WILL, WONT} THEN SetPasswordMode(s, cmd = WILL) ELSE s
<1>1. ECHO \notin {CHARSET, MCCP2, GMCP, TTYPE, MSDP, MXP, NEW_ENV, SGA, NAWS}
  BY DEF ECHO, CHARSET, MCCP2, GMCP, TTYPE, MSDP, MXP, NEW_ENV, SGA, NAWS
<1> QED BY <1>1, Zenon DEF HandleNegotiation

LEMMA SameStays == ASSUME NEW r \in View, NEW q \in View, Same(r, q) PROVE Stepped(r, r, q)
<1>1. Prefix(r.replies, r.replies) BY Fields, PrefixLaws
<1> QED BY <1>1 DEF Stepped

LEMMA NegotiationStepped ==
  ASSUME NEW r \in View, NEW q \in View, Same(r, q), NEW cmd, NEW opt \in Octet
  PROVE  Stepped(r, HandleNegotiation(r, cmd, opt), HandleNegotiation(q, cmd, opt))
<1>1. CASE opt # ECHO
  <2>1. r.p = q.p BY DEF Same
  <2>2. PICK p, a : /\ Told(r.p, p, a, cmd, opt)
                    /\ HandleNegotiation(r, cmd, opt) = Changed(r, p, a)
                    /\ HandleNegotiation(q, cmd, opt) = Changed(q, p, a)
    BY <1>1, <2>1, NegotiationIs
  <2>3. p \in Parser /\ a \in Seq(Answer) BY <2>2 DEF Told
  <2>4. Stepped(r, Changed(r, p, a), Changed(q, p, a)) BY <2>3, ChangedIs
  <2> QED BY <2>2, <2>4
<1>2. CASE opt = ECHO /\ cmd \in {WILL, WONT}
  <2>1. HandleNegotiation(r, cmd, opt) = SetPasswordMode(r, cmd = WILL) BY <1>2, EchoIs
  <2>2. HandleNegotiation(q, cmd, opt) = SetPasswordMode(q, cmd = WILL) BY <1>2, EchoIs
  <2>3. (cmd = WILL) \in BOOLEAN OBVIOUS
  <2>4. Stepped(r, SetPasswordMode(r, cmd = WILL), SetPasswordMode(q, cmd = WILL)) BY <2>3, PasswordModeIs
  <2> QED BY <2>1, <2>2, <2>4
<1>3. CASE opt = ECHO /\ cmd \notin {WILL, WONT}
  <2>1. HandleNegotiation(r, cmd, opt) = r BY <1>3, EchoIs
  <2>2. HandleNegotiation(q, cmd, opt) = q BY <1>3, EchoIs
  <2>3. Stepped(r, r, q) BY SameStays
  <2> QED BY <2>1, <2>2, <2>3
<1> QED BY <1>1, <1>2, <1>3

LEMMA SubStepped ==
  ASSUME NEW r \in View, NEW q \in View, Same(r, q), NEW opt \in Octet, NEW data \in Seq(Octet)
  PROVE  Stepped(r, HandleSubnegotiation(r, opt, data), HandleSubnegotiation(q, opt, data))
<1>1. CASE opt # GMCP
  <2>1. r.p = q.p BY DEF Same
  <2>2. PICK p, a : /\ Told(r.p, p, a, SubCmd(opt, data), opt)
                    /\ HandleSubnegotiation(r, opt, data) = Changed(r, p, a)
                    /\ HandleSubnegotiation(q, opt, data) = Changed(q, p, a)
    BY <1>1, <2>1, SubOtherIs
  <2>3. p \in Parser /\ a \in Seq(Answer) BY <2>2 DEF Told
  <2>4. Stepped(r, Changed(r, p, a), Changed(q, p, a)) BY <2>3, ChangedIs
  <2> QED BY <2>2, <2>4
<1>2. CASE opt = GMCP BY <1>2, SubGmcpIs
<1> QED BY <1>1, <1>2

LEMMA ByteIs ==
  ASSUME NEW r, NEW b
  PROVE  /\ r.p.state = "TEXT" => Byte(r, b) = InText(r, b)
         /\ r.p.state = "IAC" => Byte(r, b) = InIac(r, b)
         /\ r.p.state = "NEGOTIATION" => Byte(r, b) = InNegotiation(r, b)
         /\ r.p.state = "SUBNEG" => Byte(r, b) = InSubneg(r, b)
         /\ r.p.state = "SUBNEG_IAC" => Byte(r, b) = InSubnegIac(r, b)
         /\ r.p.state = "SUBNEG_DISCARD" => Byte(r, b) = InDiscard(r, b)
         /\ r.p.state = "SUBNEG_DISCARD_IAC" => Byte(r, b) = InDiscardIac(r, b)
BY DEF Byte

LEMMA States ==
  /\ "TEXT" \in State /\ "IAC" \in State /\ "NEGOTIATION" \in State /\ "SUBNEG" \in State
  /\ "SUBNEG_IAC" \in State /\ "SUBNEG_DISCARD" \in State /\ "SUBNEG_DISCARD_IAC" \in State
BY DEF State

(* The parser starts on a command, and on a subnegotiation. *)
LEMMA CommandIs ==
  ASSUME NEW r \in View, NEW q \in View, Same(r, q), NEW b \in SB .. DONT
  PROVE  LET C(s) == [To(s, "NEGOTIATION") EXCEPT !.p.cmd = b]
         IN /\ Stepped(r, C(r), C(q)) /\ C(r).replies = r.replies
            /\ C(r).p = [r.p EXCEPT !.state = "NEGOTIATION", !.cmd = b]
            /\ Shown(C(r)) = Shown(r) /\ C(r).messages = r.messages
<1> DEFINE C(s) == [To(s, "NEGOTIATION") EXCEPT !.p.cmd = b]
           p == [r.p EXCEPT !.state = "NEGOTIATION", !.cmd = b]
<1>1. r.p \in Parser /\ q.p = r.p BY Fields DEF Same
<1>2. p \in Parser BY <1>1, States DEF Parser
<1>3. C(r) = With(r, p) BY DEF To, With, View
<1>4. C(q) = With(q, p) BY <1>1 DEF To, With, View
<1> HIDE DEF C, p
<1>5. /\ Stepped(r, C(r), C(q)) /\ C(r).replies = r.replies /\ C(r).p = p
      /\ Shown(C(r)) = Shown(r) /\ C(r).messages = r.messages
  BY <1>2, <1>3, <1>4, WithIs
<1> QED BY <1>5 DEF C, p

LEMMA SubBeginsIs ==
  ASSUME NEW r \in View, NEW q \in View, Same(r, q), NEW b \in Octet
  PROVE  LET C(s) == [To(s, "SUBNEG") EXCEPT !.p.opt = b, !.p.buf = <<>>]
         IN /\ Stepped(r, C(r), C(q)) /\ C(r).replies = r.replies
            /\ C(r).p = [r.p EXCEPT !.state = "SUBNEG", !.opt = b, !.buf = <<>>]
            /\ Shown(C(r)) = Shown(r) /\ C(r).messages = r.messages
<1> DEFINE C(s) == [To(s, "SUBNEG") EXCEPT !.p.opt = b, !.p.buf = <<>>]
           p == [r.p EXCEPT !.state = "SUBNEG", !.opt = b, !.buf = <<>>]
<1>1. r.p \in Parser /\ q.p = r.p BY Fields DEF Same
<1>2. p \in Parser
  <2>1. <<>> \in Payload BY TelnetAssumption DEF Payload
  <2> QED BY <1>1, <2>1, States DEF Parser
<1>3. C(r) = With(r, p) BY DEF To, With, View
<1>4. C(q) = With(q, p) BY <1>1 DEF To, With, View
<1> HIDE DEF C, p
<1>5. /\ Stepped(r, C(r), C(q)) /\ C(r).replies = r.replies /\ C(r).p = p
      /\ Shown(C(r)) = Shown(r) /\ C(r).messages = r.messages
  BY <1>2, <1>3, <1>4, WithIs
<1> QED BY <1>5 DEF C, p

(* A byte keeps the types, only adds replies, and does not depend on how    *)
(* much of the text is flushed.                                             *)
LEMMA ByteStepped ==
  ASSUME NEW r \in View, NEW q \in View, Same(r, q), NEW b \in Octet
  PROVE  Stepped(r, Byte(r, b), Byte(q, b))
<1>0. r.p = q.p /\ r.p \in Parser BY Fields DEF Same
<1>9. r.p.state \in State /\ r.p.opt \in Octet /\ r.p.buf \in Seq(Octet) /\ 255 \in Octet
  BY <1>0 DEF Parser, Payload, Octet
<1>10. \A x \in Octet : Stepped(r, AppendSubnegByte(r, x), AppendSubnegByte(q, x))
  BY AppendSubnegStepped, Zenon
<1>1. CASE r.p.state = "TEXT"
  <2>1. Byte(r, b) = InText(r, b) /\ Byte(q, b) = InText(q, b) BY <1>0, <1>1, ByteIs
  <2>2. Stepped(r, PushText(r, b), PushText(q, b)) BY PushTextIs
  <2>3. Stepped(r, To(r, "IAC"), To(q, "IAC")) BY ToStepped, States
  <2> QED BY <2>1, <2>2, <2>3 DEF InText
<1>2. CASE r.p.state = "IAC"
  <2>1. Byte(r, b) = InIac(r, b) /\ Byte(q, b) = InIac(q, b) BY <1>0, <1>2, ByteIs
  <2>2. Stepped(r, To(r, "TEXT"), To(q, "TEXT")) BY ToStepped, States
  <2>3. Stepped(r, To(PushText(r, 255), "TEXT"), To(PushText(q, 255), "TEXT"))
    <3>1. Stepped(r, PushText(r, 255), PushText(q, 255)) BY <1>9, PushTextIs
    <3> DEFINE s == PushText(r, 255)
               t == PushText(q, 255)
    <3> HIDE DEF s, t
    <3>2. s \in View /\ t \in View /\ Same(s, t) BY <3>1 DEF Stepped, s, t
    <3>3. Stepped(s, To(s, "TEXT"), To(t, "TEXT")) BY <3>2, ToStepped, States
    <3> QED BY <3>1, <3>3, SteppedThen DEF s, t
  <2>5. CASE b = IAC
    <3>1. InIac(r, b) = To(PushText(r, 255), "TEXT") /\ InIac(q, b) = To(PushText(q, 255), "TEXT")
      BY <2>5 DEF InIac, IAC, WILL, DONT, SB
    <3> QED BY <2>1, <2>3, <3>1
  <2>6. CASE b \in WILL .. DONT \/ b = SB
    <3>0. b # IAC /\ b \in SB .. DONT BY <2>6 DEF IAC, WILL, DONT, SB
    <3>3. Stepped(r, [To(r, "NEGOTIATION") EXCEPT !.p.cmd = b], [To(q, "NEGOTIATION") EXCEPT !.p.cmd = b])
      BY <3>0, CommandIs
    <3>1. InIac(r, b) = [To(r, "NEGOTIATION") EXCEPT !.p.cmd = b] BY <2>6, <3>0, Zenon DEF InIac
    <3>2. InIac(q, b) = [To(q, "NEGOTIATION") EXCEPT !.p.cmd = b] BY <2>6, <3>0, Zenon DEF InIac
    <3> QED BY <2>1, <3>1, <3>2, <3>3
  <2>7. CASE b # IAC /\ ~(b \in WILL .. DONT \/ b = SB)
    <3>1. InIac(r, b) = To(r, "TEXT") /\ InIac(q, b) = To(q, "TEXT") BY <2>7, Zenon DEF InIac
    <3> QED BY <2>1, <2>2, <3>1
  <2> QED BY <2>5, <2>6, <2>7
<1>3. CASE r.p.state = "NEGOTIATION"
  <2>1. Byte(r, b) = InNegotiation(r, b) /\ Byte(q, b) = InNegotiation(q, b) BY <1>0, <1>3, ByteIs
  <2>2. CASE r.p.cmd = SB
    <3> DEFINE C(s) == [To(s, "SUBNEG") EXCEPT !.p.opt = b, !.p.buf = <<>>]
    <3>1. Stepped(r, C(r), C(q)) BY SubBeginsIs
    <3>2. InNegotiation(r, b) = C(r) /\ InNegotiation(q, b) = C(q) BY <1>0, <2>2, Zenon DEF InNegotiation
    <3> HIDE DEF C
    <3> QED BY <2>1, <3>1, <3>2
  <2>3. CASE r.p.cmd # SB
    <3> DEFINE H(s) == HandleNegotiation(s, r.p.cmd, b)
    <3>1. Stepped(r, H(r), H(q)) BY NegotiationStepped
    <3>2. InNegotiation(r, b) = To(H(r), "TEXT") /\ InNegotiation(q, b) = To(H(q), "TEXT")
      BY <1>0, <2>3 DEF InNegotiation
    <3> HIDE DEF H
    <3>3. Stepped(H(r), To(H(r), "TEXT"), To(H(q), "TEXT")) BY <3>1, ToStepped, States DEF Stepped
    <3>4. Stepped(r, To(H(r), "TEXT"), To(H(q), "TEXT")) BY <3>1, <3>3, SteppedThen
    <3> QED BY <2>1, <3>2, <3>4
  <2> QED BY <2>2, <2>3
<1>4. CASE r.p.state = "SUBNEG"
  <2>1. Byte(r, b) = InSubneg(r, b) /\ Byte(q, b) = InSubneg(q, b) BY <1>0, <1>4, ByteIs
  <2>2. Stepped(r, AppendSubnegByte(r, b), AppendSubnegByte(q, b)) BY AppendSubnegStepped, Zenon
  <2>3. Stepped(r, To(r, "SUBNEG_IAC"), To(q, "SUBNEG_IAC")) BY ToStepped, States
  <2> QED BY <2>1, <2>2, <2>3 DEF InSubneg
<1>5. CASE r.p.state = "SUBNEG_IAC"
  <2>1. Byte(r, b) = InSubnegIac(r, b) /\ Byte(q, b) = InSubnegIac(q, b) BY <1>0, <1>5, ByteIs
  <2>2. Stepped(r, To(r, "TEXT"), To(q, "TEXT")) BY ToStepped, States
  <2>3. Stepped(r, AppendSubnegByte(r, 255), AppendSubnegByte(q, 255)) BY <1>9, <1>10
  <2> DEFINE H(s) == HandleSubnegotiation(s, r.p.opt, r.p.buf)
  <2>4. Stepped(r, H(r), H(q)) BY <1>9, SubStepped
  <2>5. /\ b = SE => InSubnegIac(r, b) = To(H(r), "TEXT") /\ InSubnegIac(q, b) = To(H(q), "TEXT")
        /\ b = IAC => InSubnegIac(r, b) = AppendSubnegByte(r, 255) /\ InSubnegIac(q, b) = AppendSubnegByte(q, 255)
        /\ b # SE /\ b # IAC => InSubnegIac(r, b) = To(r, "TEXT") /\ InSubnegIac(q, b) = To(q, "TEXT")
    BY <1>0 DEF InSubnegIac, SE, IAC
  <2> HIDE DEF H
  <2>6. Stepped(H(r), To(H(r), "TEXT"), To(H(q), "TEXT")) BY <2>4, ToStepped, States DEF Stepped
  <2>7. Stepped(r, To(H(r), "TEXT"), To(H(q), "TEXT")) BY <2>4, <2>6, SteppedThen
  <2> QED BY <2>1, <2>2, <2>3, <2>5, <2>7
<1>6. CASE r.p.state = "SUBNEG_DISCARD"
  <2>1. Byte(r, b) = InDiscard(r, b) /\ Byte(q, b) = InDiscard(q, b) BY <1>0, <1>6, ByteIs
  <2>2. Stepped(r, To(r, "SUBNEG_DISCARD_IAC"), To(q, "SUBNEG_DISCARD_IAC")) BY ToStepped, States
  <2>3. Stepped(r, r, q) BY SameStays
  <2> QED BY <2>1, <2>2, <2>3 DEF InDiscard
<1>7. CASE r.p.state = "SUBNEG_DISCARD_IAC"
  <2>1. Byte(r, b) = InDiscardIac(r, b) /\ Byte(q, b) = InDiscardIac(q, b) BY <1>0, <1>7, ByteIs
  <2>2. Stepped(r, To(r, "TEXT"), To(q, "TEXT")) BY ToStepped, States
  <2>3. Stepped(r, To(r, "SUBNEG_DISCARD"), To(q, "SUBNEG_DISCARD")) BY ToStepped, States
  <2> QED BY <2>1, <2>2, <2>3 DEF InDiscardIac
<1> QED BY <1>1, <1>2, <1>3, <1>4, <1>5, <1>6, <1>7, <1>9 DEF State

-----------------------------------------------------------------------------
(* Runs.                                                                    *)

LEMMA RunStepped ==
  ASSUME NEW r \in View, NEW q \in View, Same(r, q), NEW d \in Seq(Octet)
  PROVE  Stepped(r, Run(r, d), Run(q, d))
<1> DEFINE X == {k \in 0 .. Len(d) : ~Stepped(r, RunOf(r, d)[k], RunOf(q, d)[k])}
<1>1. X = {}
  <2> SUFFICES ASSUME X # {} PROVE FALSE OBVIOUS
  <2>0. X \in SUBSET Nat OBVIOUS
  <2>1. PICK m \in X : \A y \in X : m <= y BY <2>0, Least
  <2>2. m # 0
    <3>1. RunOf(r, d)[0] = r /\ RunOf(q, d)[0] = q BY RunIs
    <3>2. Stepped(r, r, q) BY SameStays
    <3> QED BY <3>1, <3>2
  <2>3. m - 1 \in 0 .. Len(d) /\ m \in 1 .. Len(d) BY <2>2
  <2>4. m - 1 \notin X BY <2>1, <2>3
  <2> DEFINE s == RunOf(r, d)[m - 1]
             t == RunOf(q, d)[m - 1]
  <2>5. Stepped(r, s, t) BY <2>3, <2>4
  <2>6. RunOf(r, d)[m] = Byte(s, d[m]) /\ RunOf(q, d)[m] = Byte(t, d[m]) BY <2>3, RunIs
  <2>7. d[m] \in Octet BY <2>3
  <2> HIDE DEF s, t
  <2>8. s \in View /\ t \in View /\ Same(s, t) BY <2>5 DEF Stepped
  <2>9. Stepped(s, Byte(s, d[m]), Byte(t, d[m])) BY <2>7, <2>8, ByteStepped
  <2>10. Stepped(r, Byte(s, d[m]), Byte(t, d[m])) BY <2>5, <2>9, SteppedThen
  <2> QED BY <2>6, <2>10
<1>2. Run(r, d) = RunOf(r, d)[Len(d)] /\ Run(q, d) = RunOf(q, d)[Len(d)] BY RunIs
<1>3. Len(d) \in 0 .. Len(d) OBVIOUS
<1> QED BY <1>1, <1>2, <1>3

-----------------------------------------------------------------------------
(* What the parser will have made of the stream, against what it means.    *)

Meant ==
  [shown : Seq(Mark), off : BOOLEAN, messages : Seq(Message), asked : [Askable -> Nat],
   open : BOOLEAN, opt : Octet, data : Seq(Octet)]

(* Where the replies take a position, and how often they may. *)
Places(rep, o) == {i \in 1 .. Len(rep) : Takes(rep[i], o)}
Due(asked, o) == IF o \in Askable THEN asked[o] ELSE 0

AnswersOK(rep, negotiated, asked) ==
  /\ \A o \in Once : (o \notin negotiated => Quiet(rep, o)) /\ Single(rep, o)
  /\ \A o : Cardinality(Places(rep, o)) <= Due(asked, o)

(* Between sequences the parser is in the text; in a subnegotiation it has  *)
(* collected the payload, or, once that is too long, discards it.           *)
Agrees(f, m) ==
  /\ Shown(f) = m.shown
  /\ f.p.passwordMode <=> m.off
  /\ f.messages = m.messages
  /\ AnswersOK(f.replies, f.p.negotiated, m.asked)
  /\ ~m.open => f.p.state = "TEXT"
  /\ m.open => /\ f.p.opt = m.opt
               /\ Len(m.data) <= MaxSubnegotiationBytes => f.p.state = "SUBNEG" /\ f.p.buf = m.data
               /\ Len(m.data) > MaxSubnegotiationBytes => f.p.state = "SUBNEG_DISCARD"

(* The fields outside p are as they were. *)
Kept(f, g) == Shown(g) = Shown(f) /\ g.messages = f.messages /\ g.replies = f.replies

LEMMA SameSelf == ASSUME NEW r PROVE Same(r, r) /\ Kept(r, r)
BY DEF Same, Kept

LEMMA ToKeeps ==
  ASSUME NEW f \in View, NEW st \in State
  PROVE  To(f, st) \in View /\ To(f, st).p = [f.p EXCEPT !.state = st] /\ Kept(f, To(f, st))
BY SameSelf, ToStepped DEF Stepped, Kept

LEMMA IacIs ==
  ASSUME NEW f \in View
  PROVE  /\ f.p.state = "TEXT" => Byte(f, IAC) = To(f, "IAC")
         /\ f.p.state = "SUBNEG" => Byte(f, IAC) = To(f, "SUBNEG_IAC")
         /\ f.p.state = "SUBNEG_DISCARD" => Byte(f, IAC) = To(f, "SUBNEG_DISCARD_IAC")
BY ByteIs DEF InText, InSubneg, InDiscard

(* The parser's state is all that changes. *)
LEMMA StateIs ==
  ASSUME NEW p \in Parser, NEW st \in State
  PROVE  LET t == [p EXCEPT !.state = st] IN
         /\ t \in Parser /\ t.state = st /\ t.cmd = p.cmd /\ t.opt = p.opt /\ t.buf = p.buf
         /\ t.negotiated = p.negotiated /\ t.passwordMode = p.passwordMode
BY DEF Parser

LEMMA TextAgrees ==
  ASSUME NEW f \in View, NEW m \in Meant, Agrees(f, m), ~m.open, NEW b \in Octet
  PROVE  Agrees(Run(f, Escaped(b)), [m EXCEPT !.shown = Append(@, b)])
<1> DEFINE n == [m EXCEPT !.shown = Append(@, b)]
<1>1. /\ n.shown = Append(m.shown, b) /\ n.off = m.off /\ n.messages = m.messages
      /\ n.asked = m.asked /\ ~n.open
  BY DEF Meant
<1> HIDE DEF n
<1>2. f.p.state = "TEXT" /\ f.p \in Parser BY Fields DEF Agrees
<1>3. CASE b # IAC
  <2>1. Run(f, Escaped(b)) = Byte(f, b) BY <1>3, RunShort DEF Escaped
  <2>2. Byte(f, b) = PushText(f, b) BY <1>2, <1>3, ByteIs DEF InText
  <2>3. /\ PushText(f, b).p = f.p /\ PushText(f, b).replies = f.replies
        /\ PushText(f, b).messages = f.messages /\ Shown(PushText(f, b)) = Append(Shown(f), b)
    BY SameSelf, PushTextIs
  <2>4. Agrees(PushText(f, b), n) BY <1>1, <1>2, <2>3 DEF Agrees
  <2> QED BY <2>1, <2>2, <2>4 DEF n
<1>4. CASE b = IAC
  <2> DEFINE g == To(f, "IAC")
             h == PushText(g, 255)
             k == To(h, "TEXT")
  <2>1. Run(f, Escaped(b)) = Byte(Byte(f, IAC), IAC) BY <1>4, RunTwo DEF Escaped
  <2>2. Byte(f, IAC) = g BY <1>2, IacIs
  <2>3. g \in View /\ g.p = [f.p EXCEPT !.state = "IAC"] /\ Kept(f, g) BY ToKeeps, States
  <2> HIDE DEF g
  <2>4. g.p.state = "IAC" BY <1>2, <2>3, StateIs, States
  <2>5. Byte(g, IAC) = k
    <3>1. Byte(g, IAC) = InIac(g, IAC) BY <2>4, ByteIs
    <3> QED BY <3>1 DEF InIac, IAC, WILL, DONT, SB
  <2>6. 255 \in Octet /\ b = 255 BY <1>4 DEF Octet, IAC
  <2>7. /\ h \in View /\ h.p = g.p /\ h.replies = g.replies /\ h.messages = g.messages
        /\ Shown(h) = Append(Shown(g), 255)
    BY <2>3, <2>6, SameSelf, PushTextIs DEF Stepped
  <2> HIDE DEF h
  <2>8. k \in View /\ k.p = [h.p EXCEPT !.state = "TEXT"] /\ Kept(h, k) BY <2>7, ToKeeps, States
  <2> HIDE DEF k
  <2>9. k.p.state = "TEXT" /\ k.p.passwordMode = f.p.passwordMode /\ k.p.negotiated = f.p.negotiated
    <3>1. g.p \in Parser BY <2>3, Fields
    <3>2. g.p.passwordMode = f.p.passwordMode /\ g.p.negotiated = f.p.negotiated BY <1>2, <2>3, StateIs, States
    <3> QED BY <2>7, <2>8, <3>1, <3>2, StateIs, States
  <2>10. Agrees(k, n) BY <1>1, <2>3, <2>6, <2>7, <2>8, <2>9 DEF Agrees, Kept
  <2> QED BY <2>1, <2>2, <2>5, <2>10 DEF n
<1> QED BY <1>3, <1>4

LEMMA CommandAgrees ==
  ASSUME NEW f \in View, NEW m \in Meant, Agrees(f, m), ~m.open, NEW cmd \in 0 .. SB - 1
  PROVE  Agrees(Run(f, <<IAC, cmd>>), m)
<1> DEFINE g == To(f, "IAC")
           k == To(g, "TEXT")
<1>1. cmd \in Octet /\ IAC \in Octet BY OctetCodes DEF Octet, SB
<1>2. f.p.state = "TEXT" /\ f.p \in Parser BY Fields DEF Agrees
<1>3. Run(f, <<IAC, cmd>>) = Byte(Byte(f, IAC), cmd) BY <1>1, RunTwo
<1>4. Byte(f, IAC) = g BY <1>2, IacIs
<1>5. g \in View /\ g.p = [f.p EXCEPT !.state = "IAC"] /\ Kept(f, g) BY ToKeeps, States
<1> HIDE DEF g
<1>6. g.p.state = "IAC" BY <1>2, <1>5, StateIs, States
<1>7. Byte(g, cmd) = k
  <2>1. Byte(g, cmd) = InIac(g, cmd) BY <1>6, ByteIs
  <2>2. cmd # IAC /\ ~(cmd \in WILL .. DONT \/ cmd = SB) BY DEF SB, IAC, WILL, DONT
  <2> QED BY <2>1, <2>2, Zenon DEF InIac
<1>8. k \in View /\ k.p = [g.p EXCEPT !.state = "TEXT"] /\ Kept(g, k) BY <1>5, ToKeeps, States
<1> HIDE DEF k
<1>9. k.p.state = "TEXT" /\ k.p.passwordMode = f.p.passwordMode /\ k.p.negotiated = f.p.negotiated
  <2>1. g.p \in Parser BY <1>5, Fields
  <2>2. g.p.passwordMode = f.p.passwordMode /\ g.p.negotiated = f.p.negotiated BY <1>2, <1>5, StateIs, States
  <2> QED BY <1>8, <2>1, <2>2, StateIs, States
<1>10. Agrees(k, m) BY <1>5, <1>8, <1>9 DEF Agrees, Kept
<1> QED BY <1>3, <1>4, <1>7, <1>10

LEMMA PlacesFinite ==
  ASSUME NEW rep \in Seq(Answer), NEW o
  PROVE  IsFiniteSet(Places(rep, o)) /\ Cardinality(Places(rep, o)) \in Nat
<1>1. IsFiniteSet(1 .. Len(rep)) BY FS_Interval
<1>2. Places(rep, o) \subseteq 1 .. Len(rep) BY DEF Places
<1>3. IsFiniteSet(Places(rep, o)) BY <1>1, <1>2, FS_Subset
<1> QED BY <1>3, FS_CardinalityType

(* Replies that are added take at most one more place. *)
LEMMA PlacesGrow ==
  ASSUME NEW rep \in Seq(Answer), NEW a \in Seq(Answer), NEW o
  PROVE  /\ Quiet(a, o) => Places(rep \o a, o) = Places(rep, o)
         /\ Single(a, o) => Cardinality(Places(rep \o a, o)) <= Cardinality(Places(rep, o)) + 1
<1> DEFINE c == rep \o a
           P == Places(rep, o)
<1>1. /\ c \in Seq(Answer) /\ Len(c) = Len(rep) + Len(a) /\ Len(rep) \in Nat /\ Len(a) \in Nat
      /\ \A i \in 1 .. Len(rep) : c[i] = rep[i]
      /\ \A i \in 1 .. Len(a) : c[Len(rep) + i] = a[i]
  OBVIOUS
<1> HIDE DEF c
<1>2. ASSUME NEW i \in 1 .. Len(c)
      PROVE  \/ i \in 1 .. Len(rep) /\ c[i] = rep[i]
             \/ i - Len(rep) \in 1 .. Len(a) /\ c[i] = a[i - Len(rep)]
  <2>1. CASE i <= Len(rep) BY <1>1, <2>1
  <2>2. CASE i > Len(rep)
    <3>1. i - Len(rep) \in 1 .. Len(a) /\ i = Len(rep) + (i - Len(rep)) BY <1>1, <2>2
    <3> QED BY <1>1, <3>1
  <2> QED BY <1>1, <2>1, <2>2
<1>3. P \subseteq Places(c, o) BY <1>1 DEF Places
<1>4. ASSUME NEW i \in Places(c, o), i \notin P
      PROVE  i - Len(rep) \in 1 .. Len(a) /\ Takes(a[i - Len(rep)], o) /\ i \in Int
  BY <1>1, <1>2, <1>4 DEF Places
<1>5. ASSUME Quiet(a, o) PROVE Places(c, o) = P BY <1>3, <1>4, <1>5 DEF Quiet
<1>6. ASSUME Single(a, o) PROVE Cardinality(Places(c, o)) <= Cardinality(P) + 1
  <2>1. IsFiniteSet(P) /\ Cardinality(P) \in Nat BY PlacesFinite
  <2>2. CASE Places(c, o) = P BY <2>1, <2>2
  <2>3. CASE Places(c, o) # P
    <3>1. PICK i \in Places(c, o) : i \notin P BY <1>3, <2>3
    <3>2. \A j \in Places(c, o) : j \notin P => j = i
      <4> SUFFICES ASSUME NEW j \in Places(c, o), j \notin P PROVE j = i OBVIOUS
      <4>1. /\ i - Len(rep) \in 1 .. Len(a) /\ Takes(a[i - Len(rep)], o) /\ i \in Int
            /\ j - Len(rep) \in 1 .. Len(a) /\ Takes(a[j - Len(rep)], o) /\ j \in Int
        BY <1>4, <3>1
      <4>2. i - Len(rep) = j - Len(rep) BY <1>6, <4>1 DEF Single
      <4> QED BY <1>1, <4>1, <4>2
    <3>3. Places(c, o) = P \cup {i} BY <1>3, <3>1, <3>2
    <3>4. Cardinality(P \cup {i}) = Cardinality(P) + 1 BY <2>1, <3>1, FS_AddElement
    <3> QED BY <2>1, <3>3, <3>4
  <2> QED BY <2>2, <2>3
<1> QED BY <1>5, <1>6 DEF c

LEMMA AnswersGrow ==
  ASSUME NEW p0 \in Parser, NEW p, NEW a, NEW cmd, NEW opt, Told(p0, p, a, cmd, opt), NEW rep \in Seq(Answer),
         NEW asked \in [Askable -> Nat], NEW more \in [Askable -> Nat],
         AnswersOK(rep, p0.negotiated, asked), \A o : Due(asked, o) <= Due(more, o),
         cmd \in {DO, WILL} => Due(asked, opt) + 1 <= Due(more, opt)
  PROVE  AnswersOK(rep \o a, p.negotiated, more)
<1>0. a \in Seq(Answer) /\ p0.negotiated \subseteq p.negotiated /\ Voices(a, cmd, opt) BY DEF Told
<1>1. ASSUME NEW o \in Once
      PROVE  (o \notin p.negotiated => Quiet(rep \o a, o)) /\ Single(rep \o a, o)
  <2>1. (o \notin p0.negotiated => Quiet(rep, o)) /\ Single(rep, o) BY DEF AnswersOK
  <2>2. CASE Quiet(a, o)
    <3>1. /\ Quiet(rep, o) => Quiet(rep \o a, o)
          /\ Single(rep \o a, o)
      BY <1>0, <2>1, <2>2, ConcatReplies
    <3> QED BY <1>0, <2>1, <3>1
  <2>3. CASE ~Quiet(a, o)
    <3>1. o \notin p0.negotiated /\ o \in p.negotiated BY <2>3 DEF Told
    <3>2. Single(a, o) BY <1>0, <2>3 DEF Voices
    <3>3. Single(rep \o a, o) BY <1>0, <2>1, <3>1, <3>2, ConcatReplies
    <3> QED BY <3>1, <3>3
  <2> QED BY <2>2, <2>3
<1>2. ASSUME NEW o PROVE Cardinality(Places(rep \o a, o)) <= Due(more, o)
  <2>1. Cardinality(Places(rep, o)) <= Due(asked, o) /\ Due(asked, o) <= Due(more, o) BY DEF AnswersOK
  <2>2. Due(asked, o) \in Nat /\ Due(more, o) \in Nat BY DEF Due
  <2>3. Cardinality(Places(rep, o)) \in Nat BY PlacesFinite
  <2>4. CASE Quiet(a, o)
    <3>1. Places(rep \o a, o) = Places(rep, o) BY <1>0, <2>4, PlacesGrow
    <3> QED BY <2>1, <2>2, <2>3, <3>1
  <2>5. CASE ~Quiet(a, o)
    <3>1. o = opt /\ cmd \in {DO, WILL} /\ Single(a, o) BY <1>0, <2>5 DEF Voices
    <3>2. Cardinality(Places(rep \o a, o)) <= Cardinality(Places(rep, o)) + 1 BY <1>0, <3>1, PlacesGrow
    <3>3. rep \o a \in Seq(Answer) BY <1>0
    <3>4. Cardinality(Places(rep \o a, o)) \in Nat BY <3>3, PlacesFinite
    <3>5. Due(asked, o) + 1 <= Due(more, o) BY <3>1
    <3> QED BY <2>1, <2>2, <2>3, <3>2, <3>4, <3>5
  <2> QED BY <2>4, <2>5
<1> QED BY <1>1, <1>2 DEF AnswersOK

LEMMA AnswersStay ==
  ASSUME NEW rep \in Seq(Answer), NEW N, NEW asked \in [Askable -> Nat], NEW more \in [Askable -> Nat],
         AnswersOK(rep, N, asked), \A o : Due(asked, o) <= Due(more, o)
  PROVE  AnswersOK(rep, N, more)
<1>1. ASSUME NEW o PROVE Cardinality(Places(rep, o)) <= Due(more, o)
  <2>1. Cardinality(Places(rep, o)) <= Due(asked, o) /\ Due(asked, o) <= Due(more, o) BY DEF AnswersOK
  <2>2. Due(asked, o) \in Nat /\ Due(more, o) \in Nat BY DEF Due
  <2> QED BY <2>1, <2>2, PlacesFinite
<1> QED BY <1>1 DEF AnswersOK

(* A request counts once, and for its option. *)
LEMMA AskingIs ==
  ASSUME NEW asked \in [Askable -> Nat], NEW opt \in Askable
  PROVE  LET more == [asked EXCEPT ![opt] = @ + 1] IN
         /\ more \in [Askable -> Nat] /\ \A o : Due(asked, o) <= Due(more, o)
         /\ Due(asked, opt) + 1 <= Due(more, opt)
BY DEF Due

(* The parser has read IAC, a command and comes to the option. *)
LEMMA CommandRead ==
  ASSUME NEW f \in View, f.p.state = "TEXT", NEW cmd \in WILL .. DONT \cup {SB}
  PROVE  LET g == Byte(Byte(f, IAC), cmd) IN
         /\ g \in View /\ Kept(f, g) /\ g.p.state = "NEGOTIATION" /\ g.p.cmd = cmd
         /\ g.p.negotiated = f.p.negotiated /\ g.p.passwordMode = f.p.passwordMode
<1> DEFINE g == To(f, "IAC")
           C(s) == [To(s, "NEGOTIATION") EXCEPT !.p.cmd = cmd]
<1>1. cmd \in SB .. DONT /\ cmd # IAC /\ (cmd \in WILL .. DONT \/ cmd = SB) BY DEF Octet, SB, IAC, WILL, DONT
<1>2. f.p \in Parser BY Fields
<1>3. Byte(f, IAC) = g BY IacIs
<1>4. g \in View /\ g.p = [f.p EXCEPT !.state = "IAC"] /\ Kept(f, g) BY ToKeeps, States
<1> HIDE DEF g
<1>5. /\ g.p.state = "IAC" /\ g.p.negotiated = f.p.negotiated /\ g.p.passwordMode = f.p.passwordMode
      /\ g.p \in Parser
  BY <1>2, <1>4, StateIs, States
<1>6. Byte(g, cmd) = C(g)
  <2>1. Byte(g, cmd) = InIac(g, cmd) BY <1>5, ByteIs
  <2> QED BY <1>1, <2>1, Zenon DEF InIac
<1>7. /\ C(g) \in View /\ Kept(g, C(g)) /\ C(g).p = [g.p EXCEPT !.state = "NEGOTIATION", !.cmd = cmd]
  <2>1. Same(g, g) BY SameSelf
  <2>2. /\ Stepped(g, C(g), C(g)) /\ C(g).replies = g.replies
        /\ C(g).p = [g.p EXCEPT !.state = "NEGOTIATION", !.cmd = cmd]
        /\ Shown(C(g)) = Shown(g) /\ C(g).messages = g.messages
    BY <1>1, <1>4, <2>1, CommandIs
  <2> HIDE DEF C
  <2> QED BY <2>2 DEF Stepped, Kept
<1> HIDE DEF C
<1>8. /\ C(g).p.state = "NEGOTIATION" /\ C(g).p.cmd = cmd /\ C(g).p.negotiated = f.p.negotiated
      /\ C(g).p.passwordMode = f.p.passwordMode
  BY <1>5, <1>7 DEF Parser
<1>9. Kept(f, C(g)) BY <1>4, <1>7 DEF Kept
<1> QED BY <1>3, <1>6, <1>7, <1>8, <1>9

LEMMA OptionAgrees ==
  ASSUME NEW f \in View, NEW m \in Meant, Agrees(f, m), ~m.open, NEW cmd \in WILL .. DONT, NEW opt \in Octet,
         opt \in Askable
  PROVE  LET offered == IF cmd \in {DO, WILL} THEN [m EXCEPT !.asked[opt] = @ + 1] ELSE m IN
         Agrees(Run(f, <<IAC, cmd, opt>>),
                IF opt = ECHO /\ cmd \in {WILL, WONT} /\ m.off # (cmd = WILL)
                THEN [offered EXCEPT !.off = (cmd = WILL), !.shown = Append(@, Echo(cmd = WILL))]
                ELSE offered)
<1> DEFINE more == IF cmd \in {DO, WILL} THEN [m.asked EXCEPT ![opt] = @ + 1] ELSE m.asked
           offered == IF cmd \in {DO, WILL} THEN [m EXCEPT !.asked[opt] = @ + 1] ELSE m
           n == IF opt = ECHO /\ cmd \in {WILL, WONT} /\ m.off # (cmd = WILL)
                THEN [offered EXCEPT !.off = (cmd = WILL), !.shown = Append(@, Echo(cmd = WILL))]
                ELSE offered
           turned == opt = ECHO /\ cmd \in {WILL, WONT} /\ ~(m.off <=> cmd = WILL)
           g == Byte(Byte(f, IAC), cmd)
           H == HandleNegotiation(g, cmd, opt)
           k == To(H, "TEXT")
<1>0. m.off \in BOOLEAN /\ m.asked \in [Askable -> Nat] BY DEF Meant
<1>14. /\ more \in [Askable -> Nat] /\ \A o : Due(m.asked, o) <= Due(more, o)
       /\ cmd \in {DO, WILL} => Due(m.asked, opt) + 1 <= Due(more, opt)
  <2>1. CASE cmd \in {DO, WILL} BY <1>0, <2>1, AskingIs
  <2>2. CASE cmd \notin {DO, WILL} BY <1>0, <2>2 DEF Due
  <2> QED BY <2>1, <2>2
<1>1. /\ n.messages = m.messages /\ n.asked = more /\ ~n.open
      /\ turned => (n.off <=> cmd = WILL) /\ n.shown = Append(m.shown, Echo(cmd = WILL))
      /\ ~turned => (n.off <=> m.off) /\ n.shown = m.shown
  <2>1. /\ offered.messages = m.messages /\ offered.asked = more /\ ~offered.open
        /\ offered.off = m.off /\ offered.shown = m.shown /\ offered \in Meant
    BY <1>14 DEF Meant
  <2> HIDE DEF more, offered
  <2>2. turned <=> opt = ECHO /\ cmd \in {WILL, WONT} /\ m.off # (cmd = WILL) BY <1>0, Zenon
  <2>3. CASE turned
    <3>1. n = [offered EXCEPT !.off = (cmd = WILL), !.shown = Append(@, Echo(cmd = WILL))] BY <2>2, <2>3, Zenon
    <3>2. n.off = (cmd = WILL) /\ n.shown = Append(m.shown, Echo(cmd = WILL)) /\ n.messages = m.messages
          /\ n.asked = more /\ ~n.open
      BY <2>1, <3>1 DEF Meant
    <3> HIDE DEF n
    <3> QED BY <2>3, <3>2, Zenon
  <2>4. CASE ~turned
    <3>1. n = offered BY <2>2, <2>4, Zenon
    <3> HIDE DEF n, offered, turned
    <3> QED BY <2>1, <2>4, <3>1, Zenon
  <2> QED BY <2>3, <2>4
<1> HIDE DEF n, turned, offered, more
<1>2. f.p.state = "TEXT" /\ f.p \in Parser BY Fields DEF Agrees
<1>3. cmd \in Octet /\ IAC \in Octet /\ cmd # SB BY OctetCodes DEF Octet, WILL, DONT, SB
<1>4. Run(f, <<IAC, cmd, opt>>) = Byte(g, opt) BY <1>3, RunThree
<1>5. /\ g \in View /\ Kept(f, g) /\ g.p.state = "NEGOTIATION" /\ g.p.cmd = cmd
      /\ g.p.negotiated = f.p.negotiated /\ g.p.passwordMode = f.p.passwordMode
  BY <1>2, CommandRead
<1> HIDE DEF g
<1>6. g.p \in Parser BY <1>5, Fields
<1>7. Byte(g, opt) = k
  <2>1. Byte(g, opt) = InNegotiation(g, opt) BY <1>5, ByteIs
  <2> QED BY <1>3, <1>5, <2>1 DEF InNegotiation
<1>8. Same(g, g) BY SameSelf
<1>9. H \in View BY <1>5, <1>8, NegotiationStepped DEF Stepped
<1>10. /\ H.messages = m.messages /\ AnswersOK(H.replies, H.p.negotiated, more)
       /\ Shown(H) = n.shown /\ (H.p.passwordMode <=> n.off)
  <2>0. /\ AnswersOK(g.replies, g.p.negotiated, m.asked) /\ g.replies \in Seq(Answer)
        /\ Shown(g) = m.shown /\ g.messages = m.messages /\ (g.p.passwordMode <=> m.off)
    BY <1>5, Fields DEF Agrees, Kept
  <2>1. CASE opt # ECHO
    <3>1. PICK p, a : Told(g.p, p, a, cmd, opt) /\ H = Changed(g, p, a) BY <1>5, <2>1, NegotiationIs
    <3>2. p \in Parser /\ a \in Seq(Answer) /\ p.passwordMode = g.p.passwordMode BY <3>1 DEF Told
    <3>3. /\ H.p = p /\ H.replies = g.replies \o a /\ Shown(H) = Shown(g) /\ H.messages = g.messages
      BY <1>5, <1>8, <3>1, <3>2, ChangedIs
    <3>4. AnswersOK(g.replies \o a, p.negotiated, more) BY <1>0, <1>6, <1>14, <2>0, <3>1, AnswersGrow
    <3>5. ~turned BY <2>1 DEF turned
    <3> QED BY <1>1, <2>0, <3>2, <3>3, <3>4, <3>5
  <2>2. CASE opt = ECHO /\ cmd \in {WILL, WONT}
    <3>1. H = SetPasswordMode(g, cmd = WILL) BY <2>2, EchoIs
    <3>2. (cmd = WILL) \in BOOLEAN OBVIOUS
    <3> DEFINE on == cmd = WILL
    <3> HIDE DEF on
    <3>3. /\ H.p = [g.p EXCEPT !.passwordMode = on]
          /\ H.replies = g.replies /\ H.messages = g.messages
          /\ (g.p.passwordMode <=> on) => Shown(H) = Shown(g)
          /\ ~(g.p.passwordMode <=> on) => Shown(H) = Append(Shown(g), Echo(on))
      <4>1. H = SetPasswordMode(g, on) /\ on \in BOOLEAN BY <3>1, <3>2, Zenon DEF on
      <4> HIDE DEF H, k
      <4> QED BY <1>5, <1>8, <4>1, PasswordModeIs
    <3>4. H.p.passwordMode = on /\ H.p.negotiated = g.p.negotiated BY <1>6, <3>3 DEF Parser
    <3>5. turned <=> ~(g.p.passwordMode <=> on) BY <2>0, <2>2 DEF turned, on
    <3>6. AnswersOK(H.replies, H.p.negotiated, more) BY <1>0, <1>14, <2>0, <3>3, <3>4, AnswersStay
    <3>7. /\ turned => (n.off <=> on) /\ n.shown = Append(m.shown, Echo(on))
          /\ ~turned => (n.off <=> m.off) /\ n.shown = m.shown
      BY <1>1 DEF on
    <3>8. Shown(H) = n.shown BY <2>0, <3>3, <3>5, <3>7
    <3>9. H.p.passwordMode <=> n.off
      <4>1. H.p.passwordMode <=> on BY <3>4
      <4> QED BY <2>0, <3>5, <3>7, <4>1
    <3> QED BY <2>0, <3>3, <3>6, <3>8, <3>9
  <2>3. CASE opt = ECHO /\ cmd \notin {WILL, WONT}
    <3>1. H = g BY <2>3, EchoIs
    <3>2. ~turned BY <2>3 DEF turned
    <3>3. AnswersOK(g.replies, g.p.negotiated, more) BY <1>0, <1>14, <2>0, AnswersStay
    <3> QED BY <1>1, <2>0, <3>1, <3>2, <3>3
  <2> QED BY <2>1, <2>2, <2>3
<1> HIDE DEF H
<1>11. k \in View /\ k.p = [H.p EXCEPT !.state = "TEXT"] /\ Kept(H, k) BY <1>9, ToKeeps, States
<1> HIDE DEF k
<1>12. k.p.state = "TEXT" /\ k.p.passwordMode = H.p.passwordMode /\ k.p.negotiated = H.p.negotiated
  BY <1>9, <1>11, Fields, StateIs, States
<1>13. Agrees(k, n) BY <1>1, <1>10, <1>11, <1>12 DEF Agrees, Kept
<1> QED BY <1>4, <1>7, <1>13 DEF n, offered

LEMMA BeginAgrees ==
  ASSUME NEW f \in View, NEW m \in Meant, Agrees(f, m), ~m.open, NEW opt \in Octet
  PROVE  Agrees(Run(f, <<IAC, SB, opt>>), [m EXCEPT !.open = TRUE, !.opt = opt, !.data = <<>>])
<1> DEFINE n == [m EXCEPT !.open = TRUE, !.opt = opt, !.data = <<>>]
           g == Byte(Byte(f, IAC), SB)
           k == [To(g, "SUBNEG") EXCEPT !.p.opt = opt, !.p.buf = <<>>]
<1>1. /\ n.messages = m.messages /\ n.asked = m.asked /\ n.open /\ n.off = m.off /\ n.shown = m.shown
      /\ n.opt = opt /\ n.data = <<>>
  BY DEF Meant
<1> HIDE DEF n
<1>2. f.p.state = "TEXT" BY DEF Agrees
<1>3. SB \in Octet /\ IAC \in Octet BY OctetCodes
<1>4. Run(f, <<IAC, SB, opt>>) = Byte(g, opt) BY <1>3, RunThree
<1>5. /\ g \in View /\ Kept(f, g) /\ g.p.state = "NEGOTIATION" /\ g.p.cmd = SB
      /\ g.p.negotiated = f.p.negotiated /\ g.p.passwordMode = f.p.passwordMode
  BY <1>2, CommandRead
<1> HIDE DEF g
<1>6. g.p \in Parser /\ Same(g, g) BY <1>5, Fields, SameSelf
<1>7. Byte(g, opt) = k
  <2>1. Byte(g, opt) = InNegotiation(g, opt) BY <1>5, ByteIs
  <2> QED BY <1>5, <2>1, Zenon DEF InNegotiation
<1>8. /\ Kept(g, k) /\ k.p = [g.p EXCEPT !.state = "SUBNEG", !.opt = opt, !.buf = <<>>]
  BY <1>5, <1>6, SubBeginsIs DEF Kept
<1> HIDE DEF k
<1>9. /\ k.p.state = "SUBNEG" /\ k.p.opt = opt /\ k.p.buf = <<>> /\ k.p.negotiated = g.p.negotiated
      /\ k.p.passwordMode = g.p.passwordMode
  BY <1>6, <1>8 DEF Parser
<1>10. Len(<<>>) <= MaxSubnegotiationBytes /\ ~(Len(<<>>) > MaxSubnegotiationBytes) BY TelnetAssumption
<1>11. Agrees(k, n) BY <1>1, <1>5, <1>8, <1>9, <1>10 DEF Agrees, Kept
<1> QED BY <1>4, <1>7, <1>11 DEF n

(* A byte of a payload, as the parser sees it once it is unescaped. *)
LEMMA PayloadAgrees ==
  ASSUME NEW f \in View, NEW m \in Meant, Agrees(f, m), m.open, NEW b \in Octet
  PROVE  Agrees(Run(f, Escaped(b)), [m EXCEPT !.data = Append(@, b)])
<1> DEFINE n == [m EXCEPT !.data = Append(@, b)]
<1>0. m.data \in Seq(Octet) /\ MaxSubnegotiationBytes \in Nat BY TelnetAssumption DEF Meant
<1>1. /\ n.messages = m.messages /\ n.asked = m.asked /\ n.open /\ n.off = m.off /\ n.shown = m.shown
      /\ n.opt = m.opt /\ n.data = Append(m.data, b) /\ Len(n.data) = Len(m.data) + 1 /\ Len(m.data) \in Nat
  BY <1>0 DEF Meant
<1> HIDE DEF n
<1>2. f.p \in Parser BY Fields
<1>3. Run(f, Escaped(b)) = IF b = IAC THEN Byte(Byte(f, IAC), IAC) ELSE Byte(f, b)
  <2>1. CASE b = IAC BY <2>1, RunTwo DEF Escaped
  <2>2. CASE b # IAC BY <2>2, RunShort DEF Escaped
  <2> QED BY <2>1, <2>2
<1>4. CASE Len(m.data) <= MaxSubnegotiationBytes
  <2>0. f.p.state = "SUBNEG" /\ f.p.buf = m.data BY <1>4 DEF Agrees
  <2>1. \E s \in View : /\ Kept(f, s) /\ s.p \in Parser /\ s.p.opt = f.p.opt /\ s.p.buf = f.p.buf
                        /\ s.p.negotiated = f.p.negotiated /\ s.p.passwordMode = f.p.passwordMode
                        /\ Run(f, Escaped(b)) = AppendSubnegByte(s, b)
    <3>1. CASE b # IAC
      <4>1. Byte(f, b) = AppendSubnegByte(f, b) BY <2>0, <3>1, ByteIs DEF InSubneg
      <4>2. Kept(f, f) BY SameSelf
      <4> QED BY <1>2, <1>3, <3>1, <4>1, <4>2
    <3>2. CASE b = IAC
      <4> DEFINE s == To(f, "SUBNEG_IAC")
      <4>1. Byte(f, IAC) = s BY <2>0, IacIs
      <4>2. s \in View /\ s.p = [f.p EXCEPT !.state = "SUBNEG_IAC"] /\ Kept(f, s) BY ToKeeps, States
      <4> HIDE DEF s
      <4>3. /\ s.p.state = "SUBNEG_IAC" /\ s.p.opt = f.p.opt /\ s.p.buf = f.p.buf /\ s.p \in Parser
            /\ s.p.negotiated = f.p.negotiated /\ s.p.passwordMode = f.p.passwordMode
        BY <1>2, <4>2, StateIs, States
      <4>4. Byte(s, IAC) = AppendSubnegByte(s, b)
        <5>1. Byte(s, IAC) = InSubnegIac(s, IAC) BY <4>3, ByteIs
        <5>2. IAC # SE /\ b = 255 BY <3>2 DEF IAC, SE
        <5> QED BY <5>1, <5>2, Zenon DEF InSubnegIac
      <4> QED BY <1>3, <3>2, <4>1, <4>2, <4>3, <4>4
    <3> QED BY <3>1, <3>2
  <2>2. PICK s \in View : /\ Kept(f, s) /\ s.p \in Parser /\ s.p.opt = f.p.opt /\ s.p.buf = f.p.buf
                          /\ s.p.negotiated = f.p.negotiated /\ s.p.passwordMode = f.p.passwordMode
                          /\ Run(f, Escaped(b)) = AppendSubnegByte(s, b)
    BY <2>1
  <2> DEFINE k == AppendSubnegByte(s, b)
             over == Len(s.p.buf) >= MaxSubnegotiationBytes
  <2>3. /\ Kept(s, k)
        /\ k.p = [s.p EXCEPT !.buf = IF over THEN <<>> ELSE Append(@, b),
                             !.state = IF over THEN "SUBNEG_DISCARD" ELSE "SUBNEG"]
    <3>1. Same(s, s) BY SameSelf
    <3> QED BY <2>2, <3>1, AppendSubnegIs DEF Kept
  <2> HIDE DEF k
  <2>4. /\ k.p.opt = f.p.opt /\ k.p.negotiated = f.p.negotiated /\ k.p.passwordMode = f.p.passwordMode
        /\ over => k.p.state = "SUBNEG_DISCARD"
        /\ ~over => k.p.state = "SUBNEG" /\ k.p.buf = Append(m.data, b)
    BY <2>0, <2>2, <2>3 DEF Parser
  <2>5. over <=> Len(m.data) >= MaxSubnegotiationBytes BY <2>0, <2>2
  <2> HIDE DEF over
  <2>6. /\ Len(n.data) <= MaxSubnegotiationBytes => ~over
        /\ Len(n.data) > MaxSubnegotiationBytes => over
    BY <1>0, <1>1, <1>4, <2>5
  <2>7. Agrees(k, n) BY <1>1, <2>2, <2>3, <2>4, <2>6 DEF Agrees, Kept
  <2> QED BY <2>2, <2>7 DEF k, n
<1>5. CASE Len(m.data) > MaxSubnegotiationBytes
  <2>0. f.p.state = "SUBNEG_DISCARD" BY <1>5 DEF Agrees
  <2>1. Len(n.data) > MaxSubnegotiationBytes /\ ~(Len(n.data) <= MaxSubnegotiationBytes) BY <1>0, <1>1, <1>5
  <2>2. CASE b # IAC
    <3>1. Byte(f, b) = f BY <2>0, <2>2, ByteIs DEF InDiscard
    <3>2. Agrees(f, n) BY <1>1, <1>5, <2>0, <2>1 DEF Agrees
    <3> QED BY <1>3, <2>2, <3>1, <3>2 DEF n
  <2>3. CASE b = IAC
    <3> DEFINE s == To(f, "SUBNEG_DISCARD_IAC")
               k == To(s, "SUBNEG_DISCARD")
    <3>1. Byte(f, IAC) = s BY <2>0, IacIs
    <3>2. s \in View /\ s.p = [f.p EXCEPT !.state = "SUBNEG_DISCARD_IAC"] /\ Kept(f, s) BY ToKeeps, States
    <3> HIDE DEF s
    <3>3. /\ s.p.state = "SUBNEG_DISCARD_IAC" /\ s.p.opt = f.p.opt /\ s.p \in Parser
          /\ s.p.negotiated = f.p.negotiated /\ s.p.passwordMode = f.p.passwordMode
      BY <1>2, <3>2, StateIs, States
    <3>4. Byte(s, IAC) = k
      <4>1. Byte(s, IAC) = InDiscardIac(s, IAC) BY <3>3, ByteIs
      <4> QED BY <4>1 DEF InDiscardIac, IAC, SE
    <3>5. k.p = [s.p EXCEPT !.state = "SUBNEG_DISCARD"] /\ Kept(s, k) BY <3>2, ToKeeps, States
    <3> HIDE DEF k
    <3>6. /\ k.p.state = "SUBNEG_DISCARD" /\ k.p.opt = f.p.opt
          /\ k.p.negotiated = f.p.negotiated /\ k.p.passwordMode = f.p.passwordMode
      BY <3>3, <3>5, StateIs, States
    <3>7. Agrees(k, n) BY <1>1, <2>1, <3>2, <3>5, <3>6 DEF Agrees, Kept
    <3> QED BY <1>3, <2>3, <3>1, <3>4, <3>7 DEF n
  <2> QED BY <2>2, <2>3
<1> QED BY <1>0, <1>4, <1>5

(* The parser has read IAC within a subnegotiation. *)
LEMMA SubIacRead ==
  ASSUME NEW f \in View, NEW m \in Meant, Agrees(f, m), m.open
  PROVE  LET g == Byte(f, IAC) IN
         /\ g \in View /\ Kept(f, g) /\ g.p \in Parser /\ g.p.opt = f.p.opt /\ g.p.buf = f.p.buf
         /\ g.p.negotiated = f.p.negotiated /\ g.p.passwordMode = f.p.passwordMode
         /\ Len(m.data) <= MaxSubnegotiationBytes => g.p.state = "SUBNEG_IAC"
         /\ Len(m.data) > MaxSubnegotiationBytes => g.p.state = "SUBNEG_DISCARD_IAC"
<1> DEFINE g == Byte(f, IAC)
<1>0. f.p \in Parser /\ Len(m.data) \in Nat /\ MaxSubnegotiationBytes \in Nat
  BY Fields, TelnetAssumption DEF Meant
<1>1. ASSUME NEW st \in State, g = To(f, st)
      PROVE  /\ g \in View /\ Kept(f, g) /\ g.p \in Parser /\ g.p.opt = f.p.opt /\ g.p.buf = f.p.buf
             /\ g.p.negotiated = f.p.negotiated /\ g.p.passwordMode = f.p.passwordMode /\ g.p.state = st
  <2>1. To(f, st) \in View /\ To(f, st).p = [f.p EXCEPT !.state = st] /\ Kept(f, To(f, st)) BY ToKeeps
  <2> QED BY <1>0, <1>1, <2>1, StateIs
<1>2. CASE Len(m.data) <= MaxSubnegotiationBytes
  <2>1. g = To(f, "SUBNEG_IAC") BY <1>2, IacIs DEF Agrees
  <2>2. ~(Len(m.data) > MaxSubnegotiationBytes) BY <1>0, <1>2
  <2> QED BY <1>1, <2>1, <2>2, States
<1>3. CASE Len(m.data) > MaxSubnegotiationBytes
  <2>1. g = To(f, "SUBNEG_DISCARD_IAC") BY <1>3, IacIs DEF Agrees
  <2>2. ~(Len(m.data) <= MaxSubnegotiationBytes) BY <1>0, <1>3
  <2> QED BY <1>1, <2>1, <2>2, States
<1> QED BY <1>0, <1>2, <1>3

(* What the end of a subnegotiation adds to the meaning. *)
Over(m) == Len(m.data) > MaxSubnegotiationBytes
Tells(m) == m.opt = GMCP /\ ~Over(m)
Asks(m) == (m.opt = TTYPE /\ ~Over(m)) /\ m.data # <<>> /\ m.data[1] = REQUEST
Carried(m) ==
  CASE Tells(m) -> [m EXCEPT !.messages = Append(@, GmcpMessage(m.data))]
    [] Asks(m) -> [m EXCEPT !.asked[TTYPE] = @ + 1]
    [] OTHER -> m

LEMMA CarriedIs ==
  ASSUME NEW m \in Meant
  PROVE  LET c == Carried(m) IN
         /\ c \in Meant /\ c.shown = m.shown /\ c.off = m.off
         /\ Tells(m) => c.messages = Append(m.messages, GmcpMessage(m.data))
         /\ ~Tells(m) => c.messages = m.messages
         /\ \A o : Due(m.asked, o) <= Due(c.asked, o)
         /\ Asks(m) => Due(m.asked, TTYPE) + 1 <= Due(c.asked, TTYPE)
<1> DEFINE c == Carried(m)
<1>1. TTYPE \in Askable /\ GMCP # TTYPE /\ m.asked \in [Askable -> Nat] BY DEF Askable, GMCP, TTYPE, Meant
<1>2. Append(m.messages, GmcpMessage(m.data)) \in Seq(Message)
  <2>1. m.messages \in Seq(Message) /\ m.data \in Seq(Octet) BY DEF Meant
  <2>2. GmcpMessage(m.data) \in Message BY <2>1 DEF Message
  <2> QED BY <2>1, <2>2
<1>3. ~(Tells(m) /\ Asks(m)) BY <1>1 DEF Tells, Asks
<1>4. CASE Tells(m)
  <2>1. c = [m EXCEPT !.messages = Append(@, GmcpMessage(m.data))] BY <1>3, <1>4, Zenon DEF Carried
  <2>2. c.asked = m.asked BY <2>1 DEF Meant
  <2>3. \A o : Due(m.asked, o) <= Due(c.asked, o) BY <1>1, <2>2 DEF Due
  <2> HIDE DEF c
  <2>4. c \in Meant /\ c.shown = m.shown /\ c.off = m.off /\ c.messages = Append(m.messages, GmcpMessage(m.data))
    BY <1>2, <2>1 DEF Meant
  <2> QED BY <1>3, <1>4, <2>3, <2>4 DEF c
<1>5. CASE Asks(m)
  <2>1. c = [m EXCEPT !.asked[TTYPE] = @ + 1] BY <1>3, <1>5, Zenon DEF Carried
  <2> HIDE DEF c
  <2>2. c.asked = [m.asked EXCEPT ![TTYPE] = @ + 1] BY <2>1 DEF Meant
  <2>3. /\ c.asked \in [Askable -> Nat] /\ \A o : Due(m.asked, o) <= Due(c.asked, o)
        /\ Due(m.asked, TTYPE) + 1 <= Due(c.asked, TTYPE)
    BY <1>1, <2>2, AskingIs
  <2>4. c \in Meant /\ c.shown = m.shown /\ c.off = m.off /\ c.messages = m.messages
    BY <2>1, <2>2, <2>3 DEF Meant
  <2> QED BY <1>3, <1>5, <2>3, <2>4 DEF c
<1>6. CASE ~Tells(m) /\ ~Asks(m)
  <2>1. c = m BY <1>6, Zenon DEF Carried
  <2>2. \A o : Due(m.asked, o) <= Due(c.asked, o) BY <1>1, <2>1 DEF Due
  <2> HIDE DEF c
  <2> QED BY <1>6, <2>1, <2>2 DEF c
<1> QED BY <1>4, <1>5, <1>6

LEMMA EndAgrees ==
  ASSUME NEW f \in View, NEW m \in Meant, Agrees(f, m), m.open
  PROVE  Agrees(Run(f, <<IAC, SE>>), [Carried(m) EXCEPT !.open = FALSE])
<1> DEFINE carried == Carried(m)
           more == carried.asked
           n == [carried EXCEPT !.open = FALSE]
           g == Byte(f, IAC)
<1>0. /\ carried \in Meant /\ carried.shown = m.shown /\ carried.off = m.off
      /\ Tells(m) => carried.messages = Append(m.messages, GmcpMessage(m.data))
      /\ ~Tells(m) => carried.messages = m.messages
      /\ \A o : Due(m.asked, o) <= Due(more, o)
      /\ Asks(m) => Due(m.asked, TTYPE) + 1 <= Due(more, TTYPE)
  BY CarriedIs
<1> HIDE DEF carried
<1>1. /\ ~n.open /\ n.shown = m.shown /\ n.off = m.off /\ n.asked = more
      /\ Tells(m) => n.messages = Append(m.messages, GmcpMessage(m.data))
      /\ ~Tells(m) => n.messages = m.messages
  BY <1>0 DEF Meant
<1>9. m.asked \in [Askable -> Nat] /\ more \in [Askable -> Nat] BY <1>0 DEF Meant
<1> HIDE DEF more
<1> HIDE DEF n
<1>2. Run(f, <<IAC, SE>>) = Byte(g, SE) BY OctetCodes, RunTwo
<1>3. /\ g \in View /\ Kept(f, g) /\ g.p \in Parser /\ g.p.opt = f.p.opt /\ g.p.buf = f.p.buf
      /\ g.p.negotiated = f.p.negotiated /\ g.p.passwordMode = f.p.passwordMode
      /\ Len(m.data) <= MaxSubnegotiationBytes => g.p.state = "SUBNEG_IAC"
      /\ Len(m.data) > MaxSubnegotiationBytes => g.p.state = "SUBNEG_DISCARD_IAC"
  BY SubIacRead
<1> HIDE DEF g
<1>4. Len(m.data) \in Nat /\ MaxSubnegotiationBytes \in Nat /\ m.data \in Seq(Octet) /\ m.opt \in Octet
  BY TelnetAssumption DEF Meant
<1>5. ASSUME NEW s \in View, s.messages = n.messages, Shown(s) = m.shown, s.p.passwordMode <=> m.off,
             AnswersOK(s.replies, s.p.negotiated, more), Byte(g, SE) = To(s, "TEXT")
      PROVE  Agrees(Byte(g, SE), n)
  <2> DEFINE k == To(s, "TEXT")
  <2>1. k.p = [s.p EXCEPT !.state = "TEXT"] /\ Kept(s, k) /\ s.p \in Parser BY ToKeeps, States, Fields
  <2> HIDE DEF k
  <2>2. k.p.state = "TEXT" /\ k.p.passwordMode = s.p.passwordMode /\ k.p.negotiated = s.p.negotiated
    BY <2>1, StateIs, States
  <2>3. Agrees(k, n) BY <1>1, <1>5, <2>1, <2>2 DEF Agrees, Kept
  <2> QED BY <1>5, <2>3 DEF k
<1>6. /\ g.messages = m.messages /\ Shown(g) = m.shown /\ (g.p.passwordMode <=> m.off)
      /\ AnswersOK(g.replies, g.p.negotiated, m.asked) /\ g.p.opt = m.opt /\ g.replies \in Seq(Answer)
  BY <1>3, Fields DEF Agrees, Kept
<1>7. CASE Len(m.data) > MaxSubnegotiationBytes
  <2>1. Byte(g, SE) = To(g, "TEXT")
    <3>1. Byte(g, SE) = InDiscardIac(g, SE) BY <1>3, <1>7, ByteIs
    <3> QED BY <3>1 DEF InDiscardIac
  <2>2. g.messages = n.messages BY <1>1, <1>6, <1>7 DEF Tells, Over
  <2>3. AnswersOK(g.replies, g.p.negotiated, more) BY <1>0, <1>6, <1>9, AnswersStay
  <2> QED BY <1>2, <1>3, <1>5, <1>6, <2>1, <2>2, <2>3 DEF n, carried
<1>8. CASE ~(Len(m.data) > MaxSubnegotiationBytes)
  <2>0. Len(m.data) <= MaxSubnegotiationBytes /\ g.p.buf = m.data BY <1>3, <1>4, <1>8 DEF Agrees
  <2> DEFINE H == HandleSubnegotiation(g, m.opt, m.data)
  <2>1. Byte(g, SE) = To(H, "TEXT")
    <3>1. Byte(g, SE) = InSubnegIac(g, SE) BY <1>3, <2>0, ByteIs
    <3>2. SE # IAC BY DEF SE, IAC
    <3> QED BY <1>6, <2>0, <3>1, <3>2, Zenon DEF InSubnegIac
  <2>2. CASE m.opt = GMCP
    <3>1. Same(g, g) BY SameSelf
    <3>2. /\ H \in View /\ H.p = g.p /\ H.replies = g.replies
          /\ Shown(H) = Shown(g) /\ H.messages = Append(g.messages, GmcpMessage(m.data))
      BY <1>3, <1>4, <2>2, <3>1, SubGmcpIs DEF Stepped
    <3> HIDE DEF H
    <3>3. H.messages = n.messages BY <1>1, <1>6, <1>8, <2>2, <3>2 DEF Tells, Over
    <3>4. AnswersOK(g.replies, g.p.negotiated, more) BY <1>0, <1>6, <1>9, AnswersStay
    <3> QED BY <1>2, <1>5, <1>6, <2>1, <3>2, <3>3, <3>4 DEF n, carried
  <2>3. CASE m.opt # GMCP
    <3>1. PICK p, a : Told(g.p, p, a, SubCmd(m.opt, m.data), m.opt) /\ H = Changed(g, p, a)
      BY <1>3, <1>4, <2>3, SubOtherIs
    <3>2. p \in Parser /\ a \in Seq(Answer) /\ p.passwordMode = g.p.passwordMode BY <3>1 DEF Told
    <3>3. Same(g, g) BY SameSelf
    <3>4. /\ H \in View /\ H.p = p /\ H.replies = g.replies \o a /\ Shown(H) = Shown(g)
          /\ H.messages = g.messages
      BY <1>3, <3>1, <3>2, <3>3, ChangedIs DEF Stepped
    <3>5. SubCmd(m.opt, m.data) \in {DO, WILL} => Due(m.asked, m.opt) + 1 <= Due(more, m.opt)
      BY <1>0, <1>8 DEF SubCmd, Asks, Over, DO, DONT, WILL
    <3>6. AnswersOK(g.replies \o a, p.negotiated, more) BY <1>0, <1>3, <1>6, <1>9, <3>1, <3>5, AnswersGrow
    <3> HIDE DEF H
    <3>7. H.messages = n.messages BY <1>1, <1>6, <2>3, <3>4 DEF Tells
    <3> QED BY <1>2, <1>5, <1>6, <2>1, <3>2, <3>4, <3>6, <3>7 DEF n, carried
  <2> QED BY <2>2, <2>3
<1> QED BY <1>7, <1>8

LEMMA BreakAgrees ==
  ASSUME NEW f \in View, NEW m \in Meant, Agrees(f, m), m.open
  PROVE  Agrees(Run(f, <<IAC, NOP>>), [m EXCEPT !.open = (Len(m.data) > MaxSubnegotiationBytes)])
<1> DEFINE over == Len(m.data) > MaxSubnegotiationBytes
           n == [m EXCEPT !.open = over]
           g == Byte(f, IAC)
<1>1. /\ n.open = over /\ n.shown = m.shown /\ n.off = m.off /\ n.asked = m.asked
      /\ n.messages = m.messages /\ n.opt = m.opt /\ n.data = m.data
  BY DEF Meant
<1> HIDE DEF n
<1>2. Run(f, <<IAC, NOP>>) = Byte(g, NOP) BY OctetCodes, RunTwo
<1>3. /\ g \in View /\ Kept(f, g) /\ g.p \in Parser /\ g.p.opt = f.p.opt /\ g.p.buf = f.p.buf
      /\ g.p.negotiated = f.p.negotiated /\ g.p.passwordMode = f.p.passwordMode
      /\ Len(m.data) <= MaxSubnegotiationBytes => g.p.state = "SUBNEG_IAC"
      /\ Len(m.data) > MaxSubnegotiationBytes => g.p.state = "SUBNEG_DISCARD_IAC"
  BY SubIacRead
<1> HIDE DEF g
<1>4. Len(m.data) \in Nat /\ MaxSubnegotiationBytes \in Nat BY TelnetAssumption DEF Meant
<1>5. NOP # SE /\ NOP # IAC BY DEF NOP, SE, IAC
<1>6. CASE over
  <2> DEFINE k == To(g, "SUBNEG_DISCARD")
  <2>0. g.p.state = "SUBNEG_DISCARD_IAC" /\ ~(Len(m.data) <= MaxSubnegotiationBytes) BY <1>3, <1>4, <1>6
  <2>1. Byte(g, NOP) = k
    <3>1. Byte(g, NOP) = InDiscardIac(g, NOP) BY <2>0, ByteIs
    <3> QED BY <1>5, <3>1 DEF InDiscardIac
  <2>2. k.p = [g.p EXCEPT !.state = "SUBNEG_DISCARD"] /\ Kept(g, k) BY <1>3, ToKeeps, States
  <2> HIDE DEF k
  <2>3. /\ k.p.state = "SUBNEG_DISCARD" /\ k.p.opt = g.p.opt
        /\ k.p.passwordMode = g.p.passwordMode /\ k.p.negotiated = g.p.negotiated
    BY <1>3, <2>2, StateIs, States
  <2>4. n.open BY <1>1, <1>6
  <2>5. Agrees(k, n)
    <3>1. f.p.opt = m.opt BY DEF Agrees
    <3>2. Shown(f) = m.shown /\ f.messages = m.messages /\ (f.p.passwordMode <=> m.off)
          /\ AnswersOK(f.replies, f.p.negotiated, m.asked)
      BY DEF Agrees
    <3> QED BY <1>1, <1>3, <2>0, <2>2, <2>3, <2>4, <3>1, <3>2 DEF Agrees, Kept
  <2> QED BY <1>2, <2>1, <2>5 DEF n
<1>7. CASE ~over
  <2> DEFINE k == To(g, "TEXT")
  <2>0. g.p.state = "SUBNEG_IAC" BY <1>3, <1>4, <1>7
  <2>1. Byte(g, NOP) = k
    <3>1. Byte(g, NOP) = InSubnegIac(g, NOP) BY <2>0, ByteIs
    <3> QED BY <1>5, <3>1, Zenon DEF InSubnegIac
  <2>2. k.p = [g.p EXCEPT !.state = "TEXT"] /\ Kept(g, k) BY <1>3, ToKeeps, States
  <2> HIDE DEF k
  <2>3. k.p.state = "TEXT" /\ k.p.passwordMode = g.p.passwordMode /\ k.p.negotiated = g.p.negotiated
    BY <1>3, <2>2, StateIs, States
  <2>4. ~n.open BY <1>1, <1>7
  <2>5. Agrees(k, n) BY <1>1, <1>3, <2>2, <2>3, <2>4 DEF Agrees, Kept
  <2> QED BY <1>2, <2>1, <2>5 DEF n
<1> QED BY <1>6, <1>7

-----------------------------------------------------------------------------
(* The invariant: what is on the wire will make the parser show and deliver *)
(* what the MUD meant.                                                      *)

StreamInv ==
  /\ wire \in Seq(Octet)
  /\ Delivered \in View
  /\ meant \in Meant
  /\ Agrees(Run(Delivered, wire), meant)

LEMMA EqualStreams ==
  ASSUME NEW u \in Seq(Octet), NEW v \in Seq(Octet), Len(u) = Len(v), \A i \in 1 .. Len(u) : u[i] = v[i]
  PROVE  u = v
OBVIOUS

LEMMA StreamInit == TInit => StreamInv
<1> SUFFICES ASSUME TInit PROVE StreamInv OBVIOUS
<1>1. wire = <<>> /\ wire \in Seq(Octet) BY DEF TInit
<1>2. <<"MUDBasher", "XTERM-256color", "MTTS 141">> \in Names
  <2>1. "MUDBasher" \in Word /\ "XTERM-256color" \in Word /\ "MTTS 141" \in Word BY DEF Word
  <2>2. ASSUME NEW x \in Word, NEW y \in Word, NEW z \in Word PROVE <<x, y, z>> \in Names BY DEF Names
  <2> QED BY <2>1, <2>2
<1>3. 0 \in Octet BY DEF Octet
<1>4. parser \in Parser
  <2>1. <<>> \in Payload BY TelnetAssumption DEF Payload
  <2> QED BY <1>2, <1>3, <2>1, States DEF TInit, InitParser, Parser
<1>5. shown \in Seq(Mark) /\ messages \in Seq(Message) /\ replies \in Seq(Answer) /\ <<>> \in Seq(Mark)
  BY DEF TInit
<1>6. Delivered \in View BY <1>4, <1>5 DEF Delivered, View
<1>7. meant \in Meant
  <2>1. <<>> \in Seq(Mark) /\ <<>> \in Seq(Message) /\ <<>> \in Seq(Octet) OBVIOUS
  <2>2. [opt \in Askable |-> 0] \in [Askable -> Nat] OBVIOUS
  <2> QED BY <1>3, <2>1, <2>2 DEF TInit, InitMeant, Meant
<1>8. Run(Delivered, wire) = Delivered BY <1>1, <1>3, RunShort
<1>9. Agrees(Delivered, meant)
  <2>1. /\ Delivered.p = parser /\ Delivered.segments = <<>> /\ Delivered.text = <<>>
        /\ Delivered.messages = <<>> /\ Delivered.replies = <<>>
    BY DEF Delivered, TInit
  <2>2. parser.state = "TEXT" /\ ~parser.passwordMode /\ parser.negotiated = {} BY DEF TInit, InitParser
  <2>3. meant.shown = <<>> /\ ~meant.off /\ meant.messages = <<>> /\ ~meant.open BY DEF TInit, InitMeant
  <2>4. Shown(Delivered) = <<>> BY <2>1 DEF Shown
  <2>5. \A o : Quiet(<<>>, o) BY <1>3, OneReply
  <2>7. \A o : Cardinality(Places(<<>>, o)) = 0
    <3>1. \A o : Places(<<>>, o) = {} BY DEF Places
    <3> QED BY <3>1, FS_EmptySet
  <2>8. \A o : Due(meant.asked, o) = 0 BY DEF TInit, InitMeant, Due
  <2>6. AnswersOK(<<>>, {}, meant.asked) BY <2>5, <2>7, <2>8, QuietIsSingle DEF AnswersOK
  <2> QED BY <2>1, <2>2, <2>3, <2>4, <2>6 DEF Agrees
<1> QED BY <1>1, <1>6, <1>7, <1>8, <1>9 DEF StreamInv

(* What the MUD sends agrees if what the parser makes of it does. *)
LEMMA PutsKeeps ==
  ASSUME StreamInv, NEW bytes \in Seq(Octet), NEW m \in Meant, Puts(bytes, m),
         Agrees(Run(Run(Delivered, wire), bytes), m)
  PROVE  StreamInv'
<1>1. wire' = wire \o bytes /\ meant' = m /\ UNCHANGED delivered BY DEF Puts
<1>2. Delivered' = Delivered BY <1>1 DEF Delivered, delivered
<1>3. wire \in Seq(Octet) /\ Delivered \in View BY DEF StreamInv
<1>4. wire' \in Seq(Octet) BY <1>1, <1>3
<1>5. Run(Delivered, wire \o bytes) = Run(Run(Delivered, wire), bytes) BY <1>3, RunConcat
<1> QED BY <1>1, <1>2, <1>3, <1>4, <1>5 DEF StreamInv

LEMMA ReadKeeps == ASSUME StreamInv, NEW n \in Nat, Read(n) PROVE StreamInv'
<1> DEFINE s == SubSeq(wire, 1, n)
           t == SubSeq(wire, n + 1, Len(wire))
           r == Process(Delivered, s)
           f == Run(Delivered, s)
<1>0. wire \in Seq(Octet) /\ Delivered \in View /\ meant \in Meant /\ Agrees(Run(Delivered, wire), meant)
  BY DEF StreamInv
<1>1. n \in 1 .. Len(wire) /\ wire' = t /\ meant' = meant BY DEF Read
<1>2. parser' = r.p /\ shown' = r.segments /\ messages' = r.messages /\ replies' = r.replies BY DEF Read
<1>3. s \in Seq(Octet) /\ t \in Seq(Octet) /\ wire = s \o t
  <2>1. s \in Seq(Octet) /\ t \in Seq(Octet) BY <1>0, <1>1
  <2>2. Len(s) = n /\ Len(t) = Len(wire) - n BY <1>0, <1>1
  <2>3. \A i \in 1 .. Len(wire) : wire[i] = (s \o t)[i] BY <1>0, <1>1
  <2>4. Len(s \o t) = Len(wire) /\ s \o t \in Seq(Octet) BY <1>0, <1>1, <2>1, <2>2
  <2> HIDE DEF s, t
  <2> DEFINE w == s \o t
  <2> HIDE DEF w
  <2>5. w \in Seq(Octet) /\ Len(wire) = Len(w) /\ \A i \in 1 .. Len(wire) : wire[i] = w[i] BY <2>3, <2>4 DEF w
  <2>6. wire = w BY <1>0, <2>5, EqualStreams
  <2> QED BY <2>1, <2>6 DEF w
<1> HIDE DEF s, t
<1>4. f \in View
  <2>1. Same(Delivered, Delivered) BY SameSelf
  <2> QED BY <1>0, <1>3, <2>1, RunStepped DEF Stepped
<1>5. Run(Delivered, wire) = Run(f, t) BY <1>0, <1>3, RunConcat
<1>6. r = FlushText(f) BY DEF Process
<1> HIDE DEF f, r
<1>7. r \in View /\ Same(r, f) /\ r.text = <<>> BY <1>4, <1>6, FlushTextIs
<1>8. Delivered' = r
  <2>1. Delivered' = [p |-> r.p, text |-> <<>>, segments |-> r.segments, messages |-> r.messages,
                      replies |-> r.replies]
    BY <1>2 DEF Delivered
  <2> QED BY <1>7, <2>1 DEF View
<1>9. Same(Run(r, t), Run(f, t)) BY <1>3, <1>4, <1>7, RunStepped DEF Stepped
<1>10. Agrees(Run(r, t), meant) BY <1>0, <1>5, <1>9 DEF Agrees, Same
<1> QED BY <1>0, <1>1, <1>3, <1>7, <1>8, <1>10 DEF StreamInv

LEMMA StreamNext == StreamInv /\ [TNext]_telnetVars => StreamInv'
<1> SUFFICES ASSUME StreamInv, [TNext]_telnetVars PROVE StreamInv' OBVIOUS
<1> DEFINE f == Run(Delivered, wire)
<1>0. /\ wire \in Seq(Octet) /\ Delivered \in View /\ meant \in Meant /\ Agrees(f, meant) BY DEF StreamInv
<1>1. f \in View
  <2>1. Same(Delivered, Delivered) BY SameSelf
  <2> QED BY <1>0, <2>1, RunStepped DEF Stepped
<1> HIDE DEF f
<1>2. /\ Octets \subseteq Octet /\ SubOptions \subseteq Octet /\ Commands \subseteq 0 .. SB - 1
      /\ Offers \subseteq (WILL .. DONT) \X Octet
  BY TelnetAssumption DEF Octet
<1>3. IAC \in Octet /\ SB \in Octet /\ SE \in Octet /\ NOP \in Octet BY OctetCodes
<1>4. ASSUME NEW b \in Octet PROVE Escaped(b) \in Seq(Octet) BY <1>3 DEF Escaped
<1>5. ASSUME NEW b \in Octets, SendText(b) PROVE StreamInv'
  <2> DEFINE n == [meant EXCEPT !.shown = Append(@, b)]
  <2>1. b \in Octet /\ b \in Mark BY <1>2 DEF Octet, Mark
  <2>2. n \in Meant
    <3>1. Append(meant.shown, b) \in Seq(Mark) BY <1>0, <2>1 DEF Meant
    <3> QED BY <1>0, <3>1 DEF Meant
  <2>3. ~meant.open /\ Puts(Escaped(b), n) BY <1>5 DEF SendText, Sends
  <2>4. Agrees(Run(f, Escaped(b)), n) BY <1>0, <1>1, <2>1, <2>3, TextAgrees
  <2> HIDE DEF n
  <2> QED BY <1>4, <2>1, <2>2, <2>3, <2>4, PutsKeeps DEF f
<1>6. ASSUME NEW b \in Octets, SendPayload(b) PROVE StreamInv'
  <2> DEFINE n == [meant EXCEPT !.data = Append(@, b)]
  <2>1. b \in Octet BY <1>2
  <2>2. n \in Meant
    <3>1. Append(meant.data, b) \in Seq(Octet) BY <1>0, <2>1 DEF Meant
    <3> QED BY <1>0, <3>1 DEF Meant
  <2>3. meant.open /\ Puts(Escaped(b), n) BY <1>6 DEF SendPayload
  <2>4. Agrees(Run(f, Escaped(b)), n) BY <1>0, <1>1, <2>1, <2>3, PayloadAgrees
  <2> HIDE DEF n
  <2> QED BY <1>4, <2>1, <2>2, <2>3, <2>4, PutsKeeps DEF f
<1>7. ASSUME NEW cmd \in Commands, SendCommand(cmd) PROVE StreamInv'
  <2>1. cmd \in 0 .. SB - 1 /\ cmd \in Octet BY <1>2 DEF Octet, SB
  <2>2. ~meant.open /\ Puts(<<IAC, cmd>>, meant) BY <1>7 DEF SendCommand, Sends
  <2>3. Agrees(Run(f, <<IAC, cmd>>), meant) BY <1>0, <1>1, <2>1, <2>2, CommandAgrees
  <2>4. <<IAC, cmd>> \in Seq(Octet) BY <1>3, <2>1
  <2> QED BY <1>0, <2>2, <2>3, <2>4, PutsKeeps DEF f
<1>8. ASSUME NEW offer \in Offers, SendOption(offer[1], offer[2]) PROVE StreamInv'
  <2> DEFINE cmd == offer[1]
             opt == offer[2]
             offered == IF cmd \in {DO, WILL} THEN [meant EXCEPT !.asked[opt] = @ + 1] ELSE meant
             n == IF opt = ECHO /\ cmd \in {WILL, WONT} /\ meant.off # (cmd = WILL)
                  THEN [offered EXCEPT !.off = (cmd = WILL), !.shown = Append(@, Echo(cmd = WILL))]
                  ELSE offered
  <2>1. cmd \in WILL .. DONT /\ opt \in Octet /\ opt \in Askable BY <1>2 DEF Askable
  <2> HIDE DEF cmd, opt
  <2>2. cmd \in Octet BY <2>1 DEF Octet, WILL, DONT
  <2>3. n \in Meant
    <3>1. ASSUME cmd \in {DO, WILL} PROVE offered \in Meant /\ offered.shown = meant.shown
      <4>1. offered = [meant EXCEPT !.asked[opt] = @ + 1] BY <3>1, Zenon
      <4> HIDE DEF offered
      <4>2. offered = [meant EXCEPT !.asked = [meant.asked EXCEPT ![opt] = @ + 1]] BY <1>0, <4>1 DEF Meant
      <4>3. [meant.asked EXCEPT ![opt] = @ + 1] \in [Askable -> Nat] BY <1>0, <2>1 DEF Meant
      <4> QED BY <1>0, <4>2, <4>3 DEF Meant
    <3>2. offered \in Meant /\ offered.shown = meant.shown
      <4>1. CASE cmd \in {DO, WILL} BY <3>1, <4>1
      <4>2. CASE cmd \notin {DO, WILL}
        <5>1. offered = meant BY <4>2, Zenon
        <5> QED BY <1>0, <5>1
      <4> QED BY <4>1, <4>2
    <3>3. Echo(cmd = WILL) \in Mark BY DEF Echo, Mark
    <3>4. Append(offered.shown, Echo(cmd = WILL)) \in Seq(Mark) /\ (cmd = WILL) \in BOOLEAN
      <4>1. offered.shown \in Seq(Mark) BY <3>2 DEF Meant
      <4> HIDE DEF offered
      <4> QED BY <3>3, <4>1
    <3> HIDE DEF offered
    <3>5. [offered EXCEPT !.off = (cmd = WILL), !.shown = Append(@, Echo(cmd = WILL))] \in Meant
      BY <3>2, <3>4 DEF Meant
    <3> QED BY <3>2, <3>5
  <2>4. ~meant.open /\ Puts(<<IAC, cmd, opt>>, n) BY <1>8, Zenon DEF SendOption, Sends, Asking, cmd, opt
  <2>5. Agrees(Run(f, <<IAC, cmd, opt>>), n) BY <1>0, <1>1, <2>1, <2>4, OptionAgrees
  <2> HIDE DEF n
  <2>6. <<IAC, cmd, opt>> \in Seq(Octet) BY <1>3, <2>1, <2>2
  <2> QED BY <2>3, <2>4, <2>5, <2>6, PutsKeeps DEF f
<1>9. ASSUME NEW opt \in SubOptions, BeginSub(opt) PROVE StreamInv'
  <2> DEFINE n == [meant EXCEPT !.open = TRUE, !.opt = opt, !.data = <<>>]
  <2>1. opt \in Octet BY <1>2
  <2>2. n \in Meant
    <3>1. <<>> \in Seq(Octet) OBVIOUS
    <3> QED BY <1>0, <2>1, <3>1 DEF Meant
  <2>3. ~meant.open /\ Puts(<<IAC, SB, opt>>, n) BY <1>9 DEF BeginSub, Sends
  <2>4. Agrees(Run(f, <<IAC, SB, opt>>), n) BY <1>0, <1>1, <2>1, <2>3, BeginAgrees
  <2>5. <<IAC, SB, opt>> \in Seq(Octet) BY <1>3, <2>1
  <2> HIDE DEF n
  <2> QED BY <2>2, <2>3, <2>4, <2>5, PutsKeeps DEF f
<1>10. ASSUME EndSub PROVE StreamInv'
  <2> DEFINE n == [Carried(meant) EXCEPT !.open = FALSE]
  <2>1. n \in Meant
    <3>1. Carried(meant) \in Meant BY <1>0, CarriedIs
    <3> QED BY <3>1 DEF Meant
  <2>2. meant.open /\ Puts(<<IAC, SE>>, n)
    BY <1>10, Zenon DEF EndSub, Sends, Oversized, Carries, Asking, Carried, Tells, Asks, Over
  <2>3. Agrees(Run(f, <<IAC, SE>>), n) BY <1>0, <1>1, <2>2, EndAgrees
  <2>4. <<IAC, SE>> \in Seq(Octet) BY <1>3
  <2> HIDE DEF n
  <2> QED BY <2>1, <2>2, <2>3, <2>4, PutsKeeps DEF f
<1>11. ASSUME BreakSub PROVE StreamInv'
  <2> DEFINE n == [meant EXCEPT !.open = (Len(meant.data) > MaxSubnegotiationBytes)]
  <2>1. n \in Meant
    <3> DEFINE over == Len(meant.data) > MaxSubnegotiationBytes
    <3>1. over \in BOOLEAN OBVIOUS
    <3>2. n = [meant EXCEPT !.open = over] OBVIOUS
    <3> HIDE DEF over, n
    <3> QED BY <1>0, <3>1, <3>2 DEF Meant
  <2>2. meant.open /\ Puts(<<IAC, NOP>>, n) BY <1>11 DEF BreakSub, Sends, Oversized
  <2>3. Agrees(Run(f, <<IAC, NOP>>), n) BY <1>0, <1>1, <2>2, BreakAgrees
  <2>4. <<IAC, NOP>> \in Seq(Octet) BY <1>3
  <2> HIDE DEF n
  <2> QED BY <2>1, <2>2, <2>3, <2>4, PutsKeeps DEF f
<1>12. ASSUME NEW n \in DOMAIN wire, Read(n) PROVE StreamInv'
  <2>1. n \in Nat BY <1>0
  <2> QED BY <1>12, <2>1, ReadKeeps
<1>13. ASSUME UNCHANGED telnetVars PROVE StreamInv'
  BY <1>13 DEF StreamInv, telnetVars, delivered, Delivered
<1> QED BY <1>5, <1>6, <1>7, <1>8, <1>9, <1>10, <1>11, <1>12, <1>13 DEF TNext

-----------------------------------------------------------------------------
(* What the proxy shows, delivers and replies.                             *)

THEOREM StreamInvariant == TSpec => []StreamInv
BY StreamInit, StreamNext, PTL DEF TSpec

(* The parser's fields keep their types; above all, what it keeps of a      *)
(* subnegotiation never exceeds maxSubnegotiationBytes: TTypeOK.            *)
THEOREM ParserTypes == TSpec => []TTypeOK
<1>1. StreamInv => TTypeOK
  <2> SUFFICES ASSUME StreamInv PROVE TTypeOK OBVIOUS
  <2>1. parser \in Parser BY Fields DEF StreamInv, Delivered
  <2> QED BY <2>1 DEF TTypeOK, Parser, Payload, Names, Octet
<1> QED BY <1>1, StreamInvariant, PTL

(* However the stream of the MUD is cut into reads, and whatever text,      *)
(* commands, options and subnegotiations it is made of, process() of        *)
(* telnet-parser.ts shows and delivers exactly what was meant: ReadIsMeant. *)
THEOREM ReadTheorem == TSpec => []ReadIsMeant
<1>1. StreamInv => ReadIsMeant
  <2> SUFFICES ASSUME StreamInv, wire = <<>> PROVE ShownIsMeant /\ MessagesAreMeant
    BY DEF ReadIsMeant, ShownIsMeant, MessagesAreMeant
  <2>1. Delivered \in View /\ meant \in Meant /\ Agrees(Run(Delivered, wire), meant) BY DEF StreamInv
  <2>2. Run(Delivered, wire) = Delivered
    <3>1. 0 \in Octet BY DEF Octet
    <3> QED BY <3>1, RunShort
  <2>3. /\ Delivered.p = parser /\ Delivered.text = <<>> /\ Delivered.segments = shown
        /\ Delivered.messages = messages
    BY DEF Delivered
  <2>4. shown \in Seq(Mark) /\ parser \in Parser BY <2>1, <2>3, Fields
  <2>5. Shown(Delivered) = shown BY <2>3, <2>4 DEF Shown
  <2>6. shown = meant.shown /\ messages = meant.messages /\ (parser.passwordMode <=> meant.off)
    BY <2>1, <2>2, <2>3, <2>5 DEF Agrees
  <2>7. parser.passwordMode \in BOOLEAN /\ meant.off \in BOOLEAN BY <2>1, <2>4 DEF Parser, Meant
  <2>8. parser.passwordMode = meant.off
    <3>1. ASSUME NEW x \in BOOLEAN, NEW y \in BOOLEAN, x <=> y PROVE x = y
      <4>1. (x = TRUE \/ x = FALSE) /\ (y = TRUE \/ y = FALSE) OBVIOUS
      <4> QED BY <3>1, <4>1
    <3> QED BY <2>6, <2>7, <3>1
  <2> QED BY <2>6, <2>8 DEF ShownIsMeant, MessagesAreMeant
<1> QED BY <1>1, StreamInvariant, PTL

(* No reply of handleNegotiation or handleSubnegotiation starts a loop:     *)
(* whatever the MUD sends and however it is cut, every option is answered   *)
(* at most as often as it was asked for, and the six options with a flag of *)
(* their own at most once: NoNegotiationLoop.                               *)
THEOREM NegotiationTheorem == TSpec => []NoNegotiationLoop
<1>1. StreamInv => NoNegotiationLoop
  <2> SUFFICES ASSUME StreamInv PROVE NoNegotiationLoop OBVIOUS
  <2> DEFINE f == Run(Delivered, wire)
  <2>1. Delivered \in View /\ wire \in Seq(Octet) /\ Agrees(f, meant) /\ meant \in Meant BY DEF StreamInv
  <2>2. f \in View /\ Prefix(Delivered.replies, f.replies) BY <2>1, SameSelf, RunStepped DEF Stepped
  <2> HIDE DEF f
  <2>3. Delivered.replies = replies /\ replies \in Seq(Answer) /\ f.replies \in Seq(Answer)
    BY <2>1, <2>2, Fields DEF Delivered
  <2>4. AnswersOK(f.replies, f.p.negotiated, meant.asked) BY <2>1 DEF Agrees
  <2>5. ASSUME NEW opt, NEW i \in Answers(opt) PROVE i \in Places(f.replies, opt)
    <3>1. i \in 1 .. Len(replies) /\ Takes(replies[i], opt) BY <2>3, <2>5 DEF Answers, Takes
    <3> QED BY <2>2, <2>3, <3>1 DEF Prefix, Places
  <2>6. ASSUME NEW opt
        PROVE  Cardinality(Answers(opt)) <= IF opt \in Askable THEN meant.asked[opt] ELSE 0
    <3>1. Cardinality(Places(f.replies, opt)) <= Due(meant.asked, opt) BY <2>4 DEF AnswersOK
    <3>2. Due(meant.asked, opt) \in Nat BY <2>1 DEF Due, Meant
    <3>3. IsFiniteSet(Places(f.replies, opt)) /\ Cardinality(Places(f.replies, opt)) \in Nat
      BY <2>3, PlacesFinite
    <3>4. Answers(opt) \subseteq Places(f.replies, opt) BY <2>5
    <3>5. /\ Cardinality(Answers(opt)) <= Cardinality(Places(f.replies, opt))
          /\ Cardinality(Answers(opt)) \in Nat
      BY <3>3, <3>4, FS_Subset, FS_CardinalityType
    <3>6. Cardinality(Answers(opt)) <= Due(meant.asked, opt) BY <3>1, <3>2, <3>3, <3>5
    <3> QED BY <3>6 DEF Due
  <2>7. ASSUME NEW opt \in Once PROVE Cardinality(Answers(opt)) <= 1
    <3>1. Single(f.replies, opt) BY <2>4 DEF AnswersOK
    <3>2. \A i, j \in Answers(opt) : i = j BY <2>5, <3>1 DEF Single, Places
    <3>3. CASE Answers(opt) = {} BY <3>3, FS_EmptySet
    <3>4. CASE Answers(opt) # {}
      <4>1. PICK i : Answers(opt) = {i} BY <3>2, <3>4
      <4>2. Cardinality({i}) = 1 BY FS_Singleton
      <4> QED BY <4>1, <4>2
    <3> QED BY <3>3, <3>4
  <2> QED BY <2>6, <2>7 DEF NoNegotiationLoop, Once
<1> QED BY <1>1, StreamInvariant, PTL

=============================================================================
