--------------------------- MODULE CircularBuffer ---------------------------
(***************************************************************************)
(* CircularBuffer (circular-buffer.ts): the output a session keeps for     *)
(* replay, as a ring of slots with an index from sequence numbers to       *)
(* slots.  A chunk is its sequence number and its size in bytes, overhead  *)
(* included.                                                               *)
(***************************************************************************)
EXTENDS Integers, Sequences, FiniteSets, SequencesExt

CONSTANTS
  MaxSize,     \* maxSizeBytes
  Capacity,    \* initialCapacity, the number of slots
  Sizes,       \* sizes of the chunks the MUD sends
  MaxSeq,      \* bound: chunks ever appended
  Null

ASSUME BufferAssumption ==
  /\ MaxSize \in Nat /\ Capacity \in Nat \ {0} /\ MaxSeq \in Nat
  /\ Sizes \subseteq Nat \ {0}
  /\ Null \notin [seq : Nat, size : Nat]

VARIABLES
  chunks, head, tail, count, currentSize, sequenceCounter,
  sequenceIndex   \* sequence number -> slot, a partial function

vars == <<chunks, head, tail, count, currentSize, sequenceCounter, sequenceIndex>>

Slots == 0 .. Capacity - 1

(* The slot i places after the oldest chunk. *)
Slot(i) == (head + i) % Capacity

Init ==
  /\ chunks = [i \in Slots |-> Null]
  /\ head = 0 /\ tail = 0 /\ count = 0 /\ currentSize = 0
  /\ sequenceCounter = 0
  /\ sequenceIndex = [s \in {} |-> 0]

-----------------------------------------------------------------------------
(* The n oldest chunks, oldest first, and the bytes of a sequence of chunks. *)
Oldest(n) == [i \in 1 .. n |-> chunks[Slot(i - 1)]]

Bytes(s) ==
  LET total[k \in 0 .. Len(s)] == IF k = 0 THEN 0 ELSE total[k - 1] + s[k].size
  IN  total[Len(s)]

Freed(n) == Bytes(Oldest(n))

(* Mutant of EvictedForSize: one chunk more than needed. *)
EvictedForSizeStrict(size) ==
  Min({n \in 0 .. count : currentSize - Freed(n) + size < MaxSize})

(* The eviction loop: chunks go from the head until the new one fits. *)
EvictedForSize(size) ==
  Min({n \in 0 .. count : currentSize - Freed(n) + size <= MaxSize})

(* Then one more if every slot is still in use. *)
Evicted(size) ==
  LET n == EvictedForSize(size) IN IF count - n = Capacity THEN n + 1 ELSE n

(* append of a chunk that exceeds the whole buffer: only numbered. *)
AppendRefused(size) ==
  /\ sequenceCounter < MaxSeq
  /\ size > MaxSize
  /\ sequenceCounter' = sequenceCounter + 1
  /\ UNCHANGED <<chunks, head, tail, count, currentSize, sequenceIndex>>

AppendStored(size) ==
  /\ sequenceCounter < MaxSeq
  /\ size <= MaxSize
  /\ LET seq  == sequenceCounter + 1
         n    == Evicted(size)
         gone == {Slot(i) : i \in 0 .. n - 1}
         kept == {s \in DOMAIN sequenceIndex : sequenceIndex[s] \notin gone}
     IN /\ sequenceCounter' = seq
        /\ chunks' = [i \in Slots |->
             IF i = tail THEN [seq |-> seq, size |-> size]
             ELSE IF i \in gone THEN Null ELSE chunks[i]]
        /\ sequenceIndex' = [s \in kept \cup {seq} |->
             IF s = seq THEN tail ELSE sequenceIndex[s]]
        /\ head' = Slot(n)
        /\ tail' = (tail + 1) % Capacity
        /\ count' = count - n + 1
        /\ currentSize' = currentSize - Freed(n) + size

(* clear, when the session closes; numbering goes on. *)
Clear ==
  /\ chunks' = [i \in Slots |-> Null]
  /\ head' = 0 /\ tail' = 0 /\ count' = 0 /\ currentSize' = 0
  /\ sequenceIndex' = [s \in {} |-> 0]
  /\ UNCHANGED sequenceCounter

Next == Clear \/ \E size \in Sizes : AppendRefused(size) \/ AppendStored(size)

Spec == Init /\ [][Next]_vars

-----------------------------------------------------------------------------
(* Queries.                                                                *)

(* Mutant of StartOffset: the acknowledged chunk is sent again. *)
StartOffsetInclusive(sequence) ==
  IF sequence \in DOMAIN sequenceIndex
  THEN (sequenceIndex[sequence] + Capacity - head) % Capacity
  ELSE LET newer == {i \in 0 .. count - 1 : chunks[Slot(i)].seq > sequence}
       IN IF newer = {} THEN count ELSE Min(newer)

(* replayAfter: the offset of the first chunk to send, by index when the   *)
(* acknowledged chunk is still here and by scanning when it is not.        *)
StartOffset(sequence) ==
  IF sequence \in DOMAIN sequenceIndex
  THEN ((sequenceIndex[sequence] + Capacity - head) % Capacity) + 1
  ELSE LET newer == {i \in 0 .. count - 1 : chunks[Slot(i)].seq > sequence}
       IN IF newer = {} THEN count ELSE Min(newer)

(* The elements of s at the places in keep. *)
Pick(s, keep) ==
  [j \in 1 .. Cardinality(keep) |-> s[CHOOSE i \in keep : Cardinality({k \in keep : k <= i}) = j]]

ReplayAfter(sequence) ==
  LET first == StartOffset(sequence)
      rest  == [i \in 1 .. (IF first < count THEN count - first ELSE 0) |-> chunks[Slot(first + i - 1)]]
  IN  Pick(rest, {i \in DOMAIN rest : rest[i] # Null})

-----------------------------------------------------------------------------
(* Properties.                                                             *)

(* The ring is well typed: the pointers stay in the ring, and neither the  *)
(* number of chunks nor their bytes exceeds the limits append enforces.    *)
TypeOK ==
  /\ chunks \in [Slots -> {Null} \cup [seq : 1 .. MaxSeq, size : Sizes]]
  /\ head \in Slots /\ tail \in Slots
  /\ count \in 0 .. Capacity
  /\ currentSize \in 0 .. MaxSize
  /\ sequenceCounter \in 0 .. MaxSeq
  /\ DOMAIN sequenceIndex \subseteq 1 .. MaxSeq
  /\ \A s \in DOMAIN sequenceIndex : sequenceIndex[s] \in Slots

(* The retained chunks, oldest first. *)
Retained == Oldest(count)

(* A resuming client gets every retained chunk it has not seen, once and   *)
(* in order, for every lastSeq it may report: still retained, evicted,     *)
(* refused, cleared, or never issued.                                      *)
ReplayExact ==
  \A sequence \in 0 .. MaxSeq + 1 :
    \E n \in 0 .. count :
      /\ ReplayAfter(sequence) = SubSeq(Retained, n + 1, count)
      /\ \A i \in 1 .. count : Retained[i].seq > sequence <=> i > n

Log == INSTANCE ReplayLog WITH log <- Retained, next <- sequenceCounter

(* The ring implements the log it stands for: it drops the oldest chunks   *)
(* only, no more of them than the new chunk needs, and refuses the         *)
(* oversized one without dropping any.                                     *)
ImplementsLog == Log!Spec

=============================================================================
