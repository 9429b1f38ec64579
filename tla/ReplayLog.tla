------------------------------ MODULE ReplayLog ------------------------------
(***************************************************************************)
(* What the replay buffer of a session promises: the newest output, in     *)
(* order and without holes of its own making, within a byte budget and a   *)
(* number of chunks.  Every chunk takes a sequence number, kept or not.    *)
(***************************************************************************)
EXTENDS Integers, Sequences

CONSTANTS
  MaxSize,     \* bytes
  Capacity,    \* chunks
  Sizes,       \* chunk sizes, overhead included
  MaxSeq       \* bound: chunks ever appended

VARIABLES log, next

SizeOf(s) ==
  LET total[k \in 0 .. Len(s)] == IF k = 0 THEN 0 ELSE total[k - 1] + s[k].size
  IN  total[Len(s)]

(* Dropping the n oldest chunks makes room for one of this size. *)
Fits(n, size) ==
  LET kept == SubSeq(log, n + 1, Len(log)) IN
  SizeOf(kept) + size <= MaxSize /\ Len(kept) < Capacity

Init == log = <<>> /\ next = 0

(* As few of the oldest chunks as possible go; nothing goes for a chunk    *)
(* that could never fit.                                                   *)
Add(size) ==
  /\ next' = next + 1
  /\ \/ size > MaxSize /\ UNCHANGED log
     \/ \E n \in 0 .. Len(log) :
          /\ size <= MaxSize
          /\ Fits(n, size)
          /\ \A m \in 0 .. n - 1 : ~Fits(m, size)
          /\ log' = Append(SubSeq(log, n + 1, Len(log)),
                           [seq |-> next', size |-> size])

Clear == log' = <<>> /\ UNCHANGED next

Next == Clear \/ \E size \in Sizes : Add(size)

Spec == Init /\ [][Next]_<<log, next>>

=============================================================================
