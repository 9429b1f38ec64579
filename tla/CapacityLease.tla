---------------------------- MODULE CapacityLease ----------------------------
(***************************************************************************)
(* What the connection limits promise, without the counters: every         *)
(* upstream connection holds one lease from the moment its dial is         *)
(* authorised until it ends, and a lease is only granted while the         *)
(* address and the process are below their limits.                         *)
(***************************************************************************)
EXTENDS Naturals, FiniteSets

CONSTANTS Conn, Address(_), MaxPerIP, MaxGlobal

VARIABLE held

SameAddress(S, c) == {x \in S : Address(x) = Address(c)}

Init == held = {}

(* One connection is granted a lease, after those in ended gave theirs back. *)
Grant(c, ended) ==
  /\ c \notin held
  /\ Cardinality(SameAddress(held \ ended, c)) < MaxPerIP
  /\ Cardinality(held \ ended) < MaxGlobal
  /\ held' = (held \ ended) \cup {c}

End(ended) == held' = held \ ended

Next ==
  \E ended \in SUBSET held :
    \/ End(ended)
    \/ \E c \in Conn : Grant(c, ended)

Spec == Init /\ [][Next]_held

=============================================================================
