---------------------------- MODULE MCConnections ----------------------------
(* Two connections of one address, one of another, in a limiter of two entries. *)
EXTENDS Connections, TLC

CONSTANTS c1, c2, c3, a1, a2
SharedAddress == (c1 :> a1) @@ (c2 :> a1) @@ (c3 :> a2)

(* The three kinds of limit are looked at one at a time: wrong secrets      *)
(* without frames and heartbeat, frames without secrets, and the heartbeat  *)
(* with frames of one connection.  Without it, how a socket ends does not   *)
(* matter to the limits.                                                    *)
OneLimitAtATime ==
  /\ ~(beating /\ secret)
  /\ secret => senders = {}
  /\ beating => senders \subseteq {c1}
  /\ ~beating => \A c \in Conns : state[c] \in {"new", "open"}
=============================================================================
