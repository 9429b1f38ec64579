--------------------------- MODULE MCSessionProxy ---------------------------
(* Small instances of SessionProxy for TLC. *)
EXTENDS SessionProxy, TLC

CONSTANTS s1, s2, c1, c2, c3, ip1, d1, d2

(* Both sockets share an address, or the second one has none. *)
SharedAddress == s1 :> ip1 @@ s2 :> ip1
OneUnknown == s1 :> ip1 @@ s2 :> UnknownIP

(* Which socket sends which connect frame. *)
TwoFramesAndOne == c1 :> s1 @@ c2 :> s1 @@ c3 :> s2
OneFrameEach == c1 :> s1 @@ c2 :> s2

(* Device tokens are looked at in fixed mode alone, and a resume frame      *)
(* replaces the token of one session, while every session has one and      *)
(* none has reached the 24-hour timeout.                                   *)
TokensInFixedMode ==
  /\ arbitrary => \A c \in Conn : dev[c] = None
  /\ (\E c \in Conn : left[c] # {}) =>
       /\ Cardinality({c \in Conn : left[c] # {}}) = 1
       /\ \A c \in Conn : InMap(c) => dev[c] # None /\ ~idle[c]

(* The two frames of s1 are interchangeable. *)
FrameSymmetry == Permutations({c1, c2})

=============================================================================
