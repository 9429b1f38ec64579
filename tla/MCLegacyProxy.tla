---------------------------- MODULE MCLegacyProxy ----------------------------
(* Small instances of LegacyProxy for TLC. *)
EXTENDS LegacyProxy, TLC

CONSTANTS s1, s2, c1, l1, l2, l3, ip1

SharedAddress == s1 :> ip1 @@ s2 :> ip1

(* A typed frame on the second socket, and legacy frames on both: the first *)
(* socket sends a second one.                                               *)
TypedOnSecond == c1 :> s2
TwoLegacyAndOne == l1 :> s1 @@ l2 :> s1 @@ l3 :> s2

(* The two legacy frames of the first socket are interchangeable. *)
LegacySymmetry == Permutations({l1, l2})

=============================================================================
