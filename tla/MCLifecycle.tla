---------------------------- MODULE MCLifecycle ----------------------------
(* Model values for Lifecycle: three devices and a ceiling of two, so that  *)
(* a new key evicts one; the file an earlier process left may hold a key    *)
(* that registered first and was used last, and one the other way round.    *)
EXTENDS Lifecycle
CONSTANTS k1, k2, k3
TheKeys == {k1, k2, k3}
Used(reg, at, count) == [signCount |-> count, registeredAt |-> reg, lastUsedAt |-> at]
EarlierFiles ==
  {Empty, [k \in {k1, k2} |-> IF k = k1 THEN Used(1, 3, 1) ELSE Used(2, 2, 1)],
   [k \in {k1} |-> Used(1, None, 0)]}
=============================================================================
