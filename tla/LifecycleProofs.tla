--------------------------- MODULE LifecycleProofs ---------------------------
(***************************************************************************)
(* What App Attest and the drain promise holds for every set of devices,   *)
(* every time to live, ceiling, delay, grace period and deadline, and for  *)
(* every number of processes, challenges and registrations.                *)
(*                                                                         *)
(* None of the four invariants is inductive.  A nonce passes once because  *)
(* the challenge store holds no nonce that has passed and none of another  *)
(* process; no sign count is accepted again because none that counts       *)
(* exceeds the one of its entry, in memory while the process runs and on   *)
(* file between two processes; a drained exit keeps the keys because a drained server has no    *)
(* body left to complete and no save pending; and the deadline is kept     *)
(* because the clock of the model, like the event loop, cannot pass a      *)
(* timer that is due.                                                      *)
(***************************************************************************)
EXTENDS Lifecycle, FiniteSetTheorems, SequenceTheorems, TLAPS

AttestTypeOK ==
  /\ now \in Nat /\ up \in BOOLEAN /\ lives \in Nat /\ issued \in Nat
  /\ IsStore(attestedKeys) /\ Cardinality(DOMAIN attestedKeys) <= MaxAttestedKeys
  /\ IsStore(file)
  /\ bodies \subseteq [nonce : Nat, key : Keys]
  /\ saveTimer \in Nat \union {None}
  /\ born \in Seq([at : Nat, life : Nat]) /\ Len(born) = issued
  /\ honoured \subseteq 1..issued
  /\ seen \in [Keys -> SUBSET Nat]

(* A nonce in the store was issued by this process and has not passed. *)
Outstanding ==
  \A n \in DOMAIN challenges :
    /\ n \in 1..issued /\ n \notin honoured
    /\ born[n].life = lives /\ challenges[n] = born[n].at + NonceTTL

(* No count accepted from a key exceeds the one its entry holds. *)
CountsBounded ==
  \A k \in DOMAIN attestedKeys :
    \A c \in seen[k] : c <= attestedKeys[k].signCount

(* Between two processes there is nothing but the file. *)
DownInv ==
  ~up => /\ DOMAIN challenges = {} /\ bodies = {} /\ DOMAIN attestedKeys = {}
         /\ staged = None /\ saveTimer = None
         /\ \A k \in DOMAIN file : \A c \in seen[k] : c <= file[k].signCount
         /\ stage = "serving"

(* Where the drain is, when it started and what is left to do. *)
DrainInv ==
  /\ stage \in {"serving", "grace", "listener", "flushing", "unsaved", "exiting"}
  /\ stage = "serving" => startedAt = None
  /\ stage \in {"grace", "listener"} => startedAt \in Nat /\ deadline = startedAt + Deadline
  /\ startedAt # None => startedAt \in Nat /\ now <= startedAt + Deadline
  /\ drained \in BOOLEAN
  /\ drained => /\ stage \in {"flushing", "unsaved", "exiting"}
                /\ bodies = {} /\ saveTimer = None

SaveInv ==
  /\ staged # None => staged = attestedKeys /\ saveTimer = None
  /\ AckedIsSavedOrPending
  /\ DrainedExitKeepsKeys

NonceInv == NonceSingleUse /\ Outstanding
CountInv == CountsGrow /\ CountsBounded

LifeInv == AttestTypeOK /\ NonceInv /\ CountInv /\ DownInv /\ DrainInv /\ SaveInv

-----------------------------------------------------------------------------
(* The operators of the key store.                                         *)

(* Sets of keys are finite. *)
LEMMA KeysFinite ==
  ASSUME NEW S \in SUBSET Keys
  PROVE  IsFiniteSet(S) /\ Cardinality(S) \in Nat
<1>1. IsFiniteSet(S) BY FS_Subset, AttestAssumption
<1> QED BY <1>1, FS_CardinalityType

(* A store is no None. *)
LEMMA StoreIsNotNone ==
  ASSUME NEW f, IsStore(f)
  PROVE  f # None
BY AttestAssumption DEF IsStore

(* A store is a file JSON.parse accepts. *)
LEMMA StoreIsNotTorn ==
  ASSUME NEW f, IsStore(f)
  PROVE  f # Torn
<1>1. DOMAIN Torn = {None} BY DEF Torn
<1> QED BY <1>1, AttestAssumption DEF IsStore

(* When an entry was last active is a time. *)
LEMMA LastActivityType ==
  ASSUME NEW e \in Entries
  PROVE  LastActivity(e) \in Nat
BY DEF Entries, LastActivity

(* Without leaves the other entries alone. *)
LEMMA WithoutStore ==
  ASSUME NEW f, IsStore(f), NEW S
  PROVE  /\ IsStore(Without(f, S)) /\ DOMAIN Without(f, S) = DOMAIN f \ S
         /\ \A x \in DOMAIN f \ S : Without(f, S)[x] = f[x]
BY DEF IsStore, Without

(* With sets one entry. *)
LEMMA WithStore ==
  ASSUME NEW f, IsStore(f), NEW k \in Keys, NEW e \in Entries
  PROVE  /\ IsStore(With(f, k, e)) /\ DOMAIN With(f, k, e) = DOMAIN f \union {k}
         /\ With(f, k, e)[k] = e
         /\ \A x \in DOMAIN f \ {k} : With(f, k, e)[x] = f[x]
BY DEF IsStore, With

(* setAttestedKey: the store stays a store within its ceiling, holds the    *)
(* entry, and loses only the stale or the one longest unused.               *)
LEMMA SetKeeps ==
  ASSUME AttestTypeOK, NEW k \in Keys, NEW e \in Entries, SetAttestedKey(k, e)
  PROVE  /\ IsStore(attestedKeys') /\ Cardinality(DOMAIN attestedKeys') <= MaxAttestedKeys
         /\ k \in DOMAIN attestedKeys' /\ attestedKeys'[k] = e
         /\ \A j \in DOMAIN attestedKeys' \ {k} :
              j \in DOMAIN attestedKeys /\ attestedKeys'[j] = attestedKeys[j]
         /\ \A j \in DOMAIN attestedKeys \ DOMAIN attestedKeys' :
              \/ now - LastActivity(attestedKeys[j]) > KeyTTL
              \/ \A i \in DOMAIN attestedKeys \intersect DOMAIN attestedKeys' :
                   LastActivity(attestedKeys[j]) <= LastActivity(attestedKeys[i])
<1> DEFINE stale == Stale(attestedKeys)
           kept == Without(attestedKeys, stale)
<1>1. IsStore(attestedKeys) /\ Cardinality(DOMAIN attestedKeys) <= MaxAttestedKeys
      /\ MaxAttestedKeys \in Nat \ {0}
  BY AttestAssumption DEF AttestTypeOK
<1>2. /\ IsStore(kept) /\ DOMAIN kept = DOMAIN attestedKeys \ stale
      /\ \A x \in DOMAIN kept : kept[x] = attestedKeys[x]
  BY <1>1, WithoutStore
<1>3. \A j \in stale : now - LastActivity(attestedKeys[j]) > KeyTTL
  BY DEF Stale
<1>4. DOMAIN attestedKeys \in SUBSET Keys /\ DOMAIN kept \in SUBSET Keys
      /\ DOMAIN kept \in SUBSET DOMAIN attestedKeys
  BY <1>1, <1>2 DEF IsStore
<1>5. /\ IsFiniteSet(DOMAIN kept) /\ Cardinality(DOMAIN kept) \in Nat
      /\ IsFiniteSet(DOMAIN attestedKeys) /\ Cardinality(DOMAIN attestedKeys) \in Nat
  BY <1>4, KeysFinite
<1>6. /\ Cardinality(DOMAIN kept) <= Cardinality(DOMAIN attestedKeys)
      /\ Cardinality(DOMAIN attestedKeys) = Cardinality(DOMAIN kept)
           => DOMAIN attestedKeys = DOMAIN kept
  BY <1>4, <1>5, FS_Subset
<1>7. \/ /\ k \in DOMAIN kept \/ Cardinality(DOMAIN kept) < MaxAttestedKeys
         /\ attestedKeys' = With(kept, k, e)
      \/ /\ k \notin DOMAIN kept /\ Cardinality(DOMAIN kept) >= MaxAttestedKeys
         /\ \E old \in Stalest(kept) : attestedKeys' = With(Without(kept, {old}), k, e)
  BY DEF SetAttestedKey
<1> HIDE DEF stale, kept
<1>8. CASE /\ k \in DOMAIN kept \/ Cardinality(DOMAIN kept) < MaxAttestedKeys
           /\ attestedKeys' = With(kept, k, e)
  <2>1. /\ IsStore(attestedKeys') /\ DOMAIN attestedKeys' = DOMAIN kept \union {k}
        /\ attestedKeys'[k] = e
        /\ \A x \in DOMAIN kept \ {k} : attestedKeys'[x] = kept[x]
    BY <1>2, <1>8, WithStore
  <2>2. Cardinality(DOMAIN kept \union {k}) =
          IF k \in DOMAIN kept THEN Cardinality(DOMAIN kept) ELSE Cardinality(DOMAIN kept) + 1
    BY <1>5, FS_AddElement
  <2>3. Cardinality(DOMAIN attestedKeys') <= MaxAttestedKeys
    <3>1. CASE k \in DOMAIN kept BY <3>1, <2>1, <2>2, <1>1, <1>5, <1>6
    <3>2. CASE k \notin DOMAIN kept BY <3>2, <2>1, <2>2, <1>1, <1>5, <1>6, <1>8
    <3> QED BY <3>1, <3>2
  <2>4. DOMAIN attestedKeys \ DOMAIN attestedKeys' \subseteq stale BY <1>2, <2>1
  <2> QED BY <1>2, <1>3, <2>1, <2>3, <2>4
<1>9. CASE /\ k \notin DOMAIN kept /\ Cardinality(DOMAIN kept) >= MaxAttestedKeys
           /\ \E old \in Stalest(kept) : attestedKeys' = With(Without(kept, {old}), k, e)
  <2> PICK old \in Stalest(kept) : attestedKeys' = With(Without(kept, {old}), k, e)
    BY <1>9
  <2>1. /\ old \in DOMAIN kept
        /\ \A j \in DOMAIN kept : LastActivity(kept[old]) <= LastActivity(kept[j])
    BY DEF Stalest
  <2> DEFINE room == Without(kept, {old})
  <2>2. /\ IsStore(room) /\ DOMAIN room = DOMAIN kept \ {old}
        /\ \A x \in DOMAIN room : room[x] = kept[x]
    BY <1>2 DEF IsStore, Without
  <2> HIDE DEF room
  <2>3. attestedKeys' = With(room, k, e) BY DEF room
  <2>4. /\ IsStore(attestedKeys') /\ DOMAIN attestedKeys' = DOMAIN room \union {k}
        /\ attestedKeys'[k] = e
        /\ \A x \in DOMAIN room \ {k} : attestedKeys'[x] = room[x]
    BY <2>2, <2>3 DEF IsStore, With
  <2>5. DOMAIN attestedKeys = DOMAIN kept
    BY <1>1, <1>5, <1>6, <1>9
  <2>6. Cardinality(DOMAIN room) = Cardinality(DOMAIN kept) - 1 /\ IsFiniteSet(DOMAIN room)
    BY <1>5, <2>1, <2>2, FS_RemoveElement
  <2>7. Cardinality(DOMAIN room \union {k}) = Cardinality(DOMAIN room) + 1
    BY <1>9, <2>2, <2>6, FS_AddElement
  <2>8. Cardinality(DOMAIN attestedKeys') <= MaxAttestedKeys
    BY <1>1, <1>5, <1>6, <2>4, <2>6, <2>7
  <2>9. \A j \in DOMAIN attestedKeys \ DOMAIN attestedKeys' : j = old
    BY <2>2, <2>4, <2>5
  <2> QED BY <1>2, <2>1, <2>2, <2>4, <2>5, <2>8, <2>9
<1> QED BY <1>7, <1>8, <1>9

(* loadAttestedKeys: what is loaded is a store within the ceiling whose     *)
(* keys and counts are those of the file; if the file fits, only stale keys *)
(* are left behind.                                                         *)
LEMMA LoadedKeeps ==
  ASSUME now \in Nat, NEW f, IsStore(f), NEW g \in Loaded(f)
  PROVE  /\ IsStore(g) /\ Cardinality(DOMAIN g) <= MaxAttestedKeys
         /\ DOMAIN g \subseteq DOMAIN f
         /\ \A k \in DOMAIN g : g[k].signCount = f[k].signCount
         /\ Cardinality(DOMAIN f) <= MaxAttestedKeys =>
              \A k \in DOMAIN f :
                f[k].lastUsedAt = None \/ now - f[k].lastUsedAt <= KeyTTL => k \in DOMAIN g
<1> DEFINE dated == [k \in DOMAIN f |-> IF f[k].lastUsedAt = None
                                    THEN [f[k] EXCEPT !.lastUsedAt = now] ELSE f[k]]
           fresh == Without(dated, Stale(dated))
<1>1. /\ MaxAttestedKeys \in Nat /\ KeyTTL \in Nat /\ None \notin Nat
      /\ DOMAIN f \subseteq Keys /\ \A k \in DOMAIN f : f[k] \in Entries
  BY AttestAssumption DEF IsStore
<1>2. /\ IsStore(dated) /\ DOMAIN dated = DOMAIN f
      /\ \A k \in DOMAIN f : /\ dated[k].signCount = f[k].signCount
                             /\ f[k].lastUsedAt = None => dated[k].lastUsedAt = now
                             /\ f[k].lastUsedAt # None => dated[k].lastUsedAt = f[k].lastUsedAt
  BY <1>1 DEF IsStore, Entries
<1>3. PICK S \in SUBSET DOMAIN fresh :
        /\ Cardinality(S) <= MaxAttestedKeys
        /\ S = DOMAIN fresh \/ Cardinality(S) = MaxAttestedKeys
        /\ g = Without(fresh, DOMAIN fresh \ S)
  BY DEF Loaded
<1> HIDE DEF dated
<1>4. /\ IsStore(fresh) /\ DOMAIN fresh = DOMAIN f \ Stale(dated)
      /\ \A k \in DOMAIN fresh : fresh[k] = dated[k]
  BY <1>2 DEF IsStore, Without
<1> HIDE DEF fresh
<1>5. /\ IsStore(g) /\ DOMAIN g = DOMAIN fresh \ (DOMAIN fresh \ S)
      /\ \A k \in DOMAIN g : g[k] = fresh[k]
  BY <1>3, <1>4 DEF IsStore, Without
<1>6. DOMAIN g = S BY <1>3, <1>5
<1>7. ASSUME Cardinality(DOMAIN f) <= MaxAttestedKeys, NEW k \in DOMAIN f,
             f[k].lastUsedAt = None \/ now - f[k].lastUsedAt <= KeyTTL
      PROVE  k \in DOMAIN g
  <2>1. dated[k] \in Entries /\ dated[k].lastUsedAt \in Nat
    BY <1>1, <1>2 DEF IsStore, Entries
  <2>2. LastActivity(dated[k]) = dated[k].lastUsedAt
    BY <1>1, <2>1 DEF LastActivity
  <2>3. now - dated[k].lastUsedAt <= KeyTTL
    BY <1>1, <1>2, <1>7
  <2>4. k \notin Stale(dated) BY <1>1, <2>1, <2>2, <2>3 DEF Stale
  <2>5. DOMAIN fresh \in SUBSET DOMAIN f /\ DOMAIN f \in SUBSET Keys BY <1>1, <1>4
  <2>6. /\ IsFiniteSet(DOMAIN f) /\ IsFiniteSet(DOMAIN fresh)
        /\ Cardinality(DOMAIN f) \in Nat /\ Cardinality(DOMAIN fresh) \in Nat
    BY <2>5, KeysFinite
  <2>7. Cardinality(DOMAIN fresh) <= Cardinality(DOMAIN f) BY <2>5, <2>6, FS_Subset
  <2>8. /\ Cardinality(S) <= Cardinality(DOMAIN fresh)
        /\ Cardinality(DOMAIN fresh) = Cardinality(S) => DOMAIN fresh = S
    BY <1>3, <2>6, FS_Subset
  <2>9. S = DOMAIN fresh BY <1>1, <1>3, <1>7, <2>6, <2>7, <2>8
  <2> QED BY <1>4, <1>6, <2>4, <2>9
<1> QED BY <1>2, <1>3, <1>4, <1>5, <1>6, <1>7

-----------------------------------------------------------------------------
(* Which steps touch what.  A registration or an upgrade that passes sets   *)
(* one key's entry and arms the save; every other step of the store leaves  *)
(* the keys alone, loads them or ends the process.                          *)

(* What consuming a nonce does to the challenges and the history. *)
LEMMA ConsumeKeeps ==
  ASSUME AttestTypeOK, NonceInv, NEW n \in Nat, ConsumeNonce(n)
  PROVE  /\ honoured' \subseteq 1..issued
         /\ ~misused'
         /\ \A m \in DOMAIN challenges' :
              /\ m \in DOMAIN challenges /\ challenges'[m] = challenges[m]
              /\ m \notin honoured'
<1>1. /\ DOMAIN challenges' = DOMAIN challenges \ {n}
      /\ \A m \in DOMAIN challenges' : challenges'[m] = challenges[m]
  BY DEF ConsumeNonce, Without
<1>2. CASE n \in Live
  <2>1. n \in DOMAIN challenges /\ now <= challenges[n] BY <1>2 DEF Live
  <2>2. /\ honoured' = honoured \union {n}
        /\ misused' = (misused \/ n \in honoured \/ born[n].life # lives
                       \/ now > born[n].at + NonceTTL)
    BY <1>2 DEF ConsumeNonce, Honour
  <2>3. /\ n \in 1..issued /\ n \notin honoured /\ born[n].life = lives
        /\ challenges[n] = born[n].at + NonceTTL
    BY <2>1 DEF NonceInv, Outstanding
  <2>4. born[n].at \in Nat /\ NonceTTL \in Nat
    <3>1. NonceTTL \in Nat BY AttestAssumption
    <3>2. born[n] \in [at : Nat, life : Nat] BY <2>3, ElementOfSeq DEF AttestTypeOK
    <3> QED BY <3>1, <3>2
  <2>5. ~misused'
    <3>1. ~(now > born[n].at + NonceTTL) BY <2>1, <2>3, <2>4 DEF AttestTypeOK
    <3> QED BY <2>2, <2>3, <3>1 DEF NonceInv, NonceSingleUse
  <2> QED BY <1>1, <2>2, <2>3, <2>5 DEF AttestTypeOK, NonceInv, Outstanding
<1>3. CASE n \notin Live
  <2>1. honoured' = honoured /\ misused' = misused BY <1>3 DEF ConsumeNonce
  <2> QED BY <1>1, <2>1 DEF AttestTypeOK, NonceInv, NonceSingleUse, Outstanding
<1> QED BY <1>2, <1>3

(* A step of the key store that admits count c for key k, or none. *)
Registered(k) ==
  /\ k \in Keys /\ SetAttestedKey(k, [signCount |-> 0, registeredAt |-> now, lastUsedAt |-> None])
  /\ seen' = [seen EXCEPT ![k] = {}] /\ replayed' = replayed
  /\ saveTimer' = now + SaveDelay

Counted(k, c) ==
  /\ k \in DOMAIN attestedKeys /\ c \in Nat /\ c > attestedKeys[k].signCount
  /\ attestedKeys' = [attestedKeys EXCEPT ![k].signCount = c, ![k].lastUsedAt = now]
  /\ seen' = [seen EXCEPT ![k] = @ \union {c}]
  /\ replayed' = (replayed \/ \E old \in seen[k] : c <= old)
  /\ saveTimer' = now + SaveDelay

Unadmitted == UNCHANGED <<attestedKeys, saveTimer, seen, replayed>>

(* A registration keeps the types and the counts. *)
LEMMA RegisteredKeeps ==
  ASSUME AttestTypeOK, CountInv, NEW k, Registered(k)
  PROVE  /\ IsStore(attestedKeys') /\ Cardinality(DOMAIN attestedKeys') <= MaxAttestedKeys
         /\ saveTimer' \in Nat
         /\ seen' \in [Keys -> SUBSET Nat]
         /\ CountInv'
<1> DEFINE e == [signCount |-> 0, registeredAt |-> now, lastUsedAt |-> None]
<1>1. k \in Keys /\ SetAttestedKey(k, e) BY DEF Registered
<1>2. e \in Entries BY DEF Entries, AttestTypeOK
<1> HIDE DEF e
<1>3. /\ IsStore(attestedKeys') /\ Cardinality(DOMAIN attestedKeys') <= MaxAttestedKeys
      /\ \A j \in DOMAIN attestedKeys' \ {k} :
           j \in DOMAIN attestedKeys /\ attestedKeys'[j] = attestedKeys[j]
  BY <1>1, <1>2, SetKeeps
<1>4. saveTimer' \in Nat BY AttestAssumption DEF Registered, AttestTypeOK
<1>5. /\ seen' \in [Keys -> SUBSET Nat] /\ seen'[k] = {}
      /\ \A j \in Keys \ {k} : seen'[j] = seen[j]
  BY <1>1 DEF Registered, AttestTypeOK
<1>6. CountsGrow' BY DEF Registered, CountInv, CountsGrow
<1>7. CountsBounded'
  <2> SUFFICES ASSUME NEW j \in DOMAIN attestedKeys', NEW c \in seen'[j]
               PROVE  c <= attestedKeys'[j].signCount
    BY DEF CountsBounded
  <2>1. j # k BY <1>5
  <2>2. j \in Keys BY <1>3 DEF IsStore
  <2> QED BY <1>3, <1>5, <2>1, <2>2 DEF CountInv, CountsBounded
<1> QED BY <1>3, <1>4, <1>5, <1>6, <1>7 DEF CountInv

(* An accepted assertion keeps the types and the counts. *)
LEMMA CountedKeeps ==
  ASSUME AttestTypeOK, CountInv, NEW k, NEW c, Counted(k, c)
  PROVE  /\ IsStore(attestedKeys') /\ Cardinality(DOMAIN attestedKeys') <= MaxAttestedKeys
         /\ DOMAIN attestedKeys' = DOMAIN attestedKeys
         /\ saveTimer' \in Nat
         /\ seen' \in [Keys -> SUBSET Nat]
         /\ CountInv'
<1>1. /\ k \in DOMAIN attestedKeys /\ c \in Nat /\ c > attestedKeys[k].signCount
      /\ attestedKeys' = [attestedKeys EXCEPT ![k].signCount = c, ![k].lastUsedAt = now]
      /\ seen' = [seen EXCEPT ![k] = seen[k] \union {c}]
      /\ replayed' = (replayed \/ \E old \in seen[k] : c <= old)
  BY DEF Counted
<1>2. k \in Keys /\ attestedKeys[k] \in Entries /\ attestedKeys[k].signCount \in Nat
  BY <1>1 DEF AttestTypeOK, IsStore, Entries
<1>3. /\ IsStore(attestedKeys') /\ DOMAIN attestedKeys' = DOMAIN attestedKeys
      /\ attestedKeys'[k].signCount = c
      /\ \A j \in DOMAIN attestedKeys \ {k} : attestedKeys'[j] = attestedKeys[j]
  <2>1. /\ DOMAIN attestedKeys \subseteq Keys /\ now \in Nat
        /\ attestedKeys \in [DOMAIN attestedKeys -> Entries]
    BY DEF AttestTypeOK, IsStore
  <2>2. /\ DOMAIN attestedKeys' = DOMAIN attestedKeys
        /\ attestedKeys'[k] = [attestedKeys[k] EXCEPT !.signCount = c, !.lastUsedAt = now]
        /\ \A j \in DOMAIN attestedKeys \ {k} : attestedKeys'[j] = attestedKeys[j]
    BY <1>1, <2>1
  <2>3. attestedKeys'[k] \in Entries /\ attestedKeys'[k].signCount = c
    BY <1>1, <1>2, <2>1, <2>2 DEF Entries
  <2>4. attestedKeys' \in [DOMAIN attestedKeys -> Entries] BY <1>1, <2>1, <2>2, <2>3
  <2> QED BY <2>1, <2>2, <2>3, <2>4 DEF IsStore
<1>4. saveTimer' \in Nat BY AttestAssumption DEF Counted, AttestTypeOK
<1>5. /\ seen' \in [Keys -> SUBSET Nat] /\ seen'[k] = seen[k] \union {c}
      /\ \A j \in Keys \ {k} : seen'[j] = seen[j]
  BY <1>1, <1>2 DEF AttestTypeOK
<1>6. \A old \in seen[k] : old \in Nat /\ old < c
  <2> TAKE old \in seen[k]
  <2>1. old \in Nat BY <1>2 DEF AttestTypeOK
  <2>2. old <= attestedKeys[k].signCount BY <1>1 DEF CountInv, CountsBounded
  <2> QED BY <1>1, <1>2, <2>1, <2>2
<1>7. CountsGrow'
  <2>1. c \in Nat /\ \A old \in seen[k] : ~(c <= old) BY <1>1, <1>6
  <2>2. ~(\E old \in seen[k] : c <= old) BY <2>1
  <2>3. ~replayed BY DEF CountInv, CountsGrow
  <2>4. ~replayed' BY <1>1, <2>2, <2>3
  <2> QED BY <2>4 DEF CountsGrow
<1>8. CountsBounded'
  <2> SUFFICES ASSUME NEW j \in DOMAIN attestedKeys', NEW old \in seen'[j]
               PROVE  old <= attestedKeys'[j].signCount
    BY DEF CountsBounded
  <2>1. j \in DOMAIN attestedKeys /\ j \in Keys BY <1>3 DEF IsStore
  <2>2. CASE j # k BY <1>3, <1>5, <2>1, <2>2 DEF CountInv, CountsBounded
  <2>3. CASE j = k BY <1>1, <1>3, <1>5, <1>6, <2>3
  <2> QED BY <2>2, <2>3
<1> QED BY <1>3, <1>4, <1>5, <1>7, <1>8 DEF CountInv, AttestTypeOK

(* A completed registration body. *)
LEMMA RegisterStep ==
  ASSUME AttestTypeOK, NEW b, NEW d, RegisterCompletes(b, d)
  PROVE  /\ Idle /\ b \in bodies /\ bodies' \subseteq bodies /\ b.nonce \in Nat
         /\ ConsumeNonce(b.nonce)
         /\ Unadmitted \/ Registered(b.key)
         /\ UNCHANGED <<now, up, lives, issued, file, staged, born>>
<1>1. b \in [nonce : Nat, key : Keys] BY DEF RegisterCompletes, AttestTypeOK
<1> QED BY <1>1 DEF RegisterCompletes, Registered, Unadmitted, DebouncedSave

(* An upgrade with App Attest headers. *)
LEMMA AssertionStep ==
  ASSUME AttestTypeOK, Assertions
  PROVE  /\ Idle /\ \E n \in Nat : ConsumeNonce(n)
         /\ Unadmitted \/ \E k \in Keys, c \in Nat : Counted(k, c)
         /\ UNCHANGED <<now, up, lives, issued, bodies, file, staged, born>>
<1>1. PICK n \in 1..issued, k \in Keys, c \in 1..MaxCount, d \in Defects : Assertion(n, k, c, d)
  BY DEF Assertions
<1>2. n \in Nat /\ c \in Nat BY AttestAssumption DEF AttestTypeOK
<1>3. /\ Idle /\ ConsumeNonce(n)
      /\ UNCHANGED <<now, up, lives, issued, bodies, file, staged, born>>
  BY <1>1 DEF Assertion
<1>4. Unadmitted \/ Counted(k, c)
  <2>1. CASE /\ n \in Live /\ k \in DOMAIN attestedKeys
             /\ Passes(d) /\ CountPasses(c, attestedKeys[k])
    BY <1>1, <1>2, <2>1 DEF Assertion, Counted, DebouncedSave, CountPasses
  <2>2. CASE ~(/\ n \in Live /\ k \in DOMAIN attestedKeys
               /\ Passes(d) /\ CountPasses(c, attestedKeys[k]))
    BY <1>1, <2>2 DEF Assertion, Unadmitted
  <2> QED BY <2>1, <2>2
<1> QED BY <1>2, <1>3, <1>4

-----------------------------------------------------------------------------
(* The invariant, part by part.                                            *)

(* Every step is one of these. *)
LEMMA LifeSteps ==
  ASSUME LifeNext
  PROVE  \/ GenerateChallenge /\ Quiet /\ Listening
         \/ \E n \in 1..issued, k \in Keys : RegisterArrives(n, k) /\ Quiet /\ Listening
         \/ \E b \in bodies : RegisterAbandoned(b) /\ Quiet
         \/ \E b \in bodies, d \in Defects : RegisterCompletes(b, d) /\ Quiet
         \/ LAssertions \/ ConnEnds \/ LSaveTimer \/ LRename
         \/ Signal \/ GraceEnds \/ ListenerCloses \/ FlushFails \/ DeadlineFires
         \/ Ends \/ LRestart \/ LTick
BY DEF LifeNext, LRequests

(* A challenge is issued by this process. *)
LEMMA GenerateKeeps ==
  ASSUME AttestTypeOK, NonceInv, GenerateChallenge
  PROVE  /\ issued' \in Nat
         /\ born' \in Seq([at : Nat, life : Nat]) /\ Len(born') = issued'
         /\ honoured' \subseteq 1..issued'
         /\ NonceInv'
<1> DEFINE r == [at |-> now, life |-> lives]
<1>1. /\ issued' = issued + 1 /\ born' = Append(born, r)
      /\ UNCHANGED <<now, lives, honoured, misused>>
  BY DEF GenerateChallenge
<1>2. \A n \in DOMAIN challenges' :
        \/ n = issued' /\ challenges'[n] = now + NonceTTL
        \/ n \in DOMAIN challenges /\ n # issued' /\ challenges'[n] = challenges[n]
  BY DEF GenerateChallenge, With, Without
<1>3. r \in [at : Nat, life : Nat] BY DEF AttestTypeOK
<1>4. /\ issued \in Nat /\ Len(born) = issued /\ honoured \subseteq 1..issued
      /\ born \in Seq([at : Nat, life : Nat])
  BY DEF AttestTypeOK
<1>5. /\ born' \in Seq([at : Nat, life : Nat]) /\ Len(born') = issued'
      /\ born'[issued'] = r /\ \A n \in 1..issued : born'[n] = born[n]
  BY <1>1, <1>3, <1>4
<1>6. issued' \in Nat /\ 1..issued \subseteq 1..issued' /\ issued' \in 1..issued'
      /\ issued' \notin 1..issued
  BY <1>1, <1>4
<1>7. r.at = now /\ r.life = lives OBVIOUS
<1> HIDE DEF r
<1>8. Outstanding'
  <2> SUFFICES ASSUME NEW n \in DOMAIN challenges'
               PROVE  /\ n \in 1..issued' /\ n \notin honoured'
                      /\ born'[n].life = lives' /\ challenges'[n] = born'[n].at + NonceTTL
    BY DEF Outstanding
  <2>1. CASE n = issued' /\ challenges'[n] = now + NonceTTL
    BY <1>1, <1>4, <1>5, <1>6, <1>7, <2>1
  <2>2. CASE n \in DOMAIN challenges /\ n # issued' /\ challenges'[n] = challenges[n]
    <3>1. /\ n \in 1..issued /\ n \notin honoured
          /\ born[n].life = lives /\ challenges[n] = born[n].at + NonceTTL
      BY <2>2 DEF NonceInv, Outstanding
    <3> QED BY <1>1, <1>5, <1>6, <2>2, <3>1
  <2> QED BY <1>2, <2>1, <2>2
<1>9. NonceSingleUse' BY <1>1 DEF NonceInv, NonceSingleUse
<1> QED BY <1>1, <1>4, <1>5, <1>6, <1>8, <1>9 DEF NonceInv

(* A new process: the file, loaded. *)
LEMMA RestartKeeps ==
  ASSUME AttestTypeOK, Restart
  PROVE  /\ IsStore(attestedKeys') /\ Cardinality(DOMAIN attestedKeys') <= MaxAttestedKeys
         /\ attestedKeys' \in Loaded(file) /\ file # Torn
         /\ DOMAIN attestedKeys' \subseteq DOMAIN file
         /\ \A k \in DOMAIN attestedKeys' : attestedKeys'[k].signCount = file[k].signCount
<1>1. IsStore(file) /\ now \in Nat BY DEF AttestTypeOK
<1>2. file # Torn BY <1>1, StoreIsNotTorn
<1>3. attestedKeys' \in Loaded(file) BY <1>2 DEF Restart
<1> QED BY <1>1, <1>2, <1>3, LoadedKeeps

(* The types. *)
LEMMA TypesKept ==
  ASSUME LifeInv, LifeNext
  PROVE  AttestTypeOK'
<1> USE DEF LifeInv
<1>0. \A x \in {SaveDelay, NonceTTL} : x \in Nat BY AttestAssumption
<1>1. CASE GenerateChallenge
  <2>1. UNCHANGED <<now, up, lives, bodies, attestedKeys, file, saveTimer, seen>>
    BY <1>1 DEF GenerateChallenge
  <2> QED BY <1>1, <2>1, GenerateKeeps DEF AttestTypeOK, IsStore
<1>2. ASSUME NEW n \in 1..issued, NEW k \in Keys, RegisterArrives(n, k) PROVE AttestTypeOK'
  <2>1. n \in Nat BY DEF AttestTypeOK
  <2>2. bodies' \subseteq [nonce : Nat, key : Keys] BY <1>2, <2>1 DEF RegisterArrives, AttestTypeOK
  <2> QED BY <1>2, <2>2 DEF RegisterArrives, history, AttestTypeOK, IsStore
<1>3. ASSUME NEW b \in bodies, RegisterAbandoned(b) PROVE AttestTypeOK'
  BY <1>3 DEF RegisterAbandoned, history, AttestTypeOK, IsStore
<1>4. ASSUME NEW b \in bodies, NEW d \in Defects, RegisterCompletes(b, d) PROVE AttestTypeOK'
  <2>1. /\ bodies' \subseteq bodies /\ b.nonce \in Nat /\ ConsumeNonce(b.nonce)
        /\ Unadmitted \/ Registered(b.key)
        /\ UNCHANGED <<now, up, lives, issued, file, staged, born>>
    BY <1>4, RegisterStep
  <2>2. honoured' \subseteq 1..issued BY <2>1, ConsumeKeeps
  <2>3. /\ IsStore(attestedKeys') /\ Cardinality(DOMAIN attestedKeys') <= MaxAttestedKeys
        /\ saveTimer' \in Nat \union {None} /\ seen' \in [Keys -> SUBSET Nat]
    BY <2>1, RegisteredKeeps DEF Unadmitted, AttestTypeOK, IsStore
  <2> QED BY <2>1, <2>2, <2>3 DEF AttestTypeOK, IsStore
<1>5. CASE LAssertions
  <2>1. Assertions BY <1>5 DEF LAssertions
  <2>2. /\ \E n \in Nat : ConsumeNonce(n)
        /\ Unadmitted \/ \E k \in Keys, c \in Nat : Counted(k, c)
        /\ UNCHANGED <<now, up, lives, issued, bodies, file, staged, born>>
    BY <2>1, AssertionStep
  <2>3. honoured' \subseteq 1..issued BY <2>2, ConsumeKeeps
  <2>4. /\ IsStore(attestedKeys') /\ Cardinality(DOMAIN attestedKeys') <= MaxAttestedKeys
        /\ saveTimer' \in Nat \union {None} /\ seen' \in [Keys -> SUBSET Nat]
    BY <2>2, CountedKeeps DEF Unadmitted, AttestTypeOK, IsStore
  <2> QED BY <2>2, <2>3, <2>4 DEF AttestTypeOK, IsStore
<1>6. CASE ConnEnds \/ Signal \/ GraceEnds \/ DeadlineFires
  BY <1>6 DEF ConnEnds, Signal, GraceEnds, DeadlineFires, attestVars, history, AttestTypeOK, IsStore
<1>7. CASE LSaveTimer \/ ListenerCloses
  BY <1>7 DEF LSaveTimer, SaveTimerFires, ListenerCloses, StageSave, history, AttestTypeOK, IsStore
<1>8. CASE LRename
  <2>1. staged = attestedKeys BY <1>8 DEF LRename, RenameSave, SaveInv
  <2> QED BY <1>8, <2>1 DEF LRename, RenameSave, memory, history, AttestTypeOK, IsStore
<1>9. CASE FlushFails
  BY <1>9 DEF FlushFails, memory, history, AttestTypeOK, IsStore
<1>10. CASE Ends
  <2>1. /\ up' = FALSE /\ bodies' = {} /\ attestedKeys' = Empty /\ saveTimer' = None
        /\ seen' = [k \in Keys |-> {c \in seen[k] : k \in DOMAIN file => c <= file[k].signCount}]
        /\ UNCHANGED <<now, lives, issued, file, born, honoured>>
    BY <1>10 DEF Ends, Crash
  <2>2. IsStore(attestedKeys') /\ DOMAIN attestedKeys' = {} BY <2>1 DEF IsStore, Empty
  <2>3. Cardinality({}) <= MaxAttestedKeys BY FS_EmptySet, AttestAssumption
  <2>4. seen' \in [Keys -> SUBSET Nat] BY <2>1 DEF AttestTypeOK
  <2>5. IsStore(file') BY <2>1 DEF AttestTypeOK, IsStore
  <2> QED BY <2>1, <2>2, <2>3, <2>4, <2>5 DEF AttestTypeOK
<1>11. CASE LRestart
  <2>1. Restart BY <1>11 DEF LRestart
  <2> QED BY <2>1, RestartKeeps DEF Restart, history, AttestTypeOK, IsStore
<1>12. CASE LTick
  BY <1>12 DEF LTick, ATick, memory, history, AttestTypeOK, IsStore
<1> QED BY <1>1, <1>2, <1>3, <1>4, <1>5, <1>6, <1>7, <1>8, <1>9, <1>10, <1>11, <1>12, LifeSteps

(* The nonces. *)
LEMMA NoncesKept ==
  ASSUME LifeInv, LifeNext
  PROVE  NonceInv'
<1> USE DEF LifeInv
<1>1. CASE GenerateChallenge BY <1>1, GenerateKeeps
<1>2. CASE UNCHANGED <<lives, challenges, issued, born, honoured, misused>>
  BY <1>2 DEF NonceInv, NonceSingleUse, Outstanding
<1>3. ASSUME NEW n \in Nat, ConsumeNonce(n), UNCHANGED <<lives, issued, born>> PROVE NonceInv'
  BY <1>3, ConsumeKeeps DEF NonceInv, NonceSingleUse, Outstanding
<1>4. ASSUME NEW b \in bodies, NEW d \in Defects, RegisterCompletes(b, d) PROVE NonceInv'
  BY <1>3, <1>4, RegisterStep
<1>5. CASE LAssertions
  BY <1>3, <1>5, AssertionStep DEF LAssertions
<1>6. CASE Ends
  <2>1. DOMAIN challenges' = {} /\ misused' = misused BY <1>6 DEF Ends, Crash, Empty
  <2> QED BY <2>1 DEF NonceInv, NonceSingleUse, Outstanding
<1>7. CASE LRestart
  <2>1. DOMAIN challenges' = {} /\ misused' = misused
    BY <1>7 DEF LRestart, Restart, history, DownInv
  <2> QED BY <2>1 DEF NonceInv, NonceSingleUse, Outstanding
<1>8. CASE \/ \E n \in 1..issued, k \in Keys : RegisterArrives(n, k)
           \/ \E b \in bodies : RegisterAbandoned(b)
           \/ ConnEnds \/ LSaveTimer \/ LRename \/ Signal \/ GraceEnds \/ ListenerCloses
           \/ FlushFails \/ DeadlineFires \/ LTick
  BY <1>2, <1>8 DEF RegisterArrives, RegisterAbandoned, ConnEnds, LSaveTimer, SaveTimerFires,
     LRename, RenameSave, Signal, GraceEnds, ListenerCloses, FlushFails, DeadlineFires, LTick,
     ATick, attestVars, memory, history
<1> QED BY <1>1, <1>4, <1>5, <1>6, <1>7, <1>8, LifeSteps

(* The sign counts. *)
LEMMA CountsKept ==
  ASSUME LifeInv, LifeNext
  PROVE  CountInv'
<1> USE DEF LifeInv
<1>1. CASE UNCHANGED <<attestedKeys, seen, replayed>>
  BY <1>1 DEF CountInv, CountsGrow, CountsBounded
<1>2. ASSUME NEW b \in bodies, NEW d \in Defects, RegisterCompletes(b, d) PROVE CountInv'
  BY <1>1, <1>2, RegisterStep, RegisteredKeeps DEF Unadmitted
<1>3. CASE LAssertions
  BY <1>1, <1>3, AssertionStep, CountedKeeps DEF LAssertions, Unadmitted
<1>4. CASE Ends
  <2>1. replayed' = replayed /\ DOMAIN attestedKeys' = {}
    BY <1>4 DEF Ends, Crash, Empty
  <2> QED BY <2>1 DEF CountInv, CountsGrow, CountsBounded
<1>5. CASE LRestart
  <2>1. seen' = seen /\ replayed' = replayed /\ \A k \in DOMAIN file : \A c \in seen[k] : c <= file[k].signCount
    BY <1>5 DEF LRestart, Restart, history, DownInv
  <2>2. /\ DOMAIN attestedKeys' \subseteq DOMAIN file
        /\ \A k \in DOMAIN attestedKeys' : attestedKeys'[k].signCount = file[k].signCount
    BY <1>5, RestartKeeps DEF LRestart
  <2> QED BY <2>1, <2>2 DEF CountInv, CountsGrow, CountsBounded
<1>6. CASE \/ GenerateChallenge
           \/ \E n \in 1..issued, k \in Keys : RegisterArrives(n, k)
           \/ \E b \in bodies : RegisterAbandoned(b)
           \/ ConnEnds \/ LSaveTimer \/ LRename \/ Signal \/ GraceEnds \/ ListenerCloses
           \/ FlushFails \/ DeadlineFires \/ LTick
  BY <1>1, <1>6 DEF GenerateChallenge, RegisterArrives, RegisterAbandoned, ConnEnds, LSaveTimer,
     SaveTimerFires, LRename, RenameSave, Signal, GraceEnds, ListenerCloses, FlushFails,
     DeadlineFires, LTick, ATick, StageSave, attestVars, memory, history
<1> QED BY <1>2, <1>3, <1>4, <1>5, <1>6, LifeSteps

(* Between two processes. *)
LEMMA DownKept ==
  ASSUME LifeInv, LifeNext
  PROVE  DownInv'
<1> USE DEF LifeInv
<1>1. CASE up' = TRUE BY <1>1 DEF DownInv
<1>2. CASE Ends
  <2>1. \A k \in DOMAIN file' : \A c \in seen'[k] : c <= file'[k].signCount
    <3>1. DOMAIN file \subseteq Keys BY DEF AttestTypeOK, IsStore
    <3> QED BY <1>2, <3>1 DEF Ends, Crash
  <2> QED BY <1>2, <2>1 DEF Ends, Crash, Empty, DownInv
<1>3. CASE LTick
  BY <1>3 DEF LTick, ATick, Quiet, drainVars, memory, history, DownInv
<1>4. CASE LRestart BY <1>1, <1>4 DEF LRestart, Restart
<1>5. CASE Idle /\ up' = up BY <1>1, <1>5 DEF Idle
<1>6. ASSUME NEW b \in bodies, NEW d \in Defects, RegisterCompletes(b, d) PROVE DownInv'
  BY <1>5, <1>6 DEF RegisterCompletes
<1>7. CASE LAssertions BY <1>5, <1>7, AssertionStep DEF LAssertions
<1>8. CASE \/ GenerateChallenge
           \/ \E n \in 1..issued, k \in Keys : RegisterArrives(n, k)
           \/ \E b \in bodies : RegisterAbandoned(b)
           \/ ConnEnds \/ LSaveTimer \/ Signal \/ GraceEnds \/ ListenerCloses \/ DeadlineFires
  BY <1>5, <1>8 DEF GenerateChallenge, RegisterArrives, RegisterAbandoned, ConnEnds, LSaveTimer,
     SaveTimerFires, Signal, GraceEnds, ListenerCloses, DeadlineFires, attestVars
<1>9. CASE LRename \/ FlushFails
  BY <1>1, <1>9 DEF LRename, RenameSave, FlushFails
<1> QED BY <1>2, <1>3, <1>4, <1>6, <1>7, <1>8, <1>9, LifeSteps

(* The drain. *)
LEMMA DrainKept ==
  ASSUME LifeInv, LifeNext
  PROVE  DrainInv'
<1> USE DEF LifeInv
<1>0. /\ now \in Nat /\ Deadline \in Nat /\ None \notin Nat
  BY AttestAssumption, LifecycleAssumption DEF AttestTypeOK
<1>1. ASSUME Quiet, now' = now, bodies' \subseteq bodies, saveTimer' = saveTimer
      PROVE  DrainInv'
  BY <1>1 DEF Quiet, drainVars, DrainInv
<1>2. CASE GenerateChallenge /\ Quiet BY <1>1, <1>2 DEF GenerateChallenge
<1>3. ASSUME NEW n \in 1..issued, NEW k \in Keys, RegisterArrives(n, k), Quiet, Listening
      PROVE  DrainInv'
  BY <1>3 DEF RegisterArrives, Listening, Quiet, drainVars, DrainInv
<1>4. ASSUME NEW b \in bodies, RegisterAbandoned(b), Quiet PROVE DrainInv'
  BY <1>1, <1>4 DEF RegisterAbandoned
<1>5. ASSUME NEW b \in bodies, NEW d \in Defects, RegisterCompletes(b, d), Quiet PROVE DrainInv'
  BY <1>5 DEF RegisterCompletes, Quiet, drainVars, DrainInv
<1>6. CASE LAssertions
  <2>1. now' = now /\ bodies' = bodies BY <1>6, AssertionStep DEF LAssertions
  <2> QED BY <1>6, <2>1 DEF LAssertions, DrainInv
<1>7. CASE ConnEnds BY <1>7 DEF ConnEnds, attestVars, DrainInv
<1>8. CASE LSaveTimer
  BY <1>8 DEF LSaveTimer, SaveTimerFires, StageSave, Quiet, drainVars, DrainInv
<1>9. CASE LRename
  BY <1>9 DEF LRename, RenameSave, memory, DrainInv
<1>10. CASE Signal
  <2>1. CASE stage = "serving"
    BY <1>0, <1>10, <2>1 DEF Signal, attestVars, DrainInv
  <2>2. CASE stage # "serving"
    BY <1>10, <2>2 DEF Signal, attestVars, DrainInv
  <2> QED BY <2>1, <2>2
<1>11. CASE GraceEnds BY <1>11 DEF GraceEnds, attestVars, DrainInv
<1>12. CASE ListenerCloses
  BY <1>12 DEF ListenerCloses, StageSave, DrainInv
<1>13. CASE FlushFails BY <1>13 DEF FlushFails, memory, DrainInv
<1>14. CASE DeadlineFires BY <1>14 DEF DeadlineFires, attestVars, DrainInv
<1>15. CASE Ends BY <1>15 DEF Ends, DrainInv
<1>16. CASE LRestart BY <1>1, <1>16 DEF LRestart, Restart
<1>17. CASE LTick
  <2>1. now' = now + 1 /\ UNCHANGED <<bodies, saveTimer>> BY <1>17 DEF LTick, ATick, memory
  <2>2. UNCHANGED drainVars BY <1>17 DEF LTick, Quiet
  <2>3. CASE stage = "serving" BY <2>1, <2>2, <2>3 DEF drainVars, DrainInv
  <2>4. CASE stage # "serving"
    <3>1. stage \in {"grace", "listener"} /\ deadline > now BY <1>17, <2>4 DEF LTick
    <3>2. now' <= startedAt + Deadline BY <1>0, <2>1, <3>1 DEF DrainInv
    <3> QED BY <2>1, <2>2, <3>1, <3>2 DEF drainVars, DrainInv
  <2> QED BY <2>3, <2>4
<1> QED BY <1>2, <1>3, <1>4, <1>5, <1>6, <1>7, <1>8, <1>9, <1>10, <1>11, <1>12, <1>13, <1>14,
           <1>15, <1>16, <1>17, LifeSteps

(* The file. *)
LEMMA SavesKept ==
  ASSUME LifeInv, LifeNext
  PROVE  SaveInv'
<1> USE DEF LifeInv
<1>0. attestedKeys # None /\ now \in Nat /\ SaveDelay \in Nat /\ None \notin Nat
  BY StoreIsNotNone, AttestAssumption DEF AttestTypeOK
<1>1. ASSUME UNCHANGED <<up, attestedKeys, file, staged, saveTimer, stage, drained>>
      PROVE  SaveInv'
  BY <1>1 DEF SaveInv, AckedIsSavedOrPending, DrainedExitKeepsKeys, Idle, Durable
<1>2. ASSUME UNCHANGED <<up, file, staged, stage, drained>>, staged = None, ~drained,
             saveTimer' = now + SaveDelay
      PROVE  SaveInv'
  BY <1>0, <1>2 DEF SaveInv, AckedIsSavedOrPending, DrainedExitKeepsKeys
<1>3. ASSUME NEW b \in bodies, NEW d \in Defects, RegisterCompletes(b, d), Quiet PROVE SaveInv'
  <2>1. staged = None /\ ~drained BY <1>3 DEF RegisterCompletes, Idle, DrainInv
  <2>2. UNCHANGED <<up, file, staged>> /\ (Unadmitted \/ Registered(b.key))
    BY <1>3, RegisterStep
  <2> QED BY <1>1, <1>2, <1>3, <2>1, <2>2 DEF Quiet, drainVars, Unadmitted, Registered
<1>4. CASE LAssertions
  <2>1. ~drained /\ UNCHANGED <<stage, drained>> BY <1>4 DEF LAssertions, DrainInv
  <2>2. /\ Idle /\ UNCHANGED <<up, file, staged>>
        /\ Unadmitted \/ \E k \in Keys, c \in Nat : Counted(k, c)
    BY <1>4, AssertionStep DEF LAssertions
  <2> QED BY <1>1, <1>2, <2>1, <2>2 DEF Idle, Unadmitted, Counted
<1>5. CASE LSaveTimer
  <2>1. /\ staged' = attestedKeys /\ saveTimer' = None
        /\ UNCHANGED <<up, file, attestedKeys, stage, drained>>
    BY <1>5 DEF LSaveTimer, SaveTimerFires, StageSave, Quiet, drainVars
  <2>2. ~drained BY <1>5 DEF LSaveTimer, SaveTimerFires, DrainInv
  <2> QED BY <1>0, <2>1, <2>2 DEF SaveInv, AckedIsSavedOrPending, DrainedExitKeepsKeys, Idle
<1>6. CASE ListenerCloses
  <2>1. /\ staged' = attestedKeys /\ saveTimer' = None /\ stage' = "flushing"
        /\ UNCHANGED <<up, file, attestedKeys>>
    BY <1>6 DEF ListenerCloses, StageSave
  <2> QED BY <1>0, <2>1 DEF SaveInv, AckedIsSavedOrPending, DrainedExitKeepsKeys, Idle
<1>7. CASE LRename
  <2>1. file' = attestedKeys /\ staged' = None /\ attestedKeys' = attestedKeys
    BY <1>7 DEF LRename, RenameSave, memory, SaveInv
  <2>2. Durable' BY <2>1 DEF Durable
  <2> QED BY <2>1, <2>2 DEF SaveInv, AckedIsSavedOrPending, DrainedExitKeepsKeys
<1>8. CASE FlushFails
  BY <1>8 DEF FlushFails, SaveInv, AckedIsSavedOrPending, DrainedExitKeepsKeys
<1>9. CASE Signal \/ GraceEnds \/ DeadlineFires
  <2>1. UNCHANGED <<up, attestedKeys, file, staged, saveTimer, drained>> /\ Idle
    BY <1>9 DEF Signal, GraceEnds, DeadlineFires, attestVars
  <2>2. stage' = stage \/ (stage # "unsaved" /\ ~drained)
    BY <1>9 DEF Signal, GraceEnds, DeadlineFires, DrainInv
  <2>3. CASE stage' = stage BY <1>1, <2>1, <2>3
  <2>4. CASE stage # "unsaved" /\ ~drained
    BY <2>1, <2>4 DEF SaveInv, AckedIsSavedOrPending, DrainedExitKeepsKeys, Idle, Durable
  <2> QED BY <2>2, <2>3, <2>4
<1>10. CASE Ends
  BY <1>10 DEF Ends, Crash, SaveInv, AckedIsSavedOrPending, DrainedExitKeepsKeys, Idle
<1>11. CASE LRestart
  <2>1. Restart /\ UNCHANGED <<file, staged, stage, drained>>
    BY <1>11 DEF LRestart, Restart, Quiet, drainVars
  <2>2. staged = None /\ ~drained BY <2>1 DEF Restart, DownInv, DrainInv
  <2>3. Durable' BY <2>1, RestartKeeps DEF Durable
  <2> QED BY <2>1, <2>2, <2>3 DEF SaveInv, AckedIsSavedOrPending, DrainedExitKeepsKeys
<1>12. CASE \/ GenerateChallenge /\ Quiet
            \/ \E n \in 1..issued, k \in Keys : RegisterArrives(n, k) /\ Quiet
            \/ \E b \in bodies : RegisterAbandoned(b) /\ Quiet
            \/ ConnEnds \/ LTick
  BY <1>1, <1>12 DEF GenerateChallenge, RegisterArrives, RegisterAbandoned, ConnEnds, LTick, ATick,
     attestVars, memory, Quiet, drainVars
<1> QED BY <1>3, <1>4, <1>5, <1>6, <1>7, <1>8, <1>9, <1>10, <1>11, <1>12, LifeSteps

-----------------------------------------------------------------------------
(* LifeInv is inductive. *)
LEMMA LifeInvInit == LifeInit => LifeInv
<1> SUFFICES ASSUME LifeInit PROVE LifeInv OBVIOUS
<1> USE DEF LifeInit, AInit, Fresh
<1>1. AttestTypeOK
  <2>1. IsStore(attestedKeys) /\ DOMAIN attestedKeys = {} BY DEF IsStore, Empty
  <2>2. Cardinality({}) <= MaxAttestedKeys BY FS_EmptySet, AttestAssumption
  <2>3. IsStore(file) BY AttestAssumption
  <2>4. seen \in [Keys -> SUBSET Nat] OBVIOUS
  <2>5. born \in Seq([at : Nat, life : Nat]) /\ Len(born) = issued OBVIOUS
  <2>6. now \in Nat BY AttestAssumption
  <2>7. /\ up \in BOOLEAN /\ lives \in Nat /\ issued \in Nat /\ bodies = {} /\ saveTimer = None
        /\ honoured = {}
    OBVIOUS
  <2> HIDE DEF LifeInit, AInit, Fresh
  <2> QED BY <2>7, <2>1, <2>2, <2>3, <2>4, <2>5, <2>6 DEF AttestTypeOK
<1>2. NonceInv BY DEF NonceInv, NonceSingleUse, Outstanding, Empty
<1>3. CountInv BY DEF CountInv, CountsGrow, CountsBounded, Empty
<1>4. DownInv
  <2>1. DOMAIN file \subseteq Keys BY AttestAssumption DEF IsStore
  <2>2. \A k \in DOMAIN file : seen[k] = {} BY <2>1
  <2> QED BY <2>2 DEF DownInv, Empty
<1>5. DrainInv BY DEF DrainInv
<1>6. SaveInv BY DEF SaveInv, AckedIsSavedOrPending, DrainedExitKeepsKeys, Idle
<1> QED BY <1>1, <1>2, <1>3, <1>4, <1>5, <1>6 DEF LifeInv

LEMMA LifeInvStep == LifeInv /\ [LifeNext]_lifeVars => LifeInv'
<1> SUFFICES ASSUME LifeInv, [LifeNext]_lifeVars PROVE LifeInv' OBVIOUS
<1>1. CASE LifeNext
  BY <1>1, TypesKept, NoncesKept, CountsKept, DownKept, DrainKept, SavesKept DEF LifeInv
<1>2. CASE UNCHANGED lifeVars
  <2> USE <1>2 DEF lifeVars, attestVars, drainVars, history, LifeInv
  <2>1. AttestTypeOK' BY DEF AttestTypeOK, IsStore
  <2>2. NonceInv' BY DEF NonceInv, NonceSingleUse, Outstanding
  <2>3. CountInv' BY DEF CountInv, CountsGrow, CountsBounded
  <2>4. DownInv' BY DEF DownInv
  <2>5. DrainInv' BY DEF DrainInv
  <2>6. SaveInv' BY DEF SaveInv, AckedIsSavedOrPending, DrainedExitKeepsKeys, Idle, Durable
  <2> QED BY <2>1, <2>2, <2>3, <2>4, <2>5, <2>6
<1> QED BY <1>1, <1>2

(* The invariant holds of every run of the server: types and ceiling of the *)
(* key store, nonces, counts, drain and file together.                      *)
THEOREM LifeInvariant == LifeSpec => []LifeInv
BY LifeInvInit, LifeInvStep, PTL DEF LifeSpec

(* validateAndConsumeNonce, verifyAssertion and updateSignCount: over every *)
(* sequence of registrations, upgrades, drains, crashes and restarts, no    *)
(* nonce passes twice, late or in another process; and between two          *)
(* registrations of a key the accepted sign counts strictly grow, through   *)
(* restarts too, except for the counts that a process had accepted and not  *)
(* yet saved when it died, which the next one accepts again: NoReplay.      *)
THEOREM ReplayTheorem == LifeSpec => []NoReplay
<1>1. LifeInv => NoReplay BY DEF LifeInv, NonceInv, CountInv, NoReplay
<1> QED BY <1>1, LifeInvariant, PTL

(* debouncedSaveAttestedKeys: whatever the server has answered for is in    *)
(* the file or a save of it is pending.                                     *)
THEOREM AckedTheorem == LifeSpec => []AckedIsSavedOrPending
<1>1. LifeInv => AckedIsSavedOrPending BY DEF LifeInv, SaveInv
<1> QED BY <1>1, LifeInvariant, PTL

(* srv.die: after a drain that reached its end and a flush that worked, the *)
(* exit loses no key and no sign count.                                     *)
THEOREM DrainedTheorem == LifeSpec => []DrainedExitKeepsKeys
<1>1. LifeInv => DrainedExitKeepsKeys BY DEF LifeInv, SaveInv
<1> QED BY <1>1, LifeInvariant, PTL

(* ShutdownCoordinator.start: no number of signals, and no client that      *)
(* stays, keeps the process past the deadline of the first signal.          *)
THEOREM DeadlineTheorem == LifeSpec => []ExitByDeadline
<1>1. LifeInv => ExitByDeadline BY DEF LifeInv, DrainInv, ExitByDeadline
<1> QED BY <1>1, LifeInvariant, PTL

(* A restart loads every key of the file that fits and is not stale. *)
LEMMA RestartLoads ==
  ASSUME LifeInv, LifeNext, ~up, up'
  PROVE  /\ file # Torn
         /\ Cardinality(DOMAIN file) <= MaxAttestedKeys =>
              \A k \in DOMAIN file :
                file[k].lastUsedAt = None \/ now - file[k].lastUsedAt <= KeyTTL =>
                  k \in DOMAIN attestedKeys' /\ attestedKeys'[k].signCount = file[k].signCount
<1> USE DEF LifeInv
<1>1. CASE LRestart
  <2>1. /\ attestedKeys' \in Loaded(file) /\ file # Torn
        /\ \A k \in DOMAIN attestedKeys' : attestedKeys'[k].signCount = file[k].signCount
    BY <1>1, RestartKeeps DEF LRestart
  <2>2. IsStore(file) /\ now \in Nat BY DEF AttestTypeOK
  <2>3. Cardinality(DOMAIN file) <= MaxAttestedKeys =>
          \A k \in DOMAIN file :
            file[k].lastUsedAt = None \/ now - file[k].lastUsedAt <= KeyTTL => k \in DOMAIN attestedKeys'
    BY <2>1, <2>2, LoadedKeeps
  <2> QED BY <2>1, <2>3
<1>2. ASSUME NEW b \in bodies, NEW d \in Defects, RegisterCompletes(b, d) PROVE FALSE
  BY <1>2 DEF RegisterCompletes, Idle
<1>3. CASE LAssertions BY <1>3, AssertionStep DEF LAssertions, Idle
<1>4. CASE ~LRestart
  BY <1>2, <1>3, <1>4, LifeSteps DEF GenerateChallenge, RegisterArrives, RegisterAbandoned, ConnEnds,
     LSaveTimer, SaveTimerFires, LRename, RenameSave, Signal, GraceEnds, ListenerCloses, FlushFails,
     DeadlineFires, Ends, Crash, LTick, ATick, Idle
<1> QED BY <1>1, <1>4

(* A running process gives up a key only to age or to more recent ones. *)
LEMMA EvictionIsStalest ==
  ASSUME LifeInv, LifeNext, up, up'
  PROVE  \A k \in DOMAIN attestedKeys \ DOMAIN attestedKeys' :
           \/ now - LastActivity(attestedKeys[k]) > KeyTTL
           \/ \A j \in DOMAIN attestedKeys \intersect DOMAIN attestedKeys' :
                LastActivity(attestedKeys[k]) <= LastActivity(attestedKeys[j])
<1> USE DEF LifeInv
<1>1. CASE DOMAIN attestedKeys \subseteq DOMAIN attestedKeys' BY <1>1
<1>2. ASSUME NEW b \in bodies, NEW d \in Defects, RegisterCompletes(b, d), Registered(b.key),
             NEW k \in DOMAIN attestedKeys \ DOMAIN attestedKeys'
      PROVE  \/ now - LastActivity(attestedKeys[k]) > KeyTTL
             \/ \A j \in DOMAIN attestedKeys \intersect DOMAIN attestedKeys' :
                  LastActivity(attestedKeys[k]) <= LastActivity(attestedKeys[j])
  <2> DEFINE e == [signCount |-> 0, registeredAt |-> now, lastUsedAt |-> None]
  <2>1. b.key \in Keys /\ SetAttestedKey(b.key, e) BY <1>2 DEF Registered
  <2>2. e \in Entries BY DEF Entries, AttestTypeOK
  <2> HIDE DEF e
  <2> QED BY <1>2, <2>1, <2>2, SetKeeps
<1>3. CASE \E b \in bodies, d \in Defects : RegisterCompletes(b, d)
  BY <1>1, <1>2, <1>3, RegisterStep DEF Unadmitted
<1>4. CASE LAssertions
  BY <1>1, <1>4, AssertionStep, CountedKeeps DEF LAssertions, Unadmitted
<1>5. CASE ~LAssertions /\ ~(\E b \in bodies, d \in Defects : RegisterCompletes(b, d))
  <2>1. attestedKeys' = attestedKeys
    BY <1>5, LifeSteps DEF GenerateChallenge, RegisterArrives, RegisterAbandoned, ConnEnds,
       LSaveTimer, SaveTimerFires, LRename, RenameSave, Signal, GraceEnds, ListenerCloses, FlushFails,
       DeadlineFires, Ends, Crash, LRestart, Restart, LTick, ATick, attestVars, memory
  <2> QED BY <1>1, <2>1
<1> QED BY <1>3, <1>4, <1>5

(* saveAttestedKeys, loadAttestedKeys and setAttestedKey: a device loses    *)
(* its key only to age or to more recently used keys, wherever a save was   *)
(* interrupted.                                                             *)
THEOREM KeysTheorem == LifeSpec => KeysKept
<1> DEFINE Loads == ~up /\ up' =>
             /\ file # Torn
             /\ Cardinality(DOMAIN file) <= MaxAttestedKeys =>
                  \A k \in DOMAIN file :
                    file[k].lastUsedAt = None \/ now - file[k].lastUsedAt <= KeyTTL =>
                      k \in DOMAIN attestedKeys' /\ attestedKeys'[k].signCount = file[k].signCount
           Evicts == up /\ up' => \A k \in DOMAIN attestedKeys \ DOMAIN attestedKeys' :
             \/ now - LastActivity(attestedKeys[k]) > KeyTTL
             \/ \A j \in DOMAIN attestedKeys \intersect DOMAIN attestedKeys' :
                  LastActivity(attestedKeys[k]) <= LastActivity(attestedKeys[j])
<1>1. LifeInv /\ [LifeNext]_lifeVars => [Loads /\ Evicts]_attestVars
  <2>1. LifeInv /\ LifeNext => Loads /\ Evicts BY RestartLoads, EvictionIsStalest
  <2>2. UNCHANGED lifeVars => UNCHANGED attestVars BY DEF lifeVars, attestVars
  <2> QED BY <2>1, <2>2
<1>2. [][Loads]_attestVars /\ [][Evicts]_attestVars => KeysKept
  BY DEF KeysKept, RestartKeepsFleet, EvictsStalest
<1> HIDE DEF Loads, Evicts
<1> QED BY <1>1, <1>2, LifeInvariant, PTL DEF LifeSpec
=============================================================================
