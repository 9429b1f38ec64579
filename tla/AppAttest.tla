----------------------------- MODULE AppAttest -----------------------------
(***************************************************************************)
(* App Attest (app-attest.ts) and the routes of wsproxy.ts that use it: a  *)
(* single-use challenge store, the store of attested device keys with its  *)
(* time to live and its ceiling, and the file it is saved to two quiet     *)
(* seconds after the last change.  The process may die between any two     *)
(* steps, the two steps of a save included; what it held in memory is then *)
(* lost and the next process loads the file.                               *)
(*                                                                         *)
(* verifyAttestation and verifyAssertion contain no real suspension, so a  *)
(* check and the update that follows it are one step; only the body of a   *)
(* registration is awaited.  Certificates, CBOR and signatures are data:   *)
(* an attestation or assertion carries the first defect its checks meet.   *)
(***************************************************************************)
EXTENDS Integers, Sequences, FiniteSets

CONSTANTS
  Keys,            \* key identifiers of devices
  NonceTTL, MaxChallenges,
  KeyTTL, MaxAttestedKeys,
  SaveDelay,       \* the quiet time before a save
  None,
  Earlier, Start,  \* files earlier processes may have left, and when the first one here starts
  MaxTime, MaxNonces, MaxBodies, MaxCount, MaxLives
                   \* bounds: ticks, challenges, registrations at once, sign counts, processes

(* An entry of the key store, in memory and on file. *)
Entries == [signCount : Nat, registeredAt : Nat, lastUsedAt : Nat \union {None}]

(* A store that only the proxy has written. *)
IsStore(f) == DOMAIN f \subseteq Keys /\ f \in [DOMAIN f -> Entries]

ASSUME AttestAssumption ==
  /\ {NonceTTL, KeyTTL, Start, MaxTime, MaxNonces, MaxBodies, MaxCount} \subseteq Nat
  /\ {MaxChallenges, MaxAttestedKeys, SaveDelay, MaxLives} \subseteq Nat \ {0}
  /\ IsFiniteSet(Keys)
  /\ None \notin Keys \union Nat /\ \A S \in SUBSET Keys : None \notin [S -> Entries]
  /\ \A f \in Earlier : IsStore(f)

VARIABLES
  now,           \* Date.now()
  up,            \* the process runs
  lives,         \* how many processes there have been
  challenges,    \* nonce -> expiry; nonces are numbered in the order issued
  issued,        \* nonces issued so far, by every process
  bodies,        \* registrations whose request body is still being read
  attestedKeys,  \* keyId -> entry
  file,          \* the file at ATTESTED_KEYS_PATH
  staged,        \* a save's temporary file before the rename, or None
  saveTimer,     \* when the debounced save is due, or None
  born,          \* history: nonce -> when it was issued, and by which process
  honoured,      \* history: nonces that have passed
  misused,       \* history: some nonce passed again, too late or in another process
  seen,          \* history: key -> sign counts accepted since it was registered, as far as
                 \* a process that died had saved them
  replayed       \* history: some sign count was accepted at or below one in seen

memory == <<challenges, bodies, attestedKeys, saveTimer>>
history == <<born, honoured, misused, seen, replayed>>
attestVars == <<now, up, lives, challenges, issued, bodies, attestedKeys, file, staged,
                saveTimer, history>>

Empty == [k \in {} |-> None]
Torn == [k \in {None} |-> None]     \* a file JSON.parse rejects
Without(f, S) == [x \in DOMAIN f \ S |-> f[x]]
With(f, x, v) == [y \in DOMAIN f \union {x} |-> IF y = x THEN v ELSE f[y]]

(* The first check of verifyAttestation or verifyAssertion that fails: its *)
(* encoding, certificate chain and dates, rpIdHash, credential and key     *)
(* identifier, nonce or signature.  A subject that differs is only logged. *)
Defects == {"malformed", "untrusted", "otherApp", "otherKey", "unsigned", "subject", "none"}
Passes(defect) == defect \in {"none", "subject"}

AInit ==
  /\ now = Start /\ up = FALSE /\ lives = 0
  /\ challenges = Empty /\ issued = 0 /\ bodies = {}
  /\ attestedKeys = Empty /\ file \in Earlier
  /\ staged = None /\ saveTimer = None
  /\ born = <<>> /\ honoured = {} /\ misused = FALSE
  /\ seen = [k \in Keys |-> {}] /\ replayed = FALSE

(* A save is synchronous: until it is renamed nothing else runs. *)
Idle == up /\ staged = None

-----------------------------------------------------------------------------
(* Challenges. *)
Oldest(f, n) == {x \in DOMAIN f : Cardinality({y \in DOMAIN f : y < x}) < n}
Live == {n \in DOMAIN challenges : now <= challenges[n]}

(* generateChallenge: drop the expired, then the oldest until one fits. *)
GenerateChallenge ==
  LET live == Without(challenges, DOMAIN challenges \ Live)
      excess == Cardinality(Live) - MaxChallenges + 1
  IN  /\ Idle /\ issued < MaxNonces
      /\ issued' = issued + 1
      /\ challenges' = With(Without(live, Oldest(live, excess)), issued', now + NonceTTL)
      /\ born' = Append(born, [at |-> now, life |-> lives])
      /\ UNCHANGED <<now, up, lives, bodies, attestedKeys, file, staged, saveTimer,
                     honoured, misused, seen, replayed>>

(* A nonce passes; the history tells whether it should have. *)
Honour(n) ==
  /\ honoured' = honoured \union {n}
  /\ misused' = (misused \/ n \in honoured \/ born[n].life # lives
                 \/ now > born[n].at + NonceTTL)

(* validateAndConsumeNonce: any use removes the nonce, a use in time passes. *)
ConsumeNonce(n) ==
  /\ challenges' = Without(challenges, {n})
  /\ IF n \in Live THEN Honour(n) ELSE UNCHANGED <<honoured, misused>>

-----------------------------------------------------------------------------
(* The key store. *)
LastActivity(entry) == IF entry.lastUsedAt = None THEN entry.registeredAt ELSE entry.lastUsedAt
Stale(f) == {k \in DOMAIN f : now - LastActivity(f[k]) > KeyTTL}

(* The least recently active keys; the code takes the first it finds. *)
Stalest(f) == {k \in DOMAIN f : \A j \in DOMAIN f : LastActivity(f[k]) <= LastActivity(f[j])}

(* setAttestedKey: drop the stale, make room for a new key, set.  The store *)
(* never exceeds its ceiling, so one eviction makes room.                   *)
SetAttestedKey(k, entry) ==
  LET kept == Without(attestedKeys, Stale(attestedKeys))
  IN  \/ /\ k \in DOMAIN kept \/ Cardinality(DOMAIN kept) < MaxAttestedKeys
         /\ attestedKeys' = With(kept, k, entry)
      \/ /\ k \notin DOMAIN kept /\ Cardinality(DOMAIN kept) >= MaxAttestedKeys
         /\ \E old \in Stalest(kept) : attestedKeys' = With(Without(kept, {old}), k, entry)

(* Mutant of DebouncedSave: a pending timer is cleared and not armed again. *)
DebouncedSaveOnce == saveTimer' = IF saveTimer = None THEN now + SaveDelay ELSE None

(* debouncedSaveAttestedKeys *)
DebouncedSave == saveTimer' = now + SaveDelay

(* POST /attest/register: its rate limit is TryConsume of Connections; the body is awaited. *)
RegisterArrives(n, k) ==
  /\ Idle /\ Cardinality(bodies) < MaxBodies
  /\ bodies' = bodies \union {[nonce |-> n, key |-> k]}
  /\ bodies # bodies'
  /\ UNCHANGED <<now, up, lives, challenges, issued, attestedKeys, file, staged, saveTimer,
                 history>>

(* The body never completes, is too large, is not JSON or lacks a field. *)
RegisterAbandoned(b) ==
  /\ Idle /\ b \in bodies
  /\ bodies' = bodies \ {b}
  /\ UNCHANGED <<now, up, lives, challenges, issued, attestedKeys, file, staged, saveTimer,
                 history>>

(* The body is complete: the nonce goes, and a genuine attestation enters   *)
(* the key with sign count 0, a known key too.                              *)
RegisterCompletes(b, defect) ==
  /\ Idle /\ b \in bodies
  /\ bodies' = bodies \ {b}
  /\ ConsumeNonce(b.nonce)
  /\ IF b.nonce \in Live /\ Passes(defect)
     THEN /\ SetAttestedKey(b.key, [signCount |-> 0, registeredAt |-> now, lastUsedAt |-> None])
          /\ DebouncedSave
          /\ seen' = [seen EXCEPT ![b.key] = {}]
     ELSE UNCHANGED <<attestedKeys, saveTimer, seen>>
  /\ UNCHANGED <<now, up, lives, issued, file, staged, born, replayed>>

(* Mutant of CountPasses: an equal count passes. *)
CountPassesEqual(count, entry) == count >= entry.signCount

CountPasses(count, entry) == count > entry.signCount

(* An upgrade with App Attest headers: nonce, known key, rpId, sign count   *)
(* and signature; then updateSignCount and the save.                        *)
Assertion(n, k, count, defect) ==
  /\ Idle
  /\ ConsumeNonce(n)
  /\ IF /\ n \in Live /\ k \in DOMAIN attestedKeys
        /\ Passes(defect) /\ CountPasses(count, attestedKeys[k])
     THEN /\ attestedKeys' = [attestedKeys EXCEPT ![k].signCount = count, ![k].lastUsedAt = now]
          /\ DebouncedSave
          /\ seen' = [seen EXCEPT ![k] = @ \union {count}]
          /\ replayed' = (replayed \/ \E c \in seen[k] : count <= c)
     ELSE UNCHANGED <<attestedKeys, saveTimer, seen, replayed>>
  /\ UNCHANGED <<now, up, lives, issued, bodies, file, staged, born>>

-----------------------------------------------------------------------------
(* Persistence. *)

(* Mutant of StageSave: the live file is truncated and written in place. *)
StageSaveInPlace ==
  /\ staged' = attestedKeys
  /\ file' = Torn
  /\ saveTimer' = None

(* saveAttestedKeys, first half: write and fsync a sibling file. *)
StageSave ==
  /\ staged' = attestedKeys
  /\ saveTimer' = None
  /\ UNCHANGED file

SaveTimerFires ==
  /\ Idle /\ saveTimer # None /\ saveTimer <= now
  /\ StageSave
  /\ UNCHANGED <<now, up, lives, challenges, issued, bodies, attestedKeys, history>>

(* saveAttestedKeys, second half: the atomic rename. *)
RenameSave ==
  /\ up /\ staged # None
  /\ file' = staged /\ staged' = None
  /\ UNCHANGED <<now, up, lives, memory, issued, history>>

(* The process dies: a signal, power, or a save from the timer that throws. *)
(* The sign counts above the one on file are lost with its memory.          *)
Crash ==
  /\ up
  /\ up' = FALSE
  /\ challenges' = Empty /\ bodies' = {} /\ attestedKeys' = Empty
  /\ saveTimer' = None /\ staged' = None
  /\ seen' = [k \in Keys |-> {c \in seen[k] : k \in DOMAIN file => c <= file[k].signCount}]
  /\ UNCHANGED <<now, lives, issued, file, born, honoured, misused, replayed>>

(* loadAttestedKeys: an unreadable file is no file; a key never used starts *)
(* its clock now; the stale go, and the most recent that fit are kept.      *)
Loaded(f) ==
  LET dated == [k \in DOMAIN f |-> IF f[k].lastUsedAt = None
                                    THEN [f[k] EXCEPT !.lastUsedAt = now] ELSE f[k]]
      fresh == Without(dated, Stale(dated))
      Kept == {S \in SUBSET DOMAIN fresh :
                 /\ Cardinality(S) <= MaxAttestedKeys
                 /\ S = DOMAIN fresh \/ Cardinality(S) = MaxAttestedKeys
                 /\ \A k \in S, j \in DOMAIN fresh \ S :
                      LastActivity(fresh[k]) >= LastActivity(fresh[j])}
  IN  {Without(fresh, DOMAIN fresh \ S) : S \in Kept}

(* A new process.  The file is only written by the proxy, so none of its   *)
(* entries is malformed.                                                   *)
Restart ==
  /\ ~up /\ lives < MaxLives
  /\ up' = TRUE /\ lives' = lives + 1
  /\ attestedKeys' \in (IF file = Torn THEN {Empty} ELSE Loaded(file))
  /\ UNCHANGED <<now, challenges, issued, bodies, file, staged, saveTimer, history>>

(* Time passes; a timer that is due fires first. *)
ATick ==
  /\ now < MaxTime
  /\ staged = None /\ (saveTimer # None => saveTimer > now)
  /\ now' = now + 1
  /\ UNCHANGED <<up, lives, memory, issued, file, staged, history>>

Requests ==
  \/ GenerateChallenge
  \/ \E n \in 1..issued, k \in Keys : RegisterArrives(n, k)
  \/ \E b \in bodies : RegisterAbandoned(b) \/ \E d \in Defects : RegisterCompletes(b, d)

Assertions ==
  \E n \in 1..issued, k \in Keys, c \in 1..MaxCount, d \in Defects : Assertion(n, k, c, d)

Saves == SaveTimerFires \/ RenameSave

ANext == Requests \/ Assertions \/ Saves \/ Crash \/ Restart \/ ATick

ASpec == AInit /\ [][ANext]_attestVars

-----------------------------------------------------------------------------
(* validateAndConsumeNonce: over all requests, registrations and upgrades   *)
(* together and across restarts, a nonce passes at most once, within its    *)
(* time to live, in the process that issued it.                             *)
NonceSingleUse == ~misused

(* verifyAssertion and updateSignCount: whatever order upgrades arrive in,  *)
(* and across restarts, a sign count accepted from a key is not accepted    *)
(* again, nor a smaller one, until the key is registered again.  The one    *)
(* exception is the debounce: a count that was not yet on file when the     *)
(* process died is forgotten, and the next process accepts it again.        *)
CountsGrow == ~replayed

(* What an upgrade or registration once showed is not accepted again: its   *)
(* nonce never, its sign count not within a registration, but for counts a  *)
(* crash lost before they were saved.                                       *)
NoReplay == NonceSingleUse /\ CountsGrow

(* Every entry of the store is in the file, with its sign count. *)
Durable == \A k \in DOMAIN attestedKeys :
             k \in DOMAIN file /\ file[k].signCount = attestedKeys[k].signCount

(* saveAttestedKeys and loadAttestedKeys: whenever the process dies, in the *)
(* middle of a save too, the next one starts with a complete image: of the  *)
(* keys then on file none that was ever saved with recent use is lost while *)
(* there is room.                                                           *)
RestartKeepsFleet ==
  [][~up /\ up' =>
       /\ file # Torn
       /\ Cardinality(DOMAIN file) <= MaxAttestedKeys =>
            \A k \in DOMAIN file :
              file[k].lastUsedAt = None \/ now - file[k].lastUsedAt <= KeyTTL =>
                k \in DOMAIN attestedKeys' /\ attestedKeys'[k].signCount = file[k].signCount]_attestVars

(* setAttestedKey: a key that leaves the store while the process runs has   *)
(* outlived its time, or made room and was used no later than any that stay. *)
EvictsStalest ==
  [][up /\ up' => \A k \in DOMAIN attestedKeys \ DOMAIN attestedKeys' :
       \/ now - LastActivity(attestedKeys[k]) > KeyTTL
       \/ \A j \in DOMAIN attestedKeys \intersect DOMAIN attestedKeys' :
            LastActivity(attestedKeys[k]) <= LastActivity(attestedKeys[j])]_attestVars

(* A device loses its key only to age or to more recently used keys, by an  *)
(* eviction or by a restart, never to the moment a save was interrupted at. *)
KeysKept == RestartKeepsFleet /\ EvictsStalest
=============================================================================
