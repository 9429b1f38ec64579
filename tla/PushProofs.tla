----------------------------- MODULE PushProofs -----------------------------
(***************************************************************************)
(* The promises of BackgroundPushScheduler for every interval, timeout,    *)
(* hourly ceiling, clock and number of clients that come and go.           *)
(*                                                                         *)
(* The ceiling is checked before an await and counted after it, so the     *)
(* counter alone says little.  What is inductive is that the counter       *)
(* covers the fallbacks of the window that have settled, and that counter  *)
(* and fallbacks in flight together exceed the ceiling by no more than the *)
(* overlap (Counting).  A window that starts anew holds none of the        *)
(* fallbacks decided on before (WakesOwn), although those still in flight  *)
(* will be counted in it.                                                  *)
(***************************************************************************)
EXTENDS PushScheduler, FiniteSetTheorems, TLAPS

(* The fallbacks of the window that are no longer in flight. *)
Settled == InWindow \ Current

(* Pushes belong to an earlier or the present tracking object, fallbacks of *)
(* the present one to a window that has not run out since.                  *)
WakesOwn ==
  /\ \A j \in jobs : j.gen <= gen
  /\ \A w \in wakes : /\ w.kind = "fallback" /\ w.gen <= gen
                      /\ track # None /\ w.gen = gen => w.at < track.window + Hour

(* The counter covers what has settled, and leaves room for what is in      *)
(* flight up to the overlap.                                                *)
Counting ==
  /\ IsFiniteSet(jobs) /\ IsFiniteSet(wakes)
  /\ track # None =>
       /\ Cardinality(Settled) <= track.count
       /\ \/ track.count = 0 /\ Current = {}
          \/ track.count + Cardinality(Current) <= MaxFallbacksPerHour + overlap

(* A session somebody watches is not tracked. *)
WatchedIsUntracked == ~away => track = None

PushInv ==
  PTypeOK /\ WakesOwn /\ Counting /\ WatchedIsUntracked /\ NoFallbackWhileWatching

-----------------------------------------------------------------------------
(* What Counting is about is finite. *)
LEMMA Finite ==
  ASSUME Counting
  PROVE  /\ IsFiniteSet(Current) /\ IsFiniteSet(InWindow) /\ IsFiniteSet(Settled)
         /\ Cardinality(Current) \in Nat /\ Cardinality(Settled) \in Nat
<1>1. Current \in SUBSET jobs BY DEF Current
<1>2. InWindow \in SUBSET wakes BY DEF InWindow
<1>3. Settled \in SUBSET wakes BY <1>2 DEF Settled
<1>4. IsFiniteSet(Current) /\ IsFiniteSet(InWindow) /\ IsFiniteSet(Settled)
  BY <1>1, <1>2, <1>3, FS_Subset DEF Counting
<1> QED BY <1>4, FS_CardinalityType

(* The ceiling follows. *)
LEMMA CountingCaps == ASSUME PushInv PROVE FallbacksCapped
<1> SUFFICES ASSUME track # None, InWindow # {}
             PROVE  Cardinality(InWindow) <= MaxFallbacksPerHour + overlap
  BY DEF FallbacksCapped
<1>1. /\ IsFiniteSet(Current) /\ IsFiniteSet(InWindow) /\ IsFiniteSet(Settled)
      /\ Cardinality(Current) \in Nat /\ Cardinality(Settled) \in Nat
  BY Finite DEF PushInv
<1>2. track.count \in Nat /\ overlap \in Nat /\ MaxFallbacksPerHour \in Int
  BY PushAssumption DEF PushInv, PTypeOK, TrackType
<1>3. Cardinality(Settled) <= track.count BY DEF PushInv, Counting
<1>4. Cardinality(InWindow) <= Cardinality(Settled) + Cardinality(Current)
  <2>1. InWindow \in SUBSET (Settled \cup Current) BY DEF Settled
  <2>2. /\ IsFiniteSet(Settled \cup Current)
        /\ Cardinality(Settled \cup Current)
             = Cardinality(Settled) + Cardinality(Current) - Cardinality(Settled \cap Current)
    BY <1>1, FS_Union
  <2>3. Settled \cap Current = {} BY DEF Settled
  <2>4. Cardinality(Settled \cap Current) = 0 BY <2>3, FS_EmptySet
  <2>5. Cardinality(InWindow) <= Cardinality(Settled \cup Current) BY <2>1, <2>2, FS_Subset
  <2> QED BY <1>1, <2>2, <2>4, <2>5
<1>5. Cardinality(InWindow) \in Nat BY <1>1, FS_CardinalityType
<1>6. CASE track.count = 0 /\ Current = {}
  <2>1. Cardinality(Current) = 0 BY <1>6, FS_EmptySet
  <2>2. Cardinality(InWindow) = 0 BY <1>1, <1>3, <1>4, <1>5, <1>6, <2>1
  <2> QED BY <1>1, <2>2, FS_EmptySet
<1>7. CASE track.count + Cardinality(Current) <= MaxFallbacksPerHour + overlap
  BY <1>1, <1>2, <1>3, <1>4, <1>5, <1>7
<1> QED BY <1>6, <1>7 DEF PushInv, Counting

(* A step that neither decides on nor settles a fallback keeps the count. *)
LEMMA Quiet ==
  ASSUME PushInv, IsFiniteSet(jobs'), \A j \in jobs' : j.gen <= gen,
         {j \in jobs' : j.kind = "fallback"} = {j \in jobs : j.kind = "fallback"},
         UNCHANGED <<gen, wakes, overlap>>,
         \/ track' = None
         \/ /\ track # None
            /\ track'.count = track.count /\ track'.window = track.window
  PROVE  WakesOwn' /\ Counting'
<1>1. Current' = Current BY DEF Current
<1>2. CASE track' = None BY <1>2 DEF PushInv, WakesOwn, Counting
<1>3. CASE track' # None
  <2>1. InWindow' = InWindow /\ Settled' = Settled BY <1>1, <1>3 DEF InWindow, Settled
  <2> QED BY <1>1, <1>3, <2>1 DEF PushInv, WakesOwn, Counting
<1> QED BY <1>2, <1>3

(* A new push is of its type. *)
LEMMA JobTyped ==
  ASSUME PTypeOK, NEW kind \in {"activity", "silent", "fallback"}, NEW s \in Nat, NEW both \in BOOLEAN
  PROVE  /\ Job(kind, s, both) \in JobType
         /\ Job(kind, s, both).kind = kind /\ Job(kind, s, both).gen = gen
         /\ Job(kind, s, both).at = now
BY DEF PTypeOK, JobType, Job

-----------------------------------------------------------------------------
(* PushInv is inductive. *)
LEMMA PushInvInit == PInit => PushInv
<1> SUFFICES ASSUME PInit PROVE PushInv OBVIOUS
<1>1. Start \in Nat BY PushAssumption
<1>2. PTypeOK BY <1>1 DEF PInit, PTypeOK
<1>3. WakesOwn /\ Counting BY FS_EmptySet DEF PInit, WakesOwn, Counting
<1> QED BY <1>2, <1>3 DEF PInit, PushInv, WatchedIsUntracked, NoFallbackWhileWatching

(* The last client leaves: a new tracking object has no fallbacks. *)
LEMMA TrackKeeps == ASSUME PushInv, TrackSession PROVE PushInv'
<1> USE DEF PushInv, TrackSession
<1>1. PTypeOK' BY PushAssumption DEF PTypeOK, NewTrack, TrackType
<1>2. /\ \A j \in jobs : j.gen \in Nat /\ j.gen <= gen
      /\ \A w \in wakes : w.gen \in Nat /\ w.gen <= gen
      /\ gen \in Nat
  BY DEF WakesOwn, PTypeOK, JobType
<1>3. WakesOwn' BY <1>2 DEF WakesOwn
<1>4. Counting'
  <2>1. Current' = {} BY <1>2 DEF Current
  <2>2. InWindow' = {} BY <1>2 DEF InWindow
  <2>3. Settled' = {} BY <2>2 DEF Settled
  <2>4. track'.count = 0 BY DEF NewTrack
  <2> QED BY <2>1, <2>3, <2>4, FS_EmptySet DEF Counting
<1> QED BY <1>1, <1>3, <1>4 DEF WatchedIsUntracked, NoFallbackWhileWatching

LEMMA UntrackKeeps == ASSUME PushInv, UntrackSession PROVE PushInv'
<1> USE DEF PushInv, UntrackSession
<1>1. WakesOwn' /\ Counting' BY DEF WakesOwn, Counting, history
<1>2. PTypeOK' BY DEF PTypeOK, history
<1> QED BY <1>1, <1>2 DEF WatchedIsUntracked, NoFallbackWhileWatching, history

LEMMA AckKeeps == ASSUME PushInv, NEW n \in Nat, RecordSyncAck(n) PROVE PushInv'
<1> USE DEF PushInv, RecordSyncAck
<1>1. track \in TrackType /\ now + FallbackCooldown \in Int /\ FallbackCooldown \in Int
  BY PushAssumption DEF PTypeOK
<1>2. track' \in TrackType /\ track'.count = track.count /\ track'.window = track.window
  BY <1>1 DEF TrackType
<1>3. PTypeOK' BY <1>2 DEF PTypeOK, history
<1>4. WakesOwn' /\ Counting' BY <1>2, Quiet DEF WakesOwn, Counting, history
<1> QED BY <1>3, <1>4 DEF WatchedIsUntracked, NoFallbackWhileWatching, history

(* Output that is pushed, or not. *)
LEMMA OutputKeeps == ASSUME PushInv, BufferedOutput PROVE PushInv'
<1> USE DEF PushInv
<1> DEFINE new == IF away THEN Decided(seq') ELSE {}
<1>0. UNCHANGED <<now, away, activity, track, gen, ackTimer, wakes, overlap, woken>>
  BY DEF BufferedOutput, history
<1>1. seq' \in Nat BY DEF PTypeOK, BufferedOutput
<1>2. /\ \A j \in new : j \in JobType /\ j.kind # "fallback" /\ j.gen <= gen
      /\ IsFiniteSet(new)
  <2>1. \A k \in {"activity", "silent"}, b \in BOOLEAN :
          LET j == Job(k, seq', b) IN j \in JobType /\ j.kind # "fallback" /\ j.gen <= gen
    BY <1>1, JobTyped DEF PTypeOK
  <2>2. (now - track.silentAt >= SilentPushInterval) \in BOOLEAN OBVIOUS
  <2>3. \/ new = {}
        \/ \E k \in {"activity", "silent"}, b \in BOOLEAN : new = {Job(k, seq', b)}
    BY <2>2 DEF Decided
  <2> HIDE DEF new
  <2> QED BY <2>1, <2>3, FS_EmptySet, FS_Singleton
<1>3. jobs' = jobs \cup new BY DEF BufferedOutput
<1> HIDE DEF new
<1>4. \A j \in jobs' : j \in JobType /\ j.gen <= gen BY <1>2, <1>3 DEF PTypeOK, WakesOwn
<1>5. IsFiniteSet(jobs') BY <1>2, <1>3, FS_Union DEF Counting
<1>6. {j \in jobs' : j.kind = "fallback"} = {j \in jobs : j.kind = "fallback"} BY <1>2, <1>3
<1>7. PTypeOK' BY <1>0, <1>1, <1>4 DEF PTypeOK
<1>8. WakesOwn' /\ Counting' BY <1>0, <1>4, <1>5, <1>6, Quiet
<1> QED BY <1>0, <1>7, <1>8 DEF WatchedIsUntracked, NoFallbackWhileWatching

(* A push for output returned. *)
LEMMA ActivityKeeps ==
  ASSUME PushInv, NEW j \in jobs, NEW ok \in BOOLEAN, ActivityPushed(j, ok)
  PROVE  PushInv'
<1> USE DEF PushInv
<1>1. j \in JobType /\ j.gen <= gen BY DEF PTypeOK, WakesOwn
<1> DEFINE next == IF j.both THEN {[j EXCEPT !.kind = "silent", !.both = FALSE]} ELSE {}
<1>2. /\ \A i \in next : i \in JobType /\ i.kind # "fallback" /\ i.gen <= gen
      /\ IsFiniteSet(next)
  <2>1. \A i \in next : i = [j EXCEPT !.kind = "silent", !.both = FALSE] OBVIOUS
  <2>2. IsFiniteSet(next) BY FS_EmptySet, FS_Singleton
  <2> HIDE DEF next
  <2> QED BY <1>1, <2>1, <2>2 DEF JobType
<1>3. jobs' = (jobs \ {j}) \cup next /\ j.kind = "activity" BY DEF ActivityPushed
<1> HIDE DEF next
<1>4. UNCHANGED <<now, seq, away, activity, gen, wakes, overlap, woken>>
  BY DEF ActivityPushed, history
<1>5. ackTimer' # None => ackTimer' \in [seq : Nat, due : Int]
  BY <1>1, PushAssumption DEF ActivityPushed, ScheduleAckTimeout, JobType, PTypeOK
<1>6. \A i \in jobs' : i \in JobType /\ i.gen <= gen BY <1>2, <1>3 DEF PTypeOK, WakesOwn
<1>7. IsFiniteSet(jobs')
  <2>1. IsFiniteSet(jobs \ {j}) BY FS_RemoveElement DEF Counting
  <2> QED BY <1>2, <1>3, <2>1, FS_Union
<1>8. {i \in jobs' : i.kind = "fallback"} = {i \in jobs : i.kind = "fallback"} BY <1>2, <1>3
<1>9. /\ track = None => track' = None
      /\ track # None => /\ track' \in TrackType
                         /\ track'.count = track.count /\ track'.window = track.window
  BY <1>1 DEF ActivityPushed, Written, PTypeOK, TrackType, JobType
<1>10. PTypeOK' BY <1>4, <1>5, <1>6, <1>9 DEF PTypeOK
<1>11. WakesOwn' /\ Counting' BY <1>4, <1>6, <1>7, <1>8, <1>9, Quiet
<1> QED BY <1>4, <1>9, <1>10, <1>11 DEF WatchedIsUntracked, NoFallbackWhileWatching

LEMMA SilentKeeps ==
  ASSUME PushInv, NEW j \in jobs, NEW ok \in BOOLEAN, SilentPushed(j, ok)
  PROVE  PushInv'
<1> USE DEF PushInv
<1>1. j \in JobType BY DEF PTypeOK
<1>2. jobs' = jobs \ {j} /\ j.kind = "silent" BY DEF SilentPushed
<1>3. UNCHANGED <<now, seq, away, activity, gen, ackTimer, wakes, overlap, woken>>
  BY DEF SilentPushed, history
<1>4. \A i \in jobs' : i \in JobType /\ i.gen <= gen BY <1>2 DEF PTypeOK, WakesOwn
<1>5. IsFiniteSet(jobs') BY <1>2, FS_RemoveElement DEF Counting
<1>6. {i \in jobs' : i.kind = "fallback"} = {i \in jobs : i.kind = "fallback"} BY <1>2
<1>7. /\ track = None => track' = None
      /\ track # None => /\ track' \in TrackType
                         /\ track'.count = track.count /\ track'.window = track.window
  BY <1>1 DEF SilentPushed, Written, PTypeOK, TrackType, JobType
<1>8. PTypeOK' BY <1>3, <1>4, <1>7 DEF PTypeOK
<1>9. WakesOwn' /\ Counting' BY <1>3, <1>4, <1>5, <1>6, <1>7, Quiet
<1> QED BY <1>3, <1>7, <1>8, <1>9 DEF WatchedIsUntracked, NoFallbackWhileWatching

(* The fallback returned: what was in flight is counted, or no longer is. *)
LEMMA FallbackKeeps ==
  ASSUME PushInv, NEW j \in jobs, NEW ok \in BOOLEAN, FallbackPushed(j, ok)
  PROVE  PushInv'
<1> USE DEF PushInv
<1>1. j \in JobType BY DEF PTypeOK
<1>2. jobs' = jobs \ {j} /\ j.kind = "fallback" BY DEF FallbackPushed
<1>3. UNCHANGED <<now, seq, away, activity, gen, ackTimer, overlap, woken>>
  BY DEF FallbackPushed
<1>4. \/ wakes' = wakes \ {j} /\ track' = track
      \/ wakes' = wakes /\ track' = track /\ ~(track # None /\ gen = j.gen)
      \/ /\ wakes' = wakes /\ track # None /\ j.gen = gen
         /\ track' = [track EXCEPT
             !.silentAt = j.at, !.count = @ + 1,
             !.nextFallback = j.at + track.backoff,
             !.backoff = IF 2 * @ < MaxBackoff THEN 2 * @ ELSE MaxBackoff]
  BY DEF FallbackPushed, Written
<1>5. /\ track = None => track' = None
      /\ track # None =>
           /\ track' \in TrackType /\ track'.window = track.window
           /\ \/ track'.count = track.count /\ (wakes' = wakes \ {j} \/ j.gen # gen)
              \/ track'.count = track.count + 1 /\ wakes' = wakes /\ j.gen = gen
  <2>1. CASE \/ wakes' = wakes \ {j} /\ track' = track
             \/ wakes' = wakes /\ track' = track /\ ~(track # None /\ gen = j.gen)
    BY <2>1 DEF PTypeOK
  <2>2. CASE /\ wakes' = wakes /\ track # None /\ j.gen = gen
             /\ track' = [track EXCEPT
                  !.silentAt = j.at, !.count = @ + 1,
                  !.nextFallback = j.at + track.backoff,
                  !.backoff = IF 2 * @ < MaxBackoff THEN 2 * @ ELSE MaxBackoff]
    <3> DEFINE b == IF 2 * track.backoff < MaxBackoff THEN 2 * track.backoff ELSE MaxBackoff
    <3>1. track \in TrackType BY <2>2 DEF PTypeOK
    <3>2. b \in Int BY <3>1, PushAssumption DEF TrackType
    <3>3. j.at + track.backoff \in Int /\ track.count + 1 \in Nat /\ j.at \in Nat
      BY <1>1, <3>1 DEF TrackType, JobType
    <3>4. track' = [track EXCEPT !.silentAt = j.at, !.count = track.count + 1,
                                 !.nextFallback = j.at + track.backoff, !.backoff = b]
      BY <2>2, <3>1 DEF TrackType
    <3> HIDE DEF b
    <3> QED BY <2>2, <3>1, <3>2, <3>3, <3>4 DEF TrackType
  <2> QED BY <1>4, <2>1, <2>2
<1>6. wakes' \subseteq wakes BY <1>4
<1>7. PTypeOK' BY <1>2, <1>3, <1>5, <1>6 DEF PTypeOK
<1>8. WakesOwn' BY <1>2, <1>3, <1>5, <1>6 DEF WakesOwn
<1>9. Counting'
  <2>1. IsFiniteSet(jobs') /\ IsFiniteSet(wakes')
    BY <1>2, <1>6, FS_RemoveElement, FS_Subset DEF Counting
  <2> SUFFICES ASSUME track' # None
               PROVE  /\ Cardinality(Settled') <= track'.count
                      /\ \/ track'.count = 0 /\ Current' = {}
                         \/ track'.count + Cardinality(Current') <= MaxFallbacksPerHour + overlap'
    BY <2>1 DEF Counting
  <2>2. track # None /\ track'.window = track.window BY <1>5
  <2>3. /\ IsFiniteSet(Current) /\ IsFiniteSet(Settled)
        /\ Cardinality(Current) \in Nat /\ Cardinality(Settled) \in Nat
    BY Finite
  <2>4. /\ track.count \in Nat /\ track'.count \in Nat /\ overlap \in Nat
        /\ MaxFallbacksPerHour \in Int
    BY <1>5, <2>2, PushAssumption DEF PTypeOK, TrackType
  <2>5. /\ Cardinality(Settled) <= track.count
        /\ \/ track.count = 0 /\ Current = {}
           \/ track.count + Cardinality(Current) <= MaxFallbacksPerHour + overlap
    BY <2>2 DEF Counting
  <2>6. Current' = Current \ {j} BY <1>2, <1>3 DEF Current
  <2>7. CASE j.gen # gen
    <3>1. Current' = Current BY <2>6, <2>7 DEF Current
    <3>2. InWindow' = InWindow BY <1>3, <1>4, <2>2, <2>7 DEF InWindow
    <3>3. Settled' = Settled BY <3>1, <3>2 DEF Settled
    <3>4. track'.count = track.count BY <1>5, <2>2, <2>7
    <3> QED BY <1>3, <2>5, <3>1, <3>3, <3>4
  <2>8. CASE j.gen = gen /\ wakes' = wakes \ {j} /\ track'.count = track.count
    <3>1. j \in Current BY <1>2, <2>8 DEF Current
    <3>2. InWindow' = InWindow \ {j} BY <1>3, <2>2, <2>8 DEF InWindow
    <3>3. Settled' = Settled BY <2>6, <3>1, <3>2 DEF Settled
    <3>4. Cardinality(Current') = Cardinality(Current) - 1 BY <2>3, <2>6, <3>1, FS_RemoveElement
    <3> QED BY <1>3, <2>3, <2>4, <2>5, <2>8, <3>1, <3>3, <3>4
  <2>9. CASE j.gen = gen /\ wakes' = wakes /\ track'.count = track.count + 1
    <3>1. j \in Current BY <1>2, <2>9 DEF Current
    <3>2. InWindow' = InWindow BY <1>3, <2>2, <2>9 DEF InWindow
    <3>3. Settled' \in SUBSET (Settled \cup {j}) BY <2>6, <3>2 DEF Settled
    <3>4. IsFiniteSet(Settled \cup {j}) /\ Cardinality(Settled \cup {j}) <= Cardinality(Settled) + 1
      <4>1. /\ IsFiniteSet(Settled \cup {j})
            /\ Cardinality(Settled \cup {j})
                 = IF j \in Settled THEN Cardinality(Settled) ELSE Cardinality(Settled) + 1
        BY <2>3, FS_AddElement
      <4> QED BY <2>3, <4>1
    <3>5. IsFiniteSet(Settled') /\ Cardinality(Settled') <= Cardinality(Settled \cup {j})
      BY <3>3, <3>4, FS_Subset
    <3>6. Cardinality(Settled') \in Nat /\ Cardinality(Settled \cup {j}) \in Nat
      BY <3>4, <3>5, FS_CardinalityType
    <3>7. Cardinality(Current') = Cardinality(Current) - 1 BY <2>3, <2>6, <3>1, FS_RemoveElement
    <3> QED BY <1>3, <2>3, <2>4, <2>5, <2>9, <3>1, <3>4, <3>5, <3>6, <3>7
  <2> QED BY <1>5, <2>2, <2>7, <2>8, <2>9
<1> QED BY <1>3, <1>5, <1>7, <1>8, <1>9 DEF WatchedIsUntracked, NoFallbackWhileWatching

(* The ack timer fires.  The window it decides in has not run out, and one *)
(* it has just opened is empty.                                            *)
LEMMA TimeoutKeeps == ASSUME PushInv, AckTimeout PROVE PushInv'
<1> USE DEF PushInv
<1>1. /\ ackTimer # None /\ ackTimer' = None
      /\ UNCHANGED <<now, seq, away, activity, gen>>
      /\ ackTimer.seq \in Nat /\ now \in Nat
  BY DEF AckTimeout, PTypeOK
<1>2. CASE UNCHANGED <<track, jobs, history>>
  <2>1. PTypeOK' BY <1>1, <1>2 DEF PTypeOK, history
  <2>2. WakesOwn' /\ Counting'
    BY <1>1, <1>2 DEF WakesOwn, Counting, Settled, InWindow, Current, history
  <2> QED BY <1>1, <1>2, <2>1, <2>2 DEF WatchedIsUntracked, NoFallbackWhileWatching, history
<1>3. CASE MayFallback(ackTimer.seq) /\ track' = Rolled(track)
  <2>1. track # None /\ track \in TrackType /\ Hour \in Nat \ {0}
    BY <1>3, PushAssumption DEF MayFallback, PTypeOK
  <2>2. /\ track' \in TrackType /\ now < track'.window + Hour
        /\ \/ track'.window = track.window /\ track'.count = track.count
           \/ track.window + Hour <= now /\ track'.window = now /\ track'.count = 0
    <3>1. CASE now - track.window >= Hour
      <4>1. track' = [track EXCEPT !.window = now, !.count = 0] BY <1>3, <3>1 DEF Rolled
      <4>2. track' \in TrackType /\ track'.count = 0 /\ track'.window = now
        BY <1>1, <2>1, <4>1 DEF TrackType
      <4> QED BY <1>1, <2>1, <3>1, <4>2 DEF TrackType
    <3>2. CASE ~(now - track.window >= Hour) BY <1>1, <1>3, <2>1, <3>2 DEF Rolled, TrackType
    <3> QED BY <3>1, <3>2
  <2>3. away /\ ~woken BY <2>1 DEF WatchedIsUntracked, NoFallbackWhileWatching, PTypeOK
  <2> DEFINE old == {w \in wakes : w.gen = gen /\ w.at >= track'.window}
  <2>4. Cardinality(old \ Current) <= track'.count
    <3>1. CASE track'.window = track.window /\ track'.count = track.count
      <4>1. old = InWindow BY <3>1 DEF InWindow
      <4> QED BY <2>1, <3>1, <4>1 DEF Counting, Settled
    <3>2. CASE track.window + Hour <= now /\ track'.window = now /\ track'.count = 0
      <4>1. \A w \in wakes : w.gen = gen => w.at \in Nat /\ w.at < now
        BY <1>1, <2>1, <3>2 DEF WakesOwn, PTypeOK, JobType, TrackType
      <4>2. old \ Current = {} BY <1>1, <3>2, <4>1
      <4>3. Cardinality(old \ Current) = 0 BY <4>2, FS_EmptySet
      <4> HIDE DEF old
      <4> QED BY <3>2, <4>3
    <3> QED BY <2>2, <3>1, <3>2
  <2>5. /\ track.count \in Nat /\ track'.count \in Nat /\ overlap \in Nat
        /\ MaxFallbacksPerHour \in Int /\ Cardinality(Current) \in Nat
        /\ IsFiniteSet(Current)
    BY <2>1, <2>2, PushAssumption, Finite DEF PTypeOK, TrackType
  <2>6. CASE UNCHANGED <<jobs, history>> /\ track'.count >= MaxFallbacksPerHour
    <3>1. PTypeOK' BY <1>1, <2>2, <2>6 DEF PTypeOK, history
    <3>2. WakesOwn'
      <4>1. \A w \in wakes : w.gen = gen => w.at < track'.window + Hour
        BY <1>1, <2>1, <2>2 DEF WakesOwn, PTypeOK, JobType, TrackType
      <4> QED BY <1>1, <2>6, <4>1 DEF WakesOwn, history
    <3>3. Current' = Current /\ Settled' = old \ Current
      BY <1>1, <2>6 DEF Current, Settled, InWindow, history
    <3>4. \/ track'.count = 0 /\ Current = {}
          \/ track'.count + Cardinality(Current) <= MaxFallbacksPerHour + overlap
      BY <2>1, <2>2, <2>5 DEF Counting
    <3>5. Counting' BY <2>4, <2>6, <3>3, <3>4 DEF Counting, history
    <3> QED BY <1>1, <2>3, <2>6, <3>1, <3>2, <3>5 DEF WatchedIsUntracked,
               NoFallbackWhileWatching, history
  <2>7. CASE /\ ~(track'.count >= MaxFallbacksPerHour)
             /\ jobs' = jobs \cup {Job("fallback", ackTimer.seq, FALSE)}
             /\ wakes' = wakes \cup {Job("fallback", ackTimer.seq, FALSE)}
             /\ overlap' = IF overlap < Cardinality(Current)
                           THEN Cardinality(Current) ELSE overlap
             /\ woken' = (woken \/ ~away)
    <3> DEFINE f == Job("fallback", ackTimer.seq, FALSE)
    <3>1. f \in JobType /\ f.kind = "fallback" /\ f.gen = gen /\ f.at = now
      BY <1>1, JobTyped
    <3>2. jobs' = jobs \cup {f} /\ wakes' = wakes \cup {f} BY <2>7
    <3> HIDE DEF f
    <3>3. ~woken' /\ woken' \in BOOLEAN BY <2>3, <2>7, Zenon
    <3>4. overlap' \in Nat /\ overlap <= overlap' /\ Cardinality(Current) <= overlap'
      BY <2>5, <2>7
    <3>5. PTypeOK' BY <1>1, <2>2, <3>1, <3>2, <3>3, <3>4 DEF PTypeOK
    <3>6. WakesOwn'
      <4>1. \A w \in wakes : w.gen = gen => w.at < track'.window + Hour
        BY <1>1, <2>1, <2>2 DEF WakesOwn, PTypeOK, JobType, TrackType
      <4>2. gen \in Nat BY DEF PTypeOK
      <4> QED BY <1>1, <2>2, <3>1, <3>2, <4>1, <4>2 DEF WakesOwn
    <3>7. IsFiniteSet(jobs') /\ IsFiniteSet(wakes') BY <3>2, FS_AddElement DEF Counting
    <3>8. Current' = Current \cup {f} BY <1>1, <3>1, <3>2 DEF Current
    <3>9. IsFiniteSet(Current') /\ Cardinality(Current') <= Cardinality(Current) + 1
          /\ Cardinality(Current') \in Nat
      <4>1. /\ IsFiniteSet(Current')
            /\ Cardinality(Current')
                 = IF f \in Current THEN Cardinality(Current) ELSE Cardinality(Current) + 1
        BY <2>5, <3>8, FS_AddElement
      <4> QED BY <2>5, <4>1
    <3>10. Settled' \in SUBSET (old \ Current)
      BY <1>1, <3>2, <3>8 DEF Settled, InWindow
    <3>11. Cardinality(Settled') <= track'.count
      <4>1. IsFiniteSet(old \ Current)
        <5>1. old \ Current \in SUBSET wakes OBVIOUS
        <5> QED BY <5>1, FS_Subset DEF Counting
      <4>2. IsFiniteSet(Settled') /\ Cardinality(Settled') <= Cardinality(old \ Current)
        BY <3>10, <4>1, FS_Subset
      <4>3. Cardinality(Settled') \in Nat /\ Cardinality(old \ Current) \in Nat
        BY <4>1, <4>2, FS_CardinalityType
      <4> HIDE DEF old
      <4> QED BY <2>4, <2>5, <4>2, <4>3
    <3>12. track'.count + Cardinality(Current') <= MaxFallbacksPerHour + overlap'
      <4>1. track'.count + 1 <= MaxFallbacksPerHour BY <2>5, <2>7
      <4> QED BY <2>5, <3>4, <3>9, <4>1
    <3>13. Counting' BY <3>7, <3>11, <3>12 DEF Counting
    <3> QED BY <1>1, <2>3, <3>3, <3>5, <3>6, <3>13 DEF WatchedIsUntracked,
               NoFallbackWhileWatching
  <2> QED BY <1>2, <2>6, <2>7 DEF AckTimeout
<1> QED BY <1>2, <1>3 DEF AckTimeout

(* Time passes. *)
LEMMA TickKeeps == ASSUME PushInv, Tick PROVE PushInv'
<1> USE DEF PushInv, Tick
<1>1. PTypeOK' BY DEF PTypeOK, history
<1>2. WakesOwn' /\ Counting' BY DEF WakesOwn, Counting, Settled, InWindow, Current, history
<1> QED BY <1>1, <1>2 DEF WatchedIsUntracked, NoFallbackWhileWatching, history

LEMMA PushInvStep == PushInv /\ [PNext]_pushVars => PushInv'
<1> SUFFICES ASSUME PushInv, [PNext]_pushVars PROVE PushInv' OBVIOUS
<1>1. CASE TrackSession BY <1>1, TrackKeeps
<1>2. CASE UntrackSession BY <1>2, UntrackKeeps
<1>3. CASE BufferedOutput BY <1>3, OutputKeeps
<1>4. ASSUME NEW n \in 0 .. seq, RecordSyncAck(n) PROVE PushInv'
  <2>1. n \in Nat BY DEF PushInv, PTypeOK
  <2> QED BY <1>4, <2>1, AckKeeps
<1>5. ASSUME NEW j \in jobs, NEW ok \in BOOLEAN,
             ActivityPushed(j, ok) \/ SilentPushed(j, ok) \/ FallbackPushed(j, ok)
      PROVE  PushInv'
  BY <1>5, ActivityKeeps, SilentKeeps, FallbackKeeps
<1>6. CASE AckTimeout BY <1>6, TimeoutKeeps
<1>7. CASE Tick BY <1>7, TickKeeps
<1>8. CASE UNCHANGED pushVars
  <2> USE <1>8 DEF pushVars, history, PushInv
  <2>1. PTypeOK' BY DEF PTypeOK
  <2>2. WakesOwn' /\ Counting' BY DEF WakesOwn, Counting, Settled, InWindow, Current
  <2> QED BY <2>1, <2>2 DEF WatchedIsUntracked, NoFallbackWhileWatching
<1> QED BY <1>1, <1>2, <1>3, <1>4, <1>5, <1>6, <1>7, <1>8 DEF PNext

(* The invariant holds of every run of the scheduler. *)
THEOREM PushInvariant == PSpec => []PushInv
BY PushInvInit, PushInvStep, PTL DEF PSpec

(* handleAckTimeout, for any integers the settings hold: although the      *)
(* counter is read before the await and incremented after it, the          *)
(* fallbacks of one tracking object and window exceed maxFallbacksPerHour  *)
(* by no more than the number that were in flight together.                *)
THEOREM FallbacksTheorem == PSpec => []FallbacksCapped
BY CountingCaps, PushInvariant, PTL

(* untrackSession: no ack timeout wakes a device whose player is looking,   *)
(* whichever pushes were still awaited when the player came back.           *)
THEOREM WatchingTheorem == PSpec => []NoFallbackWhileWatching
<1>1. PushInv => NoFallbackWhileWatching BY DEF PushInv
<1> QED BY <1>1, PushInvariant, PTL
=============================================================================
