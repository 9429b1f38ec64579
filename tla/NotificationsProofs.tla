------------------------- MODULE NotificationsProofs -------------------------
(***************************************************************************)
(* The limits of TriggerMatcher and the connection cache of                *)
(* NotificationManager, for every list of triggers, every period and       *)
(* ceiling and every number of notifications, requests and connections.    *)
(*                                                                         *)
(* TriggerLimits speaks of all notifications ever sent, the code only of   *)
(* one limiter entry, which it restarts and removes.  LimitInv says what   *)
(* the entry, or its absence, tells about the past, which it cuts in       *)
(* three: the hour of the entry, at most an hour's worth before, and what  *)
(* ended more than an hour before the entry's hour began.                  *)
(***************************************************************************)
EXTENDS Notifications, FiniteSetTheorems, SequenceTheorems, TLAPS

(* Types, and times that do not run backwards. *)
NotesOK ==
  /\ now \in Nat /\ now >= 1
  /\ notes \in Seq([trigger : TriggerIds, at : Nat])
  /\ \A i \in 1 .. Len(notes) : 1 <= notes[i].at /\ notes[i].at <= now

(* What an entry of the limiter tells: it counts the notifications of its  *)
(* hour, the ones before are at most an hour's worth but for those older   *)
(* still, and each is known by its trigger or a minute older than the hour. *)
Describes(e) ==
  /\ e \in RateLimits
  /\ e.count <= TotalPerHour /\ e.count <= Len(notes) /\ e.reset <= now
  /\ \A t \in TriggerIds : e.last[t] <= now
  /\ \A i \in 1 .. Len(notes) :
       /\ notes[i].at <= e.reset + Hour
       /\ \/ notes[i].at <= e.last[notes[i].trigger]
          \/ notes[i].at + Minute <= e.reset
  /\ \A i \in 1 .. Len(notes) - e.count : notes[i].at <= e.reset
  /\ \E p \in 0 .. Len(notes) - e.count :
       /\ Len(notes) - e.count - p <= TotalPerHour
       /\ \A i \in 1 .. p : notes[i].at + Hour < e.reset

(* What the absence of an entry tells. *)
Forgotten ==
  /\ \A i \in 1 .. Len(notes) : notes[i].at + Minute <= now
  /\ \E p \in 0 .. Len(notes) :
       /\ Len(notes) - p <= TotalPerHour
       /\ \A i \in 1 .. p : notes[i].at + Hour < now

LimitInv ==
  /\ limit = None => Forgotten
  /\ limit # None => Describes(limit)

NoteInv == NotesOK /\ LimitInv /\ TriggerSpacing /\ HourlyBound

ApnsInv ==
  /\ conn \in [1 .. MaxConns -> ConnState] /\ cached \in 0 .. MaxConns
  /\ \A r \in waiting : r.on \in 1 .. MaxConns
  /\ ConnectionTracked

-----------------------------------------------------------------------------
(* The connection cache.                                                   *)

LEMMA SendKeeps == ASSUME ApnsInv, NEW n, Send(n) PROVE ApnsInv'
<1> USE DEF ApnsInv, ConnectionTracked, OpenIsCached, NoneWaitsOnGone, ConnState
<1>0. MaxConns \in Nat BY NotificationAssumption
<1>1. PICK k \in Client :
        \/ /\ conn' = [conn EXCEPT ![k] = "open"] /\ cached' = k
           /\ waiting' = waiting \cup {[note |-> n, on |-> k]}
        \/ /\ conn' = [conn EXCEPT ![k] = "dead"] /\ cached' = 0
           /\ UNCHANGED waiting
  BY DEF Send
<1>2. k \in 1 .. MaxConns /\ conn[k] \in {"open", "unused"}
  BY <1>0 DEF Client, Healthy
<1>3. \A i \in 1 .. MaxConns : conn[i] = "open" => i = k
  BY <1>0 DEF Client, Healthy
<1>4. CASE /\ conn' = [conn EXCEPT ![k] = "open"] /\ cached' = k
           /\ waiting' = waiting \cup {[note |-> n, on |-> k]}
  BY <1>0, <1>2, <1>3, <1>4
<1>5. CASE /\ conn' = [conn EXCEPT ![k] = "dead"] /\ cached' = 0 /\ UNCHANGED waiting
  BY <1>0, <1>2, <1>3, <1>5
<1> QED BY <1>1, <1>4, <1>5

LEMMA ApnsStep == ASSUME ApnsInv, [NNext]_nVars PROVE ApnsInv'
<1>1. CASE UNCHANGED apnsVars
  BY <1>1 DEF apnsVars, ApnsInv, ConnectionTracked, OpenIsCached, NoneWaitsOnGone
<1>2. ASSUME NEW m \in SUBSET TriggerIds, NotifiedOutput(m) PROVE ApnsInv'
  BY <1>1, <1>2, SendKeeps DEF NotifiedOutput, Unavailable
<1> USE DEF ApnsInv, ConnectionTracked, OpenIsCached, NoneWaitsOnGone, ConnState
<1>3. ASSUME NEW r \in waiting, Settle(r) PROVE ApnsInv' BY <1>3 DEF Settle
<1>4. CASE Requests BY <1>3, <1>4 DEF Requests, Answered, RequestError, RequestTimeout
<1>5. ASSUME NEW k \in 1 .. MaxConns, ConnectionDies(k) PROVE ApnsInv'
  BY <1>5 DEF ConnectionDies
<1>6. ASSUME NEW k \in 1 .. MaxConns, ConnectionEvent(k) PROVE ApnsInv'
  BY <1>6, NotificationAssumption DEF ConnectionEvent, Cleared
<1>7. ASSUME NEW k \in 1 .. MaxConns, NEW kept \in SUBSET waiting, GoAway(k, kept) PROVE ApnsInv'
  BY <1>7, NotificationAssumption DEF GoAway, Cleared
<1>8. CASE (\E m \in SUBSET TriggerIds : HeldBackOutput(m)) \/ CleanupOldEntries \/ Tick
  BY <1>1, <1>8 DEF HeldBackOutput, CleanupOldEntries, Tick
<1>9. CASE UNCHANGED nVars BY <1>1, <1>9 DEF nVars
<1> HIDE DEF ApnsInv, ConnectionTracked, OpenIsCached, NoneWaitsOnGone, ConnState
<1> QED BY <1>2, <1>4, <1>5, <1>6, <1>7, <1>8, <1>9 DEF NNext

(* clearAPNSClient and the connection's handlers: whatever order the events *)
(* of a connection and its predecessors arrive in, an open connection is    *)
(* the cached one, and nobody awaits a push on one whose end was reported.  *)
THEOREM ConnectionTheorem == NSpec => []ConnectionTracked
<1>1. NInit => ApnsInv
  BY NotificationAssumption DEF NInit, ApnsInv, ConnState, ConnectionTracked, OpenIsCached,
     NoneWaitsOnGone
<1>2. ApnsInv /\ [NNext]_nVars => ApnsInv' BY ApnsStep
<1>3. ApnsInv => ConnectionTracked BY DEF ApnsInv
<1> QED BY <1>1, <1>2, <1>3, PTL DEF NSpec

-----------------------------------------------------------------------------
(* The limits.                                                             *)

LEMMA Periods ==
  /\ {Minute, Hour, MaxAge, TotalPerHour} \subseteq Nat
  /\ Minute \in Nat /\ Hour \in Nat /\ MaxAge \in Nat /\ TotalPerHour \in Nat
  /\ Hour + Minute <= MaxAge /\ TotalPerHour > 0
BY NotificationAssumption

LEMMA NotesTyped ==
  ASSUME NotesOK
  PROVE  /\ DOMAIN notes = 1 .. Len(notes) /\ Len(notes) \in Nat /\ now \in Nat
         /\ \A i \in 1 .. Len(notes) :
              /\ notes[i] \in [trigger : TriggerIds, at : Nat]
              /\ notes[i].trigger \in TriggerIds /\ notes[i].at \in Nat
              /\ 1 <= notes[i].at /\ notes[i].at <= now
<1>1. DOMAIN notes = 1 .. Len(notes) /\ Len(notes) \in Nat /\ now \in Nat BY DEF NotesOK
<1>2. \A i \in 1 .. Len(notes) : notes[i] \in [trigger : TriggerIds, at : Nat]
  BY ElementOfSeq DEF NotesOK
<1> QED BY <1>1, <1>2 DEF NotesOK

(* checkRateLimit's entry describes the past, whatever became of the one    *)
(* before it, and its hour is not over.                                     *)
LEMMA EntryDescribes ==
  ASSUME NotesOK, LimitInv
  PROVE  Describes(Entry) /\ now <= Entry.reset + Hour /\ Entry # None
<1> USE Periods, NotesTyped
<1>1. CASE limit = None
  <2>1. Entry = [count |-> 0, reset |-> now, last |-> [t \in TriggerIds |-> 0]]
    BY <1>1 DEF Entry
  <2>2. Entry \in RateLimits /\ Entry.count = 0 /\ Entry.reset = now
        /\ \A t \in TriggerIds : Entry.last[t] = 0
    BY <2>1 DEF RateLimits
  <2> HIDE DEF Entry
  <2>3. PICK p \in 0 .. Len(notes) :
          /\ Len(notes) - p <= TotalPerHour
          /\ \A i \in 1 .. p : notes[i].at + Hour < now
    BY <1>1 DEF LimitInv, Forgotten
  <2>4. \A i \in 1 .. Len(notes) : notes[i].at + Minute <= Entry.reset
    BY <1>1, <2>2 DEF LimitInv, Forgotten
  <2>5. Len(notes) - Entry.count = Len(notes) BY <2>2
  <2> QED BY <2>2, <2>3, <2>4, <2>5, NotificationAssumption DEF Describes
<1>2. CASE limit # None /\ now - limit.reset > Hour
  <2>0. Describes(limit) BY <1>2 DEF LimitInv
  <2>1. /\ limit \in RateLimits /\ limit.count \in Nat /\ limit.reset \in Nat
        /\ limit.count <= TotalPerHour /\ limit.count <= Len(notes) /\ limit.reset <= now
        /\ limit.last \in [TriggerIds -> Nat]
    BY <2>0 DEF Describes, RateLimits
  <2>2. Entry = [limit EXCEPT !.count = 0, !.reset = now] BY <1>2 DEF Entry
  <2>3. Entry \in RateLimits /\ Entry.count = 0 /\ Entry.reset = now /\ Entry.last = limit.last
    BY <2>1, <2>2 DEF RateLimits
  <2> HIDE DEF Entry
  <2> DEFINE q == Len(notes) - limit.count
  <2>4. q \in 0 .. Len(notes) /\ Len(notes) - q <= TotalPerHour BY <2>1
  <2>5. \A i \in 1 .. q : notes[i].at <= limit.reset BY <2>0 DEF Describes
  <2>6. \A i \in 1 .. q : notes[i].at + Hour < now BY <1>2, <2>1, <2>4, <2>5
  <2> HIDE DEF q
  <2>7. \A i \in 1 .. Len(notes) :
          \/ notes[i].at <= Entry.last[notes[i].trigger]
          \/ notes[i].at + Minute <= Entry.reset
    <3> TAKE i \in 1 .. Len(notes)
    <3>1. \/ notes[i].at <= limit.last[notes[i].trigger]
          \/ notes[i].at + Minute <= limit.reset
      BY <2>0 DEF Describes
    <3> QED BY <2>1, <2>3, <3>1
  <2>8. Len(notes) - Entry.count = Len(notes) BY <2>3
  <2>9. \A t \in TriggerIds : Entry.last[t] <= now BY <2>0, <2>3 DEF Describes
  <2> QED BY <2>3, <2>4, <2>6, <2>7, <2>8, <2>9, NotificationAssumption DEF Describes
<1>3. CASE limit # None /\ ~(now - limit.reset > Hour)
  <2>1. Entry = limit BY <1>3 DEF Entry
  <2>2. Describes(limit) /\ limit.reset \in Nat BY <1>3 DEF LimitInv, Describes, RateLimits
  <2> QED BY <1>3, <2>1, <2>2
<1> QED BY <1>1, <1>2, <1>3

(* A notification of trigger t, as the limiter and the history note it. *)
NoteAdded(t) ==
  /\ limit' = Noted(t) /\ now' = now
  /\ notes' = Append(notes, [trigger |-> t, at |-> now])

LEMMA NotesAppended ==
  ASSUME NotesOK, NEW t \in TriggerIds, NoteAdded(t)
  PROVE  /\ NotesOK' /\ Len(notes') = Len(notes) + 1 /\ now' = now
         /\ \A i \in 1 .. Len(notes) : notes'[i] = notes[i]
         /\ notes'[Len(notes) + 1].trigger = t /\ notes'[Len(notes) + 1].at = now
<1> DEFINE r == [trigger |-> t, at |-> now]
<1>1. r \in [trigger : TriggerIds, at : Nat] /\ r.trigger = t /\ r.at = now /\ notes' = Append(notes, r)
      /\ now' = now
  BY NotesTyped DEF NoteAdded
<1> HIDE DEF r
<1>2. /\ Len(notes') = Len(notes) + 1 /\ notes' \in Seq([trigger : TriggerIds, at : Nat])
      /\ \A i \in 1 .. Len(notes) : notes'[i] = notes[i]
      /\ notes'[Len(notes) + 1] = r
  BY <1>1, AppendProperties DEF NotesOK
<1>3. NotesOK'
  <2>1. \A i \in 1 .. Len(notes') : 1 <= notes'[i].at /\ notes'[i].at <= now
    BY <1>1, <1>2, NotesTyped DEF NotesOK
  <2> QED BY <1>1, <1>2, <2>1 DEF NotesOK
<1> QED BY <1>1, <1>2, <1>3

(* A notification that the limits allow: the entry it leaves describes the  *)
(* history it is part of.                                                   *)
LEMMA NotedDescribes ==
  ASSUME NotesOK, LimitInv, NEW t \in TriggerIds, Allowed(t), NoteAdded(t)
  PROVE  Describes(limit)' /\ limit' # None
<1> DEFINE e == Entry
           n == Len(notes)
<1>0. /\ Minute \in Nat /\ Hour \in Nat /\ TotalPerHour \in Nat
      /\ n \in Nat /\ now \in Nat
      /\ \A i \in 1 .. n : /\ notes[i].at \in Nat /\ notes[i].at <= now
                           /\ notes[i].trigger \in TriggerIds
  BY Periods, NotesTyped
<1>1. Describes(e) /\ now <= e.reset + Hour BY EntryDescribes
<1>2. limit' = [e EXCEPT !.count = @ + 1, !.last[t] = now] BY DEF Noted, NoteAdded
<1>3. e.count < TotalPerHour BY DEF Allowed
<1>4. /\ e \in RateLimits /\ e.count \in Nat /\ e.reset \in Nat /\ e.last \in [TriggerIds -> Nat]
      /\ e.count <= n /\ e.reset <= now
  BY <1>1 DEF Describes, RateLimits
<1>5. \E p \in 0 .. n - e.count :
        /\ n - e.count - p <= TotalPerHour
        /\ \A i \in 1 .. p : notes[i].at + Hour < e.reset
  BY <1>1 DEF Describes
<1>6. \A i \in 1 .. n :
        /\ notes[i].at <= e.reset + Hour
        /\ \/ notes[i].at <= e.last[notes[i].trigger]
           \/ notes[i].at + Minute <= e.reset
  BY <1>1 DEF Describes
<1>7. (\A u \in TriggerIds : e.last[u] <= now) /\ \A i \in 1 .. n - e.count : notes[i].at <= e.reset
  BY <1>1 DEF Describes
<1> HIDE DEF e
<1>8. /\ limit' \in RateLimits /\ limit'.count = e.count + 1 /\ limit'.reset = e.reset
      /\ limit'.last[t] = now /\ \A u \in TriggerIds \ {t} : limit'.last[u] = e.last[u]
  <2> DEFINE l == [e.last EXCEPT ![t] = now]
  <2>1. l \in [TriggerIds -> Nat] /\ l[t] = now /\ \A u \in TriggerIds \ {t} : l[u] = e.last[u]
    BY <1>0, <1>4
  <2>2. limit' = [e EXCEPT !.count = e.count + 1, !.last = l] BY <1>2, <1>4 DEF RateLimits
  <2> HIDE DEF l
  <2>3. limit' \in RateLimits /\ limit'.count = e.count + 1 /\ limit'.reset = e.reset /\ limit'.last = l
    <3>1. e.count + 1 \in Nat BY <1>4
    <3> QED BY <1>4, <2>1, <2>2, <3>1 DEF RateLimits
  <2> QED BY <2>1, <2>3
<1>9. /\ Len(notes') = n + 1 /\ now' = now /\ \A i \in 1 .. n : notes'[i] = notes[i]
      /\ notes'[n + 1].trigger = t /\ notes'[n + 1].at = now
  BY NotesAppended
<1>10. n \in Nat BY <1>0
<1> HIDE DEF n
<1>11. Len(notes') - limit'.count = n - e.count BY <1>4, <1>8, <1>9, <1>10
<1>12. \A i \in 1 .. Len(notes') :
         /\ notes'[i].at <= limit'.reset + Hour
         /\ \/ notes'[i].at <= limit'.last[notes'[i].trigger]
            \/ notes'[i].at + Minute <= limit'.reset
  <2> TAKE i \in 1 .. Len(notes')
  <2>1. CASE i = n + 1 BY <1>0, <1>1, <1>4, <1>8, <1>9, <2>1
  <2>2. CASE i \in 1 .. n
    <3>1. /\ notes'[i] = notes[i] /\ notes[i].at \in Nat /\ notes[i].at <= now
          /\ notes[i].trigger \in TriggerIds
      BY <1>0, <1>9, <2>2
    <3>2. CASE notes[i].trigger = t BY <1>0, <1>4, <1>6, <1>8, <2>2, <3>1, <3>2
    <3>3. CASE notes[i].trigger # t BY <1>0, <1>4, <1>6, <1>8, <2>2, <3>1, <3>3
    <3> QED BY <3>2, <3>3
  <2> QED BY <1>9, <1>10, <2>1, <2>2
<1>13. \A i \in 1 .. Len(notes') - limit'.count : notes'[i].at <= limit'.reset
  BY <1>4, <1>7, <1>8, <1>9, <1>10, <1>11
<1>15. \A u \in TriggerIds : limit'.last[u] <= now' BY <1>0, <1>4, <1>7, <1>8, <1>9
<1>16. /\ limit'.count <= TotalPerHour /\ limit'.count <= Len(notes') /\ limit'.reset <= now'
  BY <1>0, <1>3, <1>4, <1>8, <1>9
<1>17. \E m \in 0 .. Len(notes') - limit'.count :
         /\ Len(notes') - limit'.count - m <= TotalPerHour
         /\ \A i \in 1 .. m : notes'[i].at + Hour < limit'.reset
  <2>1. PICK p \in 0 .. n - e.count :
          /\ n - e.count - p <= TotalPerHour
          /\ \A i \in 1 .. p : notes[i].at + Hour < e.reset
    BY <1>5
  <2>2. \A i \in 1 .. p : i \in 1 .. n BY <1>4, <1>10
  <2>3. \A i \in 1 .. p : notes'[i].at + Hour < limit'.reset BY <1>8, <1>9, <2>1, <2>2
  <2> QED BY <1>11, <2>1, <2>3
<1> QED BY <1>8, <1>12, <1>13, <1>15, <1>16, <1>17, NotificationAssumption DEF Describes

(* Such a notification is a minute after the last of its trigger. *)
LEMMA NotedSpacing ==
  ASSUME NotesOK, LimitInv, TriggerSpacing, NEW t \in TriggerIds, Allowed(t), NoteAdded(t)
  PROVE  TriggerSpacing'
<1> USE Periods, NotesTyped
<1> DEFINE e == Entry
           n == Len(notes)
<1>1. /\ Describes(e) /\ e.reset \in Nat /\ e.last \in [TriggerIds -> Nat] /\ e.reset <= now
  BY EntryDescribes DEF Describes, RateLimits
<1>2. e.last[t] = 0 \/ now - e.last[t] >= Minute BY DEF Allowed
<1>3. \A i \in 1 .. n : \/ notes[i].at <= e.last[notes[i].trigger]
                        \/ notes[i].at + Minute <= e.reset
  BY <1>1 DEF Describes
<1> HIDE DEF e
<1>4. /\ DOMAIN notes' = 1 .. n + 1 /\ \A i \in 1 .. n : notes'[i] = notes[i]
      /\ notes'[n + 1].trigger = t /\ notes'[n + 1].at = now
  <2>1. NotesOK' /\ Len(notes') = n + 1 BY NotesAppended
  <2>2. DOMAIN notes' = 1 .. Len(notes') BY <2>1 DEF NotesOK
  <2> QED BY <2>1, <2>2, NotesAppended
<1>5. ASSUME NEW i \in 1 .. n, notes[i].trigger = t PROVE now - notes[i].at >= Minute
  <2>1. notes[i].at \in Nat /\ 1 <= notes[i].at /\ e.last[t] \in Nat BY <1>1
  <2>2. notes[i].at <= e.last[t] \/ notes[i].at + Minute <= e.reset BY <1>3, <1>5
  <2> QED BY <1>1, <1>2, <2>1, <2>2
<1>6. n \in Nat /\ DOMAIN notes = 1 .. n OBVIOUS
<1> HIDE DEF n
<1> SUFFICES ASSUME NEW i \in DOMAIN notes', NEW j \in DOMAIN notes',
                    i < j, notes'[i].trigger = notes'[j].trigger
             PROVE  notes'[j].at - notes'[i].at >= Minute
  BY DEF TriggerSpacing
<1>7. i \in 1 .. n BY <1>4, <1>6
<1>8. CASE j = n + 1 BY <1>4, <1>5, <1>7, <1>8
<1>9. CASE j \in 1 .. n BY <1>4, <1>6, <1>7, <1>9 DEF TriggerSpacing
<1> QED BY <1>4, <1>6, <1>8, <1>9

(* And its hour has no more than twice the ceiling: all but two hours'      *)
(* worth ended an hour before now.                                          *)
LEMMA NotedHour ==
  ASSUME NotesOK, LimitInv, HourlyBound, NEW t \in TriggerIds, Allowed(t), NoteAdded(t)
  PROVE  HourlyBound'
<1> USE Periods, NotesTyped
<1> DEFINE e == Entry
           n == Len(notes)
           S(i) == {j \in DOMAIN notes' :
                      notes'[j].at \in notes'[i].at .. notes'[i].at + Hour - 1}
<1>1. Describes(e) /\ e.reset \in Nat /\ e.count \in Nat /\ e.reset <= now /\ e.count <= n
  BY EntryDescribes DEF Describes, RateLimits
<1>2. e.count < TotalPerHour BY DEF Allowed
<1>3. PICK p \in 0 .. n - e.count :
        /\ n - e.count - p <= TotalPerHour
        /\ \A i \in 1 .. p : notes[i].at + Hour < e.reset
  BY <1>1 DEF Describes
<1> HIDE DEF e
<1>4. /\ DOMAIN notes' = 1 .. n + 1 /\ \A i \in 1 .. n : notes'[i] = notes[i]
      /\ notes'[n + 1].at = now
  <2>1. NotesOK' /\ Len(notes') = n + 1 BY NotesAppended
  <2>2. DOMAIN notes' = 1 .. Len(notes') BY <2>1 DEF NotesOK
  <2> QED BY <2>1, <2>2, NotesAppended
<1>5. n \in Nat /\ DOMAIN notes = 1 .. n OBVIOUS
<1>6. \A i \in 1 .. n + 1 : notes'[i].at \in Nat /\ notes'[i].at <= now BY <1>4, <1>5
<1>7. p \in Nat /\ p <= n /\ n + 1 - p <= 2 * TotalPerHour BY <1>1, <1>2, <1>3, <1>5
<1>8. \A i \in 1 .. p : notes'[i].at + Hour < now BY <1>1, <1>3, <1>4, <1>5, <1>7
<1> HIDE DEF n
<1> SUFFICES ASSUME NEW i \in DOMAIN notes' PROVE Cardinality(S(i)) <= 2 * TotalPerHour
  BY DEF HourlyBound
<1>9. CASE now <= notes'[i].at + Hour - 1
  <2>1. S(i) \in SUBSET ((p + 1) .. (n + 1))
    <3> SUFFICES ASSUME NEW j \in S(i) PROVE j \in (p + 1) .. (n + 1) OBVIOUS
    <3>1. j \in 1 .. n + 1 /\ notes'[j].at >= notes'[i].at /\ notes'[j].at \in Nat
      BY <1>4, <1>5, <1>6
    <3>2. j \notin 1 .. p BY <1>4, <1>5, <1>6, <1>8, <1>9, <3>1
    <3> QED BY <1>5, <1>7, <3>1, <3>2
  <2> HIDE DEF S
  <2>2. /\ IsFiniteSet((p + 1) .. (n + 1))
        /\ Cardinality((p + 1) .. (n + 1)) = n + 1 - p
    <3>1. p + 1 \in Int /\ n + 1 \in Int /\ ~(p + 1 > n + 1) BY <1>5, <1>7
    <3>2. (n + 1) - (p + 1) + 1 = n + 1 - p BY <1>5, <1>7
    <3> QED BY <3>1, <3>2, FS_Interval
  <2>3. IsFiniteSet(S(i)) /\ Cardinality(S(i)) <= Cardinality((p + 1) .. (n + 1))
    BY <2>1, <2>2, FS_Subset
  <2>4. Cardinality(S(i)) \in Nat BY <2>3, FS_CardinalityType
  <2> QED BY <1>5, <1>7, <2>2, <2>3, <2>4
<1>10. CASE ~(now <= notes'[i].at + Hour - 1)
  <2>1. i # n + 1 \/ Hour = 0 BY <1>4, <1>5, <1>10
  <2>2. CASE i \in 1 .. n
    <3>1. S(i) = {j \in DOMAIN notes : notes[j].at \in notes[i].at .. notes[i].at + Hour - 1}
      BY <1>4, <1>5, <1>6, <1>10, <2>2
    <3> QED BY <1>5, <2>2, <3>1 DEF HourlyBound
  <2>3. CASE i = n + 1
    <3>1. Hour = 0 BY <2>1, <2>3
    <3>2. S(i) = {} BY <1>4, <1>5, <1>6, <2>3, <3>1
    <3>3. Cardinality(S(i)) = 0 BY <3>2, FS_EmptySet
    <3> QED BY <3>3
  <2>4. i \in 1 .. n \/ i = n + 1 BY <1>4, <1>5
  <2> QED BY <2>2, <2>3, <2>4
<1> QED BY <1>9, <1>10

(* NoteInv is inductive. *)
LEMMA NoteStep == ASSUME NoteInv, [NNext]_nVars PROVE NoteInv'
<1> USE DEF NoteInv
<1>1. CASE UNCHANGED noteVars
  BY <1>1 DEF noteVars, NotesOK, LimitInv, Forgotten, Describes, TriggerSpacing, HourlyBound
<1>2. ASSUME NEW m \in SUBSET TriggerIds, NotifiedOutput(m) PROVE NoteInv'
  <2>1. PICK t \in FirstAllowed(m) :
          limit' = Noted(t) /\ notes' = Append(notes, [trigger |-> t, at |-> now])
    BY <1>2 DEF NotifiedOutput
  <2>2. t \in TriggerIds /\ Allowed(t) BY DEF FirstAllowed
  <2>3. NoteAdded(t) BY <1>2, <2>1 DEF NoteAdded, NotifiedOutput
  <2>4. NotesOK' BY <2>2, <2>3, NotesAppended
  <2>5. LimitInv' BY <2>2, <2>3, NotedDescribes DEF LimitInv
  <2>6. TriggerSpacing' /\ HourlyBound' BY <2>2, <2>3, NotedSpacing, NotedHour
  <2> QED BY <2>4, <2>5, <2>6
<1>3. ASSUME NEW m \in SUBSET TriggerIds, HeldBackOutput(m) PROVE NoteInv'
  <2>1. limit' = Entry /\ UNCHANGED <<now, notes>> BY <1>3 DEF HeldBackOutput
  <2>2. Describes(Entry) /\ Entry # None BY EntryDescribes
  <2>3. LimitInv'
    <3> DEFINE e == Entry
    <3>1. Describes(e) /\ e # None /\ limit' = e BY <2>1, <2>2
    <3> HIDE DEF e
    <3> QED BY <2>1, <3>1 DEF LimitInv, Describes
  <2> QED BY <2>1, <2>3 DEF NotesOK, TriggerSpacing, HourlyBound
<1>4. CASE CleanupOldEntries
  <2> USE Periods, NotesTyped
  <2>1. /\ limit # None /\ now - limit.reset > MaxAge /\ limit' = None
        /\ UNCHANGED <<now, notes>>
    BY <1>4 DEF CleanupOldEntries
  <2>2. Describes(limit) BY <2>1 DEF LimitInv
  <2>3. /\ limit.reset \in Nat /\ limit.count \in Nat /\ limit.count <= Len(notes)
        /\ limit.count <= TotalPerHour
    BY <2>2 DEF Describes, RateLimits
  <2> DEFINE q == Len(notes) - limit.count
  <2>4. q \in 0 .. Len(notes) /\ Len(notes) - q <= TotalPerHour BY <2>3
  <2>5. \A i \in 1 .. q : notes[i].at <= limit.reset BY <2>2 DEF Describes
  <2> HIDE DEF q
  <2>6. \A i \in 1 .. q : notes[i].at + Hour < now
    <3> TAKE i \in 1 .. q
    <3>1. i \in 1 .. Len(notes) BY <2>4
    <3> QED BY <2>1, <2>3, <2>5, <3>1
  <2>7. \A i \in 1 .. Len(notes) : notes[i].at + Minute <= now
    <3> TAKE i \in 1 .. Len(notes)
    <3>1. notes[i].at <= limit.reset + Hour BY <2>2 DEF Describes
    <3> QED BY <2>1, <2>3, <3>1
  <2>8. Forgotten BY <2>4, <2>6, <2>7 DEF Forgotten
  <2>9. LimitInv' BY <2>1, <2>8 DEF LimitInv, Forgotten
  <2> QED BY <2>1, <2>9 DEF NotesOK, TriggerSpacing, HourlyBound
<1>5. CASE Tick
  <2>1. now' = now + 1 /\ UNCHANGED <<limit, notes>> BY <1>5 DEF Tick
  <2>2. now \in Nat /\ Len(notes) \in Nat BY NotesTyped
  <2>3. NotesOK'
    <3>1. now' \in Nat /\ now' >= 1 BY <2>1, <2>2
    <3>2. \A i \in 1 .. Len(notes) : 1 <= notes[i].at /\ notes[i].at <= now'
      BY <2>1, <2>2, NotesTyped
    <3> QED BY <2>1, <3>1, <3>2 DEF NotesOK
  <2>4. LimitInv'
    <3>1. CASE limit = None
      <4>1. Forgotten BY <3>1 DEF LimitInv
      <4>2. PICK p \in 0 .. Len(notes) :
              /\ Len(notes) - p <= TotalPerHour
              /\ \A i \in 1 .. p : notes[i].at + Hour < now
        BY <4>1 DEF Forgotten
      <4>3. \A i \in 1 .. p : notes[i].at + Hour < now'
        <5> TAKE i \in 1 .. p
        <5>1. i \in 1 .. Len(notes) BY <2>2
        <5>2. notes[i].at \in Nat BY <5>1, NotesTyped
        <5>3. notes[i].at + Hour < now BY <4>2
        <5> QED BY <2>1, <2>2, <5>2, <5>3, Periods
      <4>4. \A i \in 1 .. Len(notes) : notes[i].at + Minute <= now'
        BY <2>1, <2>2, <4>1, NotesTyped, Periods DEF Forgotten
      <4>5. \A i \in 1 .. Len(notes') : notes'[i].at + Minute <= now' BY <2>1, <4>4
      <4>6. \E m \in 0 .. Len(notes') :
              /\ Len(notes') - m <= TotalPerHour
              /\ \A i \in 1 .. m : notes'[i].at + Hour < now'
        BY <2>1, <4>2, <4>3
      <4> QED BY <2>1, <3>1, <4>5, <4>6 DEF LimitInv, Forgotten
    <3>2. CASE limit # None
      <4>1. Describes(limit) BY <3>2 DEF LimitInv
      <4>2. limit.reset \in Nat /\ \A t \in TriggerIds : limit.last[t] \in Nat
        BY <4>1 DEF Describes, RateLimits
      <4>3. limit.reset <= now' /\ \A t \in TriggerIds : limit.last[t] <= now'
        BY <2>1, <2>2, <4>1, <4>2 DEF Describes
      <4> QED BY <2>1, <3>2, <4>1, <4>3 DEF LimitInv, Describes
    <3> QED BY <3>1, <3>2
  <2> QED BY <2>1, <2>3, <2>4 DEF TriggerSpacing, HourlyBound
<1>6. CASE Requests
  BY <1>1, <1>6 DEF Requests, Answered, RequestError, RequestTimeout, Settle
<1>7. ASSUME NEW k \in 1 .. MaxConns,
             \/ ConnectionDies(k) \/ ConnectionEvent(k)
             \/ \E kept \in SUBSET waiting : GoAway(k, kept)
      PROVE  NoteInv'
  BY <1>1, <1>7 DEF ConnectionDies, ConnectionEvent, GoAway
<1>8. CASE UNCHANGED nVars BY <1>1, <1>8 DEF nVars
<1> HIDE DEF NoteInv
<1> QED BY <1>2, <1>3, <1>4, <1>5, <1>6, <1>7, <1>8 DEF NNext

(* checkRateLimit and cleanupOldEntries: a trigger notifies at most once a  *)
(* minute and any hour sees at most twice totalPerHour, through every       *)
(* restart of the hour and removal of the entry.                            *)
THEOREM LimitsTheorem == NSpec => []TriggerLimits
<1>1. NInit => NoteInv
  <2> SUFFICES ASSUME NInit PROVE NoteInv OBVIOUS
  <2>1. NotesOK /\ Len(notes) = 0 /\ DOMAIN notes = {} BY DEF NInit, NotesOK
  <2>2. Forgotten BY <2>1, Periods DEF Forgotten
  <2> QED BY <2>1, <2>2 DEF NInit, NoteInv, LimitInv, TriggerSpacing, HourlyBound
<1>2. NoteInv /\ [NNext]_nVars => NoteInv' BY NoteStep
<1>3. NoteInv => TriggerLimits BY DEF NoteInv, TriggerLimits
<1> QED BY <1>1, <1>2, <1>3, PTL DEF NSpec
=============================================================================
