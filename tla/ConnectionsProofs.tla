-------------------------- MODULE ConnectionsProofs --------------------------
(***************************************************************************)
(* The heartbeat of wsproxy.ts, for every number of connections and every  *)
(* interval, timeout and round trip with Interval + PongDelay <= Timeout:  *)
(* a half-open peer is found out in time and one that answers is kept.     *)
(* Then the limits on frames and on wrong secrets, for every limit and     *)
(* window: RateInv and FailureInv below compare the entries of the         *)
(* limiters with the frames and failures of the past.                      *)
(*                                                                         *)
(* The heartbeat's properties are not inductive.  What a sweep leaves      *)
(* behind is at most a timeout old at that sweep (LastSweep); and an open  *)
(* peer either has no ping to answer, and was heard of since the last      *)
(* sweep, or was heard of at most an interval before a ping that is not    *)
(* overdue (Answering).                                                    *)
(***************************************************************************)
EXTENDS Connections, FiniteSetTheorems, TLAPS

(* When the heartbeat timer last fired. *)
LastSweep ==
  IF swept \/ clock % Interval # 0 THEN clock - (clock % Interval) ELSE clock - Interval

BeatOK ==
  /\ clock \in Nat /\ swept \in BOOLEAN /\ beating \in BOOLEAN
  /\ state \in [Conns -> {"new", "open", "gone", "dead", "closed"}]
  /\ seen \in [Conns -> Nat \union {None}]
  /\ pings \in [Conns -> SUBSET Nat]
  /\ swept => clock % Interval = 0

(* A peer that the monitor watches can close and was seen in the past; with *)
(* a heartbeat, every peer that can close is watched.                       *)
Watched ==
  \A c \in Conns :
    /\ seen[c] # None => state[c] \in {"open", "gone"} /\ seen[c] <= clock
    /\ beating /\ state[c] \in {"open", "gone"} =>
         seen[c] # None /\ LastSweep <= seen[c] + Timeout
    /\ state[c] = "new" => pings[c] = {}
    /\ \A t \in pings[c] : t <= clock

Answering ==
  \A c \in Conns : beating /\ state[c] = "open" =>
    /\ pings[c] = {} => LastSweep <= seen[c]
    /\ pings[c] # {} => \E t \in pings[c] : t <= seen[c] + Interval
    /\ \A t \in pings[c] : clock <= t + PongDelay

BeatInv == BeatOK /\ Watched /\ Answering

-----------------------------------------------------------------------------
(* Ticks and intervals.                                                    *)

LEMMA Settings ==
  /\ Interval \in Nat /\ Timeout \in Nat /\ PongDelay \in Nat /\ None \notin Nat
  /\ Interval > 0 /\ Interval + PongDelay <= Timeout
BY ConnectionsAssumption

LEMMA ModType ==
  ASSUME NEW x \in Nat
  PROVE  x % Interval \in Nat /\ x % Interval < Interval /\ 0 % Interval = 0
BY Settings

LEMMA Multiple ==
  ASSUME NEW n \in Nat, NEW d \in Nat, d > 0
  PROVE  n * d >= n /\ n * d \in Nat
OBVIOUS

(* A remainder is unique. *)
LEMMA RemainderUnique ==
  ASSUME NEW n \in Nat, NEW q \in Int, NEW r \in Nat, NEW p \in Int, NEW s \in Nat,
         r < n, s < n, n * q + r = n * p + s
  PROVE  r = s
<1>1. CASE q = p BY <1>1
<1>2. CASE q > p
  <2>1. q - p \in Nat /\ q - p > 0 BY <1>2
  <2>2. n * (q - p) >= n BY <2>1, Multiple
  <2>3. n * (q - p) = n * q - n * p OBVIOUS
  <2>4. n * q \in Int /\ n * p \in Int OBVIOUS
  <2> QED BY <2>2, <2>3, <2>4
<1>3. CASE q < p
  <2>1. p - q \in Nat /\ p - q > 0 BY <1>3
  <2>2. n * (p - q) >= n BY <2>1, Multiple
  <2>3. n * (p - q) = n * p - n * q OBVIOUS
  <2>4. n * q \in Int /\ n * p \in Int OBVIOUS
  <2> QED BY <2>2, <2>3, <2>4
<1> QED BY <1>1, <1>2, <1>3

(* A tick goes on in the interval or starts the next. *)
LEMMA ModTick ==
  ASSUME NEW x \in Nat
  PROVE  (x + 1) % Interval = IF (x % Interval) + 1 = Interval THEN 0 ELSE (x % Interval) + 1
<1> DEFINE r == x % Interval
           q == x \div Interval
           s == (x + 1) % Interval
           p == (x + 1) \div Interval
<1>1. /\ r \in Nat /\ r < Interval /\ q \in Int /\ x = Interval * q + r
      /\ s \in Nat /\ s < Interval /\ p \in Int /\ x + 1 = Interval * p + s
  BY Settings
<1> HIDE DEF r, q, s, p
<1>2. CASE r + 1 = Interval
  <2>1. Interval * (q + 1) = Interval * q + Interval BY <1>1, Settings
  <2>2. Interval * (q + 1) + 0 = Interval * p + s BY <1>1, <1>2, <2>1, Settings
  <2>3. s = 0 BY <1>1, <2>2, Settings, RemainderUnique
  <2> QED BY <1>2, <2>3 DEF r, s
<1>3. CASE r + 1 # Interval
  <2>1. r + 1 \in Nat /\ r + 1 < Interval BY <1>1, <1>3, Settings
  <2>2. Interval * q + (r + 1) = Interval * p + s BY <1>1, Settings
  <2>3. s = r + 1 BY <1>1, <2>1, <2>2, Settings, RemainderUnique
  <2> QED BY <1>3, <2>3 DEF r, s
<1> QED BY <1>2, <1>3

(* When the last sweep was. *)
LEMMA LastSweepType ==
  ASSUME BeatOK
  PROVE  /\ LastSweep \in Int /\ LastSweep <= clock /\ clock <= LastSweep + Interval
<1>1. clock \in Nat /\ clock % Interval \in Nat /\ clock % Interval < Interval
  BY ModType DEF BeatOK
<1> DEFINE r == clock % Interval
<1>2. r \in Nat /\ r < Interval /\ LastSweep \in {clock - r, clock - Interval}
  BY <1>1 DEF LastSweep
<1> HIDE DEF r
<1>3. CASE LastSweep = clock - r BY <1>1, <1>2, <1>3, Settings
<1>4. CASE LastSweep = clock - Interval BY <1>1, <1>4, Settings
<1> QED BY <1>2, <1>3, <1>4

-----------------------------------------------------------------------------
(* BeatInv is inductive.                                                   *)

LEMMA BeatInit == ConnectionsInit => BeatInv
<1> SUFFICES ASSUME ConnectionsInit PROVE BeatInv OBVIOUS
<1>1. BeatOK BY ModType DEF ConnectionsInit, BeatOK
<1>2. Watched BY Settings DEF ConnectionsInit, Watched
<1>3. Answering BY DEF ConnectionsInit, Answering
<1> QED BY <1>1, <1>2, <1>3 DEF BeatInv

(* A sign of life of c, which may take one of its pings off the list. *)
LEMMA SignOfLife ==
  ASSUME BeatInv, NEW c \in Conns, state[c] \in {"open", "dead"},
         seen' = MarkAlive(c), UNCHANGED <<beating, clock, state, swept>>,
         \/ UNCHANGED pings
         \/ \E t : pings' = [pings EXCEPT ![c] = @ \ {t}]
  PROVE  BeatInv'
<1> USE DEF BeatInv
<1>1. clock \in Nat /\ LastSweep \in Int /\ LastSweep <= clock BY LastSweepType DEF BeatOK
<1>2. LastSweep' = LastSweep BY DEF LastSweep
<1>3. /\ seen' \in [Conns -> Nat \union {None}]
      /\ \A d \in Conns : d # c => seen'[d] = seen[d]
      /\ seen[c] = None => seen'[c] = None
      /\ seen[c] # None => seen'[c] = clock
  BY <1>1 DEF MarkAlive, BeatOK
<1>4. /\ pings' \in [Conns -> SUBSET Nat] /\ \A d \in Conns : pings'[d] \subseteq pings[d]
      /\ \A d \in Conns : d # c => pings'[d] = pings[d]
  BY DEF BeatOK
<1>5. BeatOK' BY <1>3, <1>4 DEF BeatOK
<1>6. Watched'
  <2> SUFFICES ASSUME NEW d \in Conns
               PROVE  /\ seen'[d] # None => state'[d] \in {"open", "gone"} /\ seen'[d] <= clock'
                      /\ beating' /\ state'[d] \in {"open", "gone"} =>
                           seen'[d] # None /\ LastSweep' <= seen'[d] + Timeout
                      /\ state'[d] = "new" => pings'[d] = {}
                      /\ \A t \in pings'[d] : t <= clock'
    BY DEF Watched
  <2>1. CASE d # c BY <1>2, <1>3, <1>4, <2>1 DEF Watched
  <2>2. CASE d = c
    <3>1. seen'[c] # None => seen[c] # None /\ seen'[c] = clock BY <1>3
    <3>2. LastSweep <= clock + Timeout BY <1>1, Settings
    <3>3. clock # None BY <1>1, Settings
    <3> QED BY <1>1, <1>2, <1>3, <1>4, <2>2, <3>1, <3>2, <3>3 DEF Watched
  <2> QED BY <2>1, <2>2
<1>7. Answering'
  <2> SUFFICES ASSUME NEW d \in Conns, beating', state'[d] = "open"
               PROVE  /\ pings'[d] = {} => LastSweep' <= seen'[d]
                      /\ pings'[d] # {} => \E t \in pings'[d] : t <= seen'[d] + Interval
                      /\ \A t \in pings'[d] : clock' <= t + PongDelay
    BY DEF Answering
  <2>1. CASE d # c BY <1>2, <1>3, <1>4, <2>1 DEF Answering
  <2>2. CASE d = c
    <3>1. seen'[c] = clock BY <1>3, <2>2 DEF Watched
    <3>2. \A t \in pings'[c] : t \in Nat /\ t <= clock BY <1>4 DEF Watched
    <3>3. \A t \in pings'[c] : t <= clock + Interval BY <1>1, <3>2, Settings
    <3>4. \A t \in pings'[c] : clock <= t + PongDelay BY <1>4, <2>2 DEF Answering
    <3> QED BY <1>1, <1>2, <2>2, <3>1, <3>3, <3>4
  <2> QED BY <2>1, <2>2
<1> QED BY <1>5, <1>6, <1>7

(* A socket opens. *)
LEMMA OpenKeeps ==
  ASSUME BeatInv, NEW c \in Conns, state[c] = "new",
         state' = [state EXCEPT ![c] = "open"],
         seen' = IF beating THEN [seen EXCEPT ![c] = clock] ELSE seen,
         UNCHANGED <<beating, clock, pings, swept>>
  PROVE  BeatInv'
<1> USE DEF BeatInv
<1>1. clock \in Nat /\ LastSweep \in Int /\ LastSweep <= clock BY LastSweepType DEF BeatOK
<1>2. LastSweep' = LastSweep BY DEF LastSweep
<1>3. BeatOK' BY <1>1 DEF BeatOK
<1>4. /\ \A d \in Conns : d # c => seen'[d] = seen[d] /\ state'[d] = state[d]
      /\ state'[c] = "open" /\ beating => seen'[c] = clock
      /\ state'[c] = "open"
      /\ ~beating => seen'[c] = None
      /\ pings[c] = {}
  BY DEF BeatOK, Watched
<1>5. LastSweep <= clock + Timeout /\ clock # None BY <1>1, Settings
<1>6. Watched' BY <1>1, <1>2, <1>4, <1>5 DEF Watched, BeatOK
<1>7. Answering' BY <1>1, <1>2, <1>4 DEF Answering, BeatOK
<1> QED BY <1>3, <1>6, <1>7

(* A peer vanishes, or its close event comes. *)
LEMMA VanishKeeps ==
  ASSUME BeatInv, NEW c \in Conns, Vanish(c)
  PROVE  BeatInv'
<1> USE DEF BeatInv, Vanish, settings
<1>1. LastSweep' = LastSweep BY DEF LastSweep
<1>2. BeatOK' BY DEF BeatOK
<1>3. Watched' BY <1>1 DEF Watched, BeatOK
<1>4. Answering' BY <1>1 DEF Answering, BeatOK
<1> QED BY <1>2, <1>3, <1>4

LEMMA CloseKeeps ==
  ASSUME BeatInv, NEW c \in Conns, Close(c)
  PROVE  BeatInv'
<1> USE DEF BeatInv, Close, settings
<1>1. LastSweep' = LastSweep BY DEF LastSweep
<1>2. BeatOK' BY DEF BeatOK
<1>3. Watched' BY <1>1 DEF Watched, BeatOK
<1>4. Answering' BY <1>1 DEF Answering, BeatOK
<1> QED BY <1>2, <1>3, <1>4

(* The timer fires: only the half-open have been silent too long. *)
LEMMA SilentIsGone ==
  ASSUME BeatInv, beating, NEW c \in Conns, state[c] = "open"
  PROVE  ~Expired(c)
<1> USE DEF BeatInv
<1>1. clock \in Nat /\ LastSweep \in Int /\ clock <= LastSweep + Interval
  BY LastSweepType DEF BeatOK
<1>2. seen[c] \in Nat BY DEF BeatOK, Watched
<1>3. CASE pings[c] = {}
  <2>1. LastSweep <= seen[c] BY <1>3 DEF Answering
  <2> QED BY <1>1, <1>2, <2>1, Settings DEF Expired
<1>4. CASE pings[c] # {}
  <2>1. PICK t \in pings[c] : t <= seen[c] + Interval BY <1>4 DEF Answering
  <2>2. t \in Nat /\ clock <= t + PongDelay BY DEF Answering, BeatOK
  <2> QED BY <1>1, <1>2, <2>1, <2>2, Settings DEF Expired
<1> QED BY <1>3, <1>4

LEMMA HeartbeatKeeps ==
  ASSUME BeatInv, Heartbeat
  PROVE  BeatInv'
<1> USE DEF BeatInv
<1>1. /\ beating /\ ~swept /\ clock % Interval = 0 /\ swept' = TRUE
      /\ UNCHANGED <<beating, clock>>
      /\ state' = [c \in Conns |-> IF Expired(c) THEN "dead" ELSE state[c]]
      /\ seen' = [c \in Conns |-> IF Expired(c) THEN None ELSE seen[c]]
      /\ pings' = [c \in Conns |-> IF state[c] \in {"open", "gone"} THEN pings[c] \union {clock}
                                   ELSE pings[c]]
  BY DEF Heartbeat, settings
<1>2. clock \in Nat BY DEF BeatOK
<1>3. LastSweep = clock - Interval /\ LastSweep' = clock
  <2>1. LastSweep = clock - Interval BY <1>1 DEF LastSweep
  <2>2. LastSweep' = clock - 0 BY <1>1 DEF LastSweep
  <2> QED BY <1>2, <2>1, <2>2
<1>4. BeatOK'
  <2>1. pings' \in [Conns -> SUBSET Nat] BY <1>1, <1>2 DEF BeatOK
  <2>2. /\ state' \in [Conns -> {"new", "open", "gone", "dead", "closed"}]
        /\ seen' \in [Conns -> Nat \union {None}]
    BY <1>1 DEF BeatOK
  <2> QED BY <1>1, <1>2, <2>1, <2>2 DEF BeatOK
<1>5. \A c \in Conns : seen[c] # None /\ ~Expired(c) => clock <= seen[c] + Timeout
  BY <1>2, Settings DEF Expired, BeatOK
<1>6. Watched'
  <2> SUFFICES ASSUME NEW c \in Conns
               PROVE  /\ seen'[c] # None => state'[c] \in {"open", "gone"} /\ seen'[c] <= clock'
                      /\ beating' /\ state'[c] \in {"open", "gone"} =>
                           seen'[c] # None /\ LastSweep' <= seen'[c] + Timeout
                      /\ state'[c] = "new" => pings'[c] = {}
                      /\ \A t \in pings'[c] : t <= clock'
    BY DEF Watched
  <2>1. \A t \in pings'[c] : t <= clock' BY <1>1, <1>2 DEF Watched
  <2>2. CASE Expired(c) BY <1>1, <2>1, <2>2
  <2>3. CASE ~Expired(c)
    <3>1. seen'[c] = seen[c] /\ state'[c] = state[c] BY <1>1, <2>3
    <3>2. state[c] = "new" => pings'[c] = {} BY <1>1 DEF Watched
    <3> QED BY <1>1, <1>3, <1>5, <2>1, <2>3, <3>1, <3>2 DEF Watched
  <2> QED BY <2>2, <2>3
<1>7. Answering'
  <2> SUFFICES ASSUME NEW c \in Conns, state'[c] = "open"
               PROVE  /\ pings'[c] = {} => LastSweep' <= seen'[c]
                      /\ pings'[c] # {} => \E t \in pings'[c] : t <= seen'[c] + Interval
                      /\ \A t \in pings'[c] : clock' <= t + PongDelay
    BY DEF Answering
  <2>1. ~Expired(c) /\ state[c] = "open" /\ seen'[c] = seen[c] /\ pings'[c] = pings[c] \union {clock}
    BY <1>1
  <2>2. seen[c] \in Nat BY <1>1, <2>1 DEF Watched, BeatOK
  <2>3. \E t \in pings'[c] : t <= seen[c] + Interval
    <3>1. CASE pings[c] = {}
      <4>1. clock <= seen[c] + Interval BY <1>1, <1>2, <1>3, <2>1, <2>2, <3>1, Settings DEF Answering
      <4> QED BY <2>1, <4>1
    <3>2. CASE pings[c] # {} BY <1>1, <2>1, <3>2 DEF Answering
    <3> QED BY <3>1, <3>2
  <2>4. \A t \in pings'[c] : clock <= t + PongDelay
    BY <1>1, <1>2, <2>1, Settings DEF Answering
  <2> QED BY <1>1, <2>1, <2>3, <2>4
<1> QED BY <1>4, <1>6, <1>7

(* Time passes; a sweep that is due has happened. *)
LEMMA TickBeat ==
  ASSUME BeatInv, Tick
  PROVE  BeatInv'
<1> USE DEF BeatInv
<1>1. /\ swept \/ ~beating \/ clock % Interval # 0
      /\ clock' = clock + 1 /\ swept' = FALSE /\ UNCHANGED <<beating, state, seen, pings>>
      /\ \A c \in Conns : state[c] = "open" => \A t \in pings[c] : clock < t + PongDelay
  BY DEF Tick, settings
<1>2. clock \in Nat /\ clock % Interval \in Nat /\ clock % Interval < Interval
  BY ModType DEF BeatOK
<1>3. BeatOK'
  <2>1. clock' \in Nat BY <1>1, <1>2
  <2> QED BY <1>1, <2>1 DEF BeatOK
<1>4. beating => LastSweep' = LastSweep
  <2> SUFFICES ASSUME beating PROVE LastSweep' = LastSweep OBVIOUS
  <2>1. LastSweep = clock - (clock % Interval) BY <1>1 DEF LastSweep
  <2>2. CASE (clock % Interval) + 1 = Interval
    <3>1. clock' % Interval = 0 BY <1>1, <1>2, <2>2, ModTick
    <3>2. LastSweep' = clock' - Interval BY <1>1, <3>1 DEF LastSweep
    <3>3. ASSUME NEW r \in Nat, r + 1 = Interval PROVE clock - r = clock + 1 - Interval
      BY <1>2, <3>3, Settings
    <3> QED BY <1>1, <1>2, <2>1, <2>2, <3>2, <3>3
  <2>3. CASE (clock % Interval) + 1 # Interval
    <3>1. clock' % Interval = (clock % Interval) + 1 BY <1>1, <1>2, <2>3, ModTick
    <3>2. LastSweep' = clock' - (clock' % Interval) BY <1>1, <1>2, <3>1 DEF LastSweep
    <3> QED BY <1>1, <1>2, <2>1, <3>1, <3>2
  <2> QED BY <2>2, <2>3
<1>5. Watched' BY <1>1, <1>2, <1>4 DEF Watched, BeatOK
<1>6. Answering' BY <1>1, <1>2, <1>4, Settings DEF Answering, BeatOK
<1> QED BY <1>3, <1>5, <1>6

LEMMA BeatStep == ASSUME BeatInv, [ConnectionsNext]_cvars PROVE BeatInv'
<1>1. ASSUME UNCHANGED <<beating, clock, beat>> PROVE BeatInv'
  BY <1>1 DEF beat, BeatInv, BeatOK, Watched, Answering, LastSweep
<1>2. ASSUME NEW c \in Conns, NEW right \in BOOLEAN, Upgrade(c, right) PROVE BeatInv'
  <2>1. CASE right BY <1>2, <2>1, OpenKeeps DEF Upgrade, settings
  <2>2. CASE ~right BY <1>1, <1>2, <2>2 DEF Upgrade, settings, beat
  <2> QED BY <2>1, <2>2
<1>3. ASSUME NEW c \in Conns, Message(c) PROVE BeatInv'
  BY <1>3, SignOfLife DEF Message, settings
<1>4. ASSUME NEW c \in Conns, Pong(c) PROVE BeatInv'
  <2>1. /\ state[c] \in {"open", "dead"} /\ seen' = MarkAlive(c)
        /\ UNCHANGED <<beating, clock, state, swept>>
        /\ pings' = [pings EXCEPT ![c] = @ \ {Min(@)}]
    BY <1>4 DEF Pong, settings
  <2>2. \E t : pings' = [pings EXCEPT ![c] = @ \ {t}]
    <3>1. pings' = [pings EXCEPT ![c] = pings[c] \ {Min(pings[c])}] BY <2>1
    <3> QED BY <3>1
  <2> QED BY <2>1, <2>2, SignOfLife
<1>5. ASSUME NEW c \in Conns, Vanish(c) PROVE BeatInv' BY <1>5, VanishKeeps
<1>6. ASSUME NEW c \in Conns, Close(c) PROVE BeatInv' BY <1>6, CloseKeeps
<1>7. CASE Heartbeat BY <1>7, HeartbeatKeeps
<1>8. CASE Tick BY <1>8, TickBeat
<1>9. CASE UNCHANGED cvars BY <1>1, <1>9 DEF cvars, settings
<1> QED BY <1>2, <1>3, <1>4, <1>5, <1>6, <1>7, <1>8, <1>9 DEF ConnectionsNext

(* The invariant holds of every run. *)
THEOREM BeatInvariant == ConnectionsSpec => []BeatInv
<1>1. BeatInv /\ [ConnectionsNext]_cvars => BeatInv' BY BeatStep
<1> QED BY <1>1, BeatInit, PTL DEF ConnectionsSpec

(* HeartbeatMonitor: a half-open peer is watched until it is terminated, no *)
(* later than a timeout and an interval after its last sign of life, and    *)
(* no entry outlives its socket.                                            *)
THEOREM ReclaimTheorem == ConnectionsSpec => []PeersReclaimed
<1>1. BeatInv => PeersReclaimed
  <2> SUFFICES ASSUME BeatInv PROVE PeersReclaimed OBVIOUS
  <2> USE DEF BeatInv
  <2>1. clock \in Nat /\ LastSweep \in Int /\ clock <= LastSweep + Interval
    BY LastSweepType DEF BeatOK
  <2>2. ASSUME NEW c \in Conns, beating, state[c] = "gone"
        PROVE  seen[c] # None /\ clock <= seen[c] + Timeout + Interval
    <3>1. seen[c] \in Nat /\ seen[c] # None /\ LastSweep <= seen[c] + Timeout
      BY <2>2 DEF Watched, BeatOK
    <3> QED BY <2>1, <3>1, Settings
  <2>3. TrackedCanClose BY DEF TrackedCanClose, Watched
  <2> QED BY <2>2, <2>3 DEF PeersReclaimed, HalfOpenReclaimed
<1> QED BY <1>1, BeatInvariant, PTL

(* HeartbeatMonitor.sweep: no step terminates a peer that answers its pings *)
(* within PongDelay, whenever it connected and whatever else happens.       *)
THEOREM KeptTheorem == ConnectionsSpec => AnsweringPeersKept
<1> DEFINE Kept == \A c \in Conns : state[c] = "open" => state'[c] # "dead"
<1>1. BeatInv /\ [ConnectionsNext]_cvars => [Kept]_cvars
  <2> SUFFICES ASSUME BeatInv, ConnectionsNext, NEW c \in Conns, state[c] = "open"
               PROVE  state'[c] # "dead"
    OBVIOUS
  <2>0. state \in [Conns -> {"new", "open", "gone", "dead", "closed"}] BY DEF BeatInv, BeatOK
  <2>1. CASE Heartbeat
    <3>1. ~Expired(c) BY <2>1, SilentIsGone DEF Heartbeat
    <3> QED BY <2>1, <3>1 DEF Heartbeat
  <2>2. CASE ~Heartbeat
    BY <2>0, <2>2 DEF ConnectionsNext, Upgrade, Message, Pong, Vanish, Close, Tick
  <2> QED BY <2>1, <2>2
<1>2. [][Kept]_cvars => AnsweringPeersKept BY DEF AnsweringPeersKept
<1> HIDE DEF Kept
<1> QED BY <1>1, <1>2, BeatInvariant, PTL DEF ConnectionsSpec

-----------------------------------------------------------------------------
(* The limiters' maps.                                                     *)

Hits == [at : Nat, nth : Nat]
Entry == [key : Keys, value : SUBSET Hits]

(* Times recorded up to now, the ones of this tick numbered from zero. *)
GoodHits(hits, now) ==
  /\ IsFiniteSet(hits)
  /\ \A h \in hits : /\ h.at \in Nat /\ h.at <= now
                     /\ h.at = now => h.nth \in Nat /\ h.nth < Cardinality({g \in hits : g.at = now})

(* A map of the keys K, each once. *)
GoodMap(map, K, now) ==
  /\ map \in Seq(Entry)
  /\ \A i \in 1 .. Len(map) : map[i].key \in K /\ GoodHits(map[i].value, now)
  /\ \A i, j \in 1 .. Len(map) : map[i].key = map[j].key => i = j

After(hits, t) == {h \in hits : h.at > t}
Count(hits, t) == Cardinality(After(hits, t))

LEMMA Limits ==
  /\ Window \in Nat \ {0} /\ FailureWindow \in Nat \ {0} /\ ConnMax \in Nat \ {0}
  /\ AddrMax \in Nat \ {0} /\ MaxFailures \in Nat \ {0} /\ MaxTracked \in Nat \ {0}
BY ConnectionsAssumption

LEMMA AfterFinite ==
  ASSUME NEW S, IsFiniteSet(S), NEW t
  PROVE  IsFiniteSet(After(S, t)) /\ Count(S, t) \in Nat
<1>1. After(S, t) \in SUBSET S BY DEF After
<1> QED BY <1>1, FS_Subset, FS_CardinalityType DEF Count

(* One more element, now. *)
LEMMA CountMore ==
  ASSUME NEW S, IsFiniteSet(S), NEW x, x \notin S, NEW t \in Int, x.at \in Nat
  PROVE  Count(S \union {x}, t) = IF x.at > t THEN Count(S, t) + 1 ELSE Count(S, t)
<1>1. IsFiniteSet(After(S, t)) BY AfterFinite
<1>2. x \notin After(S, t) BY DEF After
<1>3. CASE x.at > t
  <2>1. After(S \union {x}, t) = After(S, t) \union {x} BY <1>3 DEF After
  <2> QED BY <1>1, <1>2, <1>3, <2>1, FS_AddElement DEF Count
<1>4. CASE ~(x.at > t)
  <2>1. After(S \union {x}, t) = After(S, t) BY <1>4 DEF After
  <2> QED BY <1>4, <2>1 DEF Count
<1> QED BY <1>3, <1>4

(* A new hit is new, and hits stay numbered. *)
LEMMA HitIsNew ==
  ASSUME clock \in Nat, NEW v, GoodHits(v, clock)
  PROVE  /\ Hit(v) \in Hits /\ Hit(v) \notin v /\ Hit(v).at = clock
         /\ GoodHits(Recorded(v), clock)
<1> DEFINE same == {g \in v : g.at = clock}
           x == Hit(v)
<1>1. same \in SUBSET v /\ IsFiniteSet(v) BY DEF GoodHits
<1>2. IsFiniteSet(same) /\ Cardinality(same) \in Nat BY <1>1, FS_Subset, FS_CardinalityType
<1>3. x.at = clock /\ x.nth = Cardinality(same) /\ x \in Hits BY <1>2 DEF Hit, Hits
<1>4. x \notin v BY <1>2, <1>3 DEF GoodHits
<1> DEFINE more == {g \in Recorded(v) : g.at = clock}
<1>5. more = same \union {x} BY <1>3 DEF Recorded
<1>6. x \notin same BY <1>4
<1> HIDE DEF x, same, more
<1>7. Cardinality(more) = Cardinality(same) + 1 BY <1>2, <1>5, <1>6, FS_AddElement
<1>8. IsFiniteSet(Recorded(v)) BY <1>1, FS_AddElement DEF Recorded, x
<1>9. ASSUME NEW h \in Recorded(v)
      PROVE  /\ h.at \in Nat /\ h.at <= clock
             /\ h.at = clock => h.nth \in Nat /\ h.nth < Cardinality(more)
  <2>1. CASE h = x BY <1>2, <1>3, <1>7, <2>1
  <2>2. CASE h \in v BY <1>2, <1>7, <2>2 DEF GoodHits, same
  <2> QED BY <2>1, <2>2 DEF Recorded, x
<1>10. GoodHits(Recorded(v), clock) BY <1>8, <1>9 DEF GoodHits, more
<1> QED BY <1>3, <1>4, <1>10 DEF x

(* What is left in a window. *)
LEMMA WithinGood ==
  ASSUME clock \in Nat, NEW v \in SUBSET Hits, GoodHits(v, clock), NEW w \in Nat \ {0}
  PROVE  /\ Within(v, w) \in SUBSET Hits /\ GoodHits(Within(v, w), clock)
         /\ \A t \in Int : t >= clock - w => Count(Within(v, w), t) = Count(v, t)
         /\ Cardinality(Within(v, w)) = Count(v, clock - w)
<1>1. Within(v, w) \in SUBSET v /\ IsFiniteSet(v) BY DEF Within, GoodHits
<1>2. IsFiniteSet(Within(v, w)) BY <1>1, FS_Subset
<1>3. {g \in Within(v, w) : g.at = clock} = {g \in v : g.at = clock} BY DEF Within
<1>4. GoodHits(Within(v, w), clock) BY <1>1, <1>2, <1>3 DEF GoodHits
<1>5. ASSUME NEW t \in Int, t >= clock - w PROVE Count(Within(v, w), t) = Count(v, t)
  <2>1. \A h \in v : h.at \in Nat BY DEF GoodHits
  <2>2. After(Within(v, w), t) = After(v, t) BY <1>5, <2>1 DEF After, Within
  <2> QED BY <2>2 DEF Count
<1>6. Within(v, w) = After(v, clock - w) BY DEF Within, After
<1> QED BY <1>1, <1>4, <1>5, <1>6 DEF Count

(* What a key of the map means. *)
LEMMA GetAt ==
  ASSUME NEW map, NEW K, GoodMap(map, K, clock), NEW i \in 1 .. Len(map)
  PROVE  Has(map, map[i].key) /\ Index(map, map[i].key) = i /\ Get(map, map[i].key) = map[i].value
<1>1. DOMAIN map = 1 .. Len(map) BY DEF GoodMap
<1>2. Has(map, map[i].key) BY <1>1 DEF Has
<1>3. Index(map, map[i].key) \in DOMAIN map /\ map[Index(map, map[i].key)].key = map[i].key
  BY <1>2 DEF Has, Index
<1>4. Index(map, map[i].key) = i BY <1>1, <1>3 DEF GoodMap
<1> QED BY <1>2, <1>4 DEF Get

LEMMA GetGood ==
  ASSUME NEW map, NEW K, GoodMap(map, K, clock), NEW k
  PROVE  /\ Get(map, k) \in SUBSET Hits /\ GoodHits(Get(map, k), clock)
         /\ Has(map, k) => Index(map, k) \in 1 .. Len(map) /\ map[Index(map, k)].key = k
<1>1. DOMAIN map = 1 .. Len(map) BY DEF GoodMap
<1>2. CASE Has(map, k)
  <2>1. Index(map, k) \in DOMAIN map /\ map[Index(map, k)].key = k BY <1>2 DEF Has, Index
  <2>2. map[Index(map, k)] \in Entry /\ GoodHits(map[Index(map, k)].value, clock)
    BY <1>1, <2>1 DEF GoodMap
  <2> QED BY <1>1, <1>2, <2>1, <2>2 DEF Get, Entry
<1>3. CASE ~Has(map, k)
  <2>1. GoodHits({}, clock) BY FS_EmptySet DEF GoodHits
  <2> QED BY <1>3, <2>1 DEF Get
<1> QED BY <1>2, <1>3

(* Two maps agree on a key when they have the same entry for it, or none. *)
LEMMA GetSame ==
  ASSUME NEW map, NEW new, NEW K, NEW L, GoodMap(map, K, clock), GoodMap(new, L, clock), NEW k,
         \A i \in 1 .. Len(map) : map[i].key = k => \E j \in 1 .. Len(new) : new[j] = map[i],
         \A j \in 1 .. Len(new) : new[j].key = k => \E i \in 1 .. Len(map) : map[i].key = k
  PROVE  Get(new, k) = Get(map, k) /\ (Has(new, k) <=> Has(map, k))
<1>1. DOMAIN map = 1 .. Len(map) /\ DOMAIN new = 1 .. Len(new) BY DEF GoodMap
<1>2. CASE \E i \in 1 .. Len(map) : map[i].key = k
  <2>1. PICK i \in 1 .. Len(map) : map[i].key = k BY <1>2
  <2>2. PICK j \in 1 .. Len(new) : new[j] = map[i] BY <2>1
  <2>3. Get(map, k) = map[i].value /\ Has(map, k) BY <2>1, GetAt
  <2>4. Get(new, k) = new[j].value /\ Has(new, k) BY <2>1, <2>2, GetAt
  <2> QED BY <2>2, <2>3, <2>4
<1>3. CASE ~\E i \in 1 .. Len(map) : map[i].key = k
  <2>1. ~Has(map, k) /\ ~Has(new, k) BY <1>1, <1>3 DEF Has
  <2> QED BY <2>1 DEF Get
<1> QED BY <1>2, <1>3

LEMMA PutGood ==
  ASSUME NEW map, NEW K \in SUBSET Keys, GoodMap(map, K, clock), NEW k \in K,
         NEW v \in SUBSET Hits, GoodHits(v, clock)
  PROVE  /\ GoodMap(Put(map, k, v), K, clock)
         /\ Get(Put(map, k, v), k) = v
         /\ \A j : j # k => Get(Put(map, k, v), j) = Get(map, j)
<1> DEFINE e == [key |-> k, value |-> v]
           new == Put(map, k, v)
           n == Len(map)
<1>0. map \in Seq(Entry) /\ n \in Nat /\ DOMAIN map = 1 .. n /\ e \in Entry BY DEF GoodMap, Entry
<1>1. CASE Has(map, k)
  <2> DEFINE x == Index(map, k)
  <2>1. x \in 1 .. n /\ map[x].key = k BY <1>1, GetGood
  <2>2. new = [map EXCEPT ![x] = e] BY <1>1 DEF Put
  <2> HIDE DEF x, e, new
  <2>3. new \in Seq(Entry) /\ Len(new) = n /\ DOMAIN new = 1 .. n BY <1>0, <2>1, <2>2
  <2>4. \A i \in 1 .. n : new[i] = IF i = x THEN e ELSE map[i] BY <1>0, <2>1, <2>2
  <2>5. \A i \in 1 .. n : new[i].key = map[i].key BY <2>1, <2>4 DEF e
  <2>6. GoodMap(new, K, clock)
    <3>1. \A i \in 1 .. n : GoodHits(new[i].value, clock) BY <2>4 DEF GoodMap, e
    <3> QED BY <2>3, <2>5, <3>1 DEF GoodMap
  <2>7. Get(new, k) = v
    <3>1. Get(new, new[x].key) = new[x].value BY <2>1, <2>3, <2>6, GetAt
    <3> QED BY <2>1, <2>4, <3>1 DEF e
  <2>8. ASSUME NEW j, j # k PROVE Get(new, j) = Get(map, j)
    <3>1. \A i \in 1 .. n : map[i].key = j => new[i] = map[i] BY <2>1, <2>4, <2>8
    <3>2. \A i \in 1 .. n : map[i].key = j => \E m \in 1 .. Len(new) : new[m] = map[i]
      BY <2>3, <3>1
    <3>3. \A m \in 1 .. Len(new) : new[m].key = j => \E i \in 1 .. Len(map) : map[i].key = j
      BY <2>3, <2>5
    <3> QED BY <2>6, <3>2, <3>3, GetSame
  <2> QED BY <2>6, <2>7, <2>8 DEF new
<1>2. CASE ~Has(map, k)
  <2>1. new = Append(map, e) BY <1>2 DEF Put
  <2>2. \A i \in 1 .. n : map[i].key # k BY <1>0, <1>2 DEF Has
  <2> HIDE DEF e, new
  <2>3. new \in Seq(Entry) /\ Len(new) = n + 1 BY <1>0, <2>1
  <2>4. (\A i \in 1 .. n : new[i] = map[i]) /\ new[n + 1] = e BY <1>0, <2>1
  <2>5. \A i \in 1 .. n + 1 : i \in 1 .. n \/ i = n + 1 BY <1>0
  <2>6. GoodMap(new, K, clock)
    <3>1. \A i \in 1 .. n + 1 : new[i].key \in K /\ GoodHits(new[i].value, clock)
      BY <2>4, <2>5 DEF GoodMap, e
    <3>2. \A i, j \in 1 .. n + 1 : new[i].key = new[j].key => i = j
      BY <2>2, <2>4, <2>5 DEF GoodMap, e
    <3> QED BY <2>3, <3>1, <3>2 DEF GoodMap
  <2>7. Get(new, k) = v
    <3>1. n + 1 \in 1 .. Len(new) BY <1>0, <2>3
    <3>2. Get(new, new[n + 1].key) = new[n + 1].value BY <2>6, <3>1, GetAt
    <3> QED BY <2>4, <3>2 DEF e
  <2>8. ASSUME NEW j, j # k PROVE Get(new, j) = Get(map, j)
    <3>1. \A i \in 1 .. n : i \in 1 .. Len(new) /\ new[i] = map[i] BY <1>0, <2>3, <2>4
    <3>2. \A m \in 1 .. Len(new) : new[m].key = j => \E i \in 1 .. Len(map) : map[i].key = j
      BY <2>3, <2>4, <2>5, <2>8 DEF e
    <3> QED BY <2>6, <3>1, <3>2, GetSame
  <2> QED BY <2>6, <2>7, <2>8 DEF new
<1> QED BY <1>1, <1>2

LEMMA DropGood ==
  ASSUME NEW map, NEW K, GoodMap(map, K, clock), NEW k
  PROVE  /\ GoodMap(Drop(map, k), K, clock)
         /\ Get(Drop(map, k), k) = {}
         /\ \A j : j # k => Get(Drop(map, k), j) = Get(map, j)
<1> DEFINE new == Drop(map, k)
           n == Len(map)
<1>0. map \in Seq(Entry) /\ n \in Nat /\ DOMAIN map = 1 .. n BY DEF GoodMap
<1>1. CASE Has(map, k)
  <2> DEFINE x == Index(map, k)
             at(i) == IF i < x THEN i ELSE i + 1
  <2>1. x \in 1 .. n /\ map[x].key = k BY <1>1, GetGood
  <2>2. new = [i \in 1 .. n - 1 |-> map[at(i)]] BY <1>1 DEF Drop
  <2> HIDE DEF x, new
  <2>3. \A i \in 1 .. n - 1 : at(i) \in 1 .. n /\ at(i) # x BY <1>0, <2>1
  <2>4. \A i, j \in 1 .. n - 1 : at(i) = at(j) => i = j BY <1>0, <2>1
  <2>5. \A i \in 1 .. n : i # x => \E j \in 1 .. n - 1 : at(j) = i
    <3> SUFFICES ASSUME NEW i \in 1 .. n, i # x PROVE \E j \in 1 .. n - 1 : at(j) = i OBVIOUS
    <3>1. CASE i < x
      <4>1. i \in 1 .. n - 1 /\ at(i) = i BY <1>0, <2>1, <3>1
      <4> QED BY <4>1
    <3>2. CASE ~(i < x)
      <4>1. i - 1 \in 1 .. n - 1 /\ at(i - 1) = i BY <1>0, <2>1, <3>2
      <4> QED BY <4>1
    <3> QED BY <3>1, <3>2
  <2>6. n - 1 \in Nat BY <1>0, <2>1
  <2>7. \A i \in 1 .. n - 1 : new[i] = map[at(i)] BY <2>2
  <2>8. new \in Seq(Entry) /\ Len(new) = n - 1 /\ DOMAIN new = 1 .. n - 1
    <3>1. \A i \in 1 .. n - 1 : map[at(i)] \in Entry BY <1>0, <2>3
    <3>2. new \in [1 .. n - 1 -> Entry] BY <2>2, <3>1
    <3> QED BY <2>6, <3>2
  <2> HIDE DEF at
  <2>9. GoodMap(new, K, clock) BY <2>3, <2>4, <2>7, <2>8 DEF GoodMap
  <2>10. \A i \in 1 .. n - 1 : new[i].key # k BY <2>1, <2>3, <2>7 DEF GoodMap
  <2>11. Get(new, k) = {} BY <2>8, <2>10 DEF Get, Has
  <2>12. ASSUME NEW j, j # k PROVE Get(new, j) = Get(map, j)
    <3>1. \A i \in 1 .. n : map[i].key = j => \E m \in 1 .. Len(new) : new[m] = map[i]
      BY <2>1, <2>5, <2>7, <2>8, <2>12
    <3>2. \A m \in 1 .. Len(new) : new[m].key = j => \E i \in 1 .. Len(map) : map[i].key = j
      BY <2>3, <2>7, <2>8
    <3> QED BY <2>9, <3>1, <3>2, GetSame
  <2> QED BY <2>9, <2>11, <2>12 DEF new
<1>2. CASE ~Has(map, k) BY <1>2 DEF Drop, Get
<1> QED BY <1>1, <1>2

(* Making room may cost another key its entry, but not while there is space *)
(* for all keys.                                                            *)
LEMMA RoomGood ==
  ASSUME NEW map, NEW K, GoodMap(map, K, clock), NEW k \in K, IsFiniteSet(K)
  PROVE  /\ GoodMap(Room(map, k), K, clock)
         /\ Get(Room(map, k), k) = Get(map, k)
         /\ \A j : Get(Room(map, k), j) \in {Get(map, j), {}}
         /\ Cardinality(K) <= MaxTracked => Room(map, k) = map
<1> DEFINE new == Room(map, k)
           n == Len(map)
<1>0. map \in Seq(Entry) /\ n \in Nat /\ DOMAIN map = 1 .. n BY DEF GoodMap
<1>1. CASE ~Has(map, k) /\ n >= MaxTracked
  <2>1. new = Tail(map) BY <1>1 DEF Room
  <2>2. n >= 1 BY <1>0, <1>1, Limits
  <2> HIDE DEF new
  <2>3. new \in Seq(Entry) /\ Len(new) = n - 1 /\ DOMAIN new = 1 .. n - 1
        /\ \A i \in 1 .. n - 1 : new[i] = map[i + 1]
    BY <1>0, <2>1, <2>2
  <2>4. \A i \in 1 .. n - 1 : i + 1 \in 1 .. n BY <1>0
  <2>5. GoodMap(new, K, clock)
    <3>1. \A i, j \in 1 .. n - 1 : new[i].key = new[j].key => i = j
      <4> SUFFICES ASSUME NEW i \in 1 .. n - 1, NEW j \in 1 .. n - 1, new[i].key = new[j].key
                   PROVE  i = j
        OBVIOUS
      <4>1. i + 1 = j + 1 BY <2>3, <2>4 DEF GoodMap
      <4> QED BY <4>1
    <3> QED BY <2>3, <2>4, <3>1 DEF GoodMap
  <2>6. ASSUME NEW j PROVE Get(new, j) \in {Get(map, j), {}}
    <3>1. CASE Has(new, j)
      <4>1. PICK i \in 1 .. n - 1 : new[i].key = j BY <2>3, <3>1 DEF Has
      <4>2. Get(new, j) = new[i].value BY <2>3, <2>5, <4>1, GetAt
      <4>3. Get(map, j) = map[i + 1].value BY <2>3, <2>4, <4>1, GetAt
      <4> QED BY <2>3, <4>2, <4>3
    <3>2. CASE ~Has(new, j) BY <3>2 DEF Get
    <3> QED BY <3>1, <3>2
  <2>7. Get(new, k) = Get(map, k) BY <1>1, <2>6 DEF Get
  <2>8. ~(Cardinality(K) <= MaxTracked)
    <3> DEFINE f == [i \in 1 .. n |-> map[i].key]
    <3>1. f \in Injection(1 .. n, K \ {k})
      <4>1. \A i \in 1 .. n : map[i].key # k BY <1>0, <1>1 DEF Has
      <4>2. f \in [1 .. n -> K \ {k}] BY <4>1 DEF GoodMap
      <4>3. \A i, j \in 1 .. n : f[i] = f[j] => i = j BY DEF GoodMap
      <4> QED BY <4>2, <4>3 DEF Injection, IsInjective
    <3>2. IsFiniteSet(K \ {k}) /\ Cardinality(K \ {k}) = Cardinality(K) - 1 BY FS_RemoveElement
    <3>3. Cardinality(1 .. n) <= Cardinality(K \ {k}) BY <3>1, <3>2, FS_Injection
    <3>4. Cardinality(1 .. n) = n BY <1>0, <2>2, FS_Interval
    <3>5. Cardinality(K) \in Nat BY FS_CardinalityType
    <3> QED BY <1>0, <1>1, <3>2, <3>3, <3>4, <3>5, Limits
  <2> QED BY <2>5, <2>6, <2>7, <2>8 DEF new
<1>2. CASE ~(~Has(map, k) /\ n >= MaxTracked) BY <1>2 DEF Room
<1> QED BY <1>1, <1>2

LEMMA LargerMap ==
  ASSUME NEW map, NEW K, NEW L, K \subseteq L, NEW now, GoodMap(map, K, now)
  PROVE  GoodMap(map, L, now)
BY DEF GoodMap

LEMMA LaterHits ==
  ASSUME NEW hits, NEW now \in Nat, GoodHits(hits, now) PROVE GoodHits(hits, now + 1)
<1>1. \A h \in hits : h.at \in Nat /\ h.at <= now BY DEF GoodHits
<1>2. \A n \in Nat : n <= now => n <= now + 1 /\ n # now + 1 OBVIOUS
<1>3. \A h \in hits : h.at \in Nat /\ h.at <= now + 1 /\ h.at # now + 1 BY <1>1, <1>2
<1> QED BY <1>3 DEF GoodHits

LEMMA LaterMap ==
  ASSUME NEW map, NEW K, NEW now \in Nat, GoodMap(map, K, now) PROVE GoodMap(map, K, now + 1)
BY LaterHits DEF GoodMap

(* One request to a SlidingWindowLimiter: it is counted exactly when it is  *)
(* let through, and others lose at most what eviction takes.                *)
LEMMA Consumed ==
  ASSUME clock \in Nat, NEW map, NEW K \in SUBSET Keys, IsFiniteSet(K),
         GoodMap(map, K, clock), NEW k \in K, NEW max \in Nat \ {0}
  PROVE  /\ GoodMap(TryConsume(map, k, max).map, K, clock)
         /\ TryConsume(map, k, max).ok <=> Count(Get(map, k), clock - Window) < max
         /\ \A t \in Int : t >= clock - Window =>
              Count(Get(TryConsume(map, k, max).map, k), t) =
                IF TryConsume(map, k, max).ok /\ clock > t
                THEN Count(Get(map, k), t) + 1 ELSE Count(Get(map, k), t)
         /\ \A j : j # k => Get(TryConsume(map, k, max).map, j) \in {Get(map, j), {}}
         /\ Cardinality(K) <= MaxTracked =>
              \A j : j # k => Get(TryConsume(map, k, max).map, j) = Get(map, j)
<1> DEFINE old == Get(map, k)
           kept == Within(old, Window)
           r == TryConsume(map, k, max)
           room == Room(map, k)
<1>1. old \in SUBSET Hits /\ GoodHits(old, clock) BY GetGood
<1>2. /\ kept \in SUBSET Hits /\ GoodHits(kept, clock)
      /\ \A t \in Int : t >= clock - Window => Count(kept, t) = Count(old, t)
      /\ Cardinality(kept) = Count(old, clock - Window)
  BY <1>1, WithinGood, Limits
<1>3. Count(old, clock - Window) \in Nat BY <1>1, AfterFinite DEF GoodHits
<1> HIDE DEF old
<1>4. CASE Cardinality(kept) >= max
  <2>1. r.ok = FALSE /\ r.map = Put(map, k, kept) BY <1>4 DEF TryConsume, old
  <2> HIDE DEF kept, r
  <2>2. /\ GoodMap(r.map, K, clock) /\ Get(r.map, k) = kept
        /\ \A j : j # k => Get(r.map, j) = Get(map, j)
    BY <1>2, <2>1, PutGood
  <2>3. ~(Count(old, clock - Window) < max) BY <1>2, <1>3, <1>4
  <2> QED BY <1>2, <2>1, <2>2, <2>3 DEF r, old
<1>5. CASE ~(Cardinality(kept) >= max)
  <2>1. r.ok = TRUE /\ r.map = Put(room, k, Recorded(kept)) BY <1>5 DEF TryConsume, old
  <2> DEFINE x == Hit(kept)
  <2>2. x \in Hits /\ x \notin kept /\ x.at = clock /\ GoodHits(Recorded(kept), clock)
    BY <1>2, HitIsNew
  <2>3. Recorded(kept) \in SUBSET Hits /\ Recorded(kept) = kept \union {x}
    BY <1>2, <2>2 DEF Recorded
  <2>4. /\ GoodMap(room, K, clock) /\ \A j : Get(room, j) \in {Get(map, j), {}}
        /\ Cardinality(K) <= MaxTracked => room = map
    BY RoomGood
  <2> HIDE DEF kept, room, r, x
  <2>5. /\ GoodMap(r.map, K, clock) /\ Get(r.map, k) = Recorded(kept)
        /\ \A j : j # k => Get(r.map, j) = Get(room, j)
    <3> DEFINE v == Recorded(kept)
    <3>1. v \in SUBSET Hits /\ GoodHits(v, clock) BY <2>2, <2>3
    <3> HIDE DEF v
    <3>2. /\ GoodMap(Put(room, k, v), K, clock) /\ Get(Put(room, k, v), k) = v
          /\ \A j : j # k => Get(Put(room, k, v), j) = Get(room, j)
      BY <2>4, <3>1, PutGood
    <3> QED BY <2>1, <3>2 DEF v
  <2>6. ASSUME NEW t \in Int, t >= clock - Window
        PROVE  Count(Get(r.map, k), t) = IF clock > t THEN Count(old, t) + 1 ELSE Count(old, t)
    <3>1. IsFiniteSet(kept) BY <1>2 DEF GoodHits
    <3>2. Count(kept \union {x}, t) = IF x.at > t THEN Count(kept, t) + 1 ELSE Count(kept, t)
      BY <2>2, <2>6, <3>1, CountMore
    <3>3. Get(r.map, k) = kept \union {x} BY <2>3, <2>5
    <3>4. Count(kept, t) = Count(old, t) BY <1>2, <2>6
    <3> QED BY <2>2, <3>2, <3>3, <3>4
  <2>7. Count(old, clock - Window) < max BY <1>2, <1>3, <1>5
  <2> QED BY <2>1, <2>4, <2>5, <2>6, <2>7 DEF r, old
<1> QED BY <1>4, <1>5

-----------------------------------------------------------------------------
(* The frame limits.                                                       *)

SenderAddresses == {AddressOf[c] : c \in senders}

(* From some time on, as many of one as of the other. *)
NoMore(S, T, from) == \A t \in Int : t >= from => Count(S, t) <= Count(T, t)

FramesOK ==
  /\ clock \in Nat
  /\ senders \in SUBSET Conns /\ IsFiniteSet(senders) /\ IsFiniteSet(SenderAddresses)
  /\ GoodMap(connHits, senders, clock) /\ GoodMap(addrHits, SenderAddresses, clock)
  /\ accepted \in SUBSET [conn : Conns, at : Nat, nth : Nat] /\ IsFiniteSet(accepted)
  /\ \A f \in accepted : f.at > clock - Window
  /\ \A c \in Conns : GoodHits(FramesOf(c), clock)

(* An address has been charged for the frames let through, a connection for *)
(* at least these.                                                          *)
Charged ==
  /\ \A a \in Addresses :
       /\ NoMore(Get(addrHits, a), FramesFrom(a), clock - Window)
       /\ Cardinality(SenderAddresses) <= MaxTracked =>
            NoMore(FramesFrom(a), Get(addrHits, a), clock - Window)
  /\ Cardinality(senders) <= MaxTracked =>
       \A c \in Conns : NoMore(FramesOf(c), Get(connHits, c), clock - Window)

(* No entry holds more than a limit in a window. *)
WithinLimits ==
  \A k : /\ Count(Get(connHits, k), clock - Window) <= ConnMax
         /\ Count(Get(addrHits, k), clock - Window) <= AddrMax

RateInv == FramesOK /\ Charged /\ WithinLimits /\ RefusalEarned

LEMMA FramesFinite ==
  ASSUME FramesOK
  PROVE  /\ \A a : FramesFrom(a) \in SUBSET accepted /\ IsFiniteSet(FramesFrom(a))
         /\ \A c : FramesOf(c) \in SUBSET accepted /\ IsFiniteSet(FramesOf(c))
         /\ \A a : Cardinality(FramesFrom(a)) = Count(FramesFrom(a), clock - Window)
         /\ \A c : Cardinality(FramesOf(c)) = Count(FramesOf(c), clock - Window)
<1>1. \A a : FramesFrom(a) \in SUBSET accepted BY DEF FramesFrom
<1>2. \A c : FramesOf(c) \in SUBSET accepted BY DEF FramesOf
<1>3. \A S \in SUBSET accepted : IsFiniteSet(S) BY FS_Subset DEF FramesOK
<1>4. \A S \in SUBSET accepted : After(S, clock - Window) = S BY DEF FramesOK, After
<1> QED BY <1>1, <1>2, <1>3, <1>4 DEF Count

(* The frame that is let through is a new one. *)
LEMMA FrameIsNew ==
  ASSUME FramesOK, NEW c \in Conns
  PROVE  /\ Frame(c) \in [conn : Conns, at : Nat, nth : Nat] /\ Frame(c) \notin accepted
         /\ Frame(c).conn = c /\ Frame(c).at = clock
         /\ GoodHits(FramesOf(c) \union {Frame(c)}, clock)
<1> DEFINE v == FramesOf(c)
           f == Frame(c)
           same == {g \in v : g.at = clock}
<1>0. clock \in Nat /\ GoodHits(v, clock) /\ IsFiniteSet(v) BY DEF FramesOK, GoodHits
<1>1. same \in SUBSET v OBVIOUS
<1>2. IsFiniteSet(same) /\ Cardinality(same) \in Nat BY <1>0, <1>1, FS_Subset, FS_CardinalityType
<1>3. f.conn = c /\ f.at = clock /\ f.nth = Cardinality(same) BY DEF Frame, Hit
<1>4. f \in [conn : Conns, at : Nat, nth : Nat] BY <1>0, <1>2 DEF Frame, Hit
<1>5. f \notin v BY <1>0, <1>2, <1>3 DEF GoodHits
<1>6. f \notin accepted BY <1>3, <1>5 DEF FramesOf
<1> DEFINE more == {g \in v \union {f} : g.at = clock}
<1>7. more = same \union {f} /\ f \notin same BY <1>3, <1>5
<1> HIDE DEF v, f, same, more
<1>8. Cardinality(more) = Cardinality(same) + 1 BY <1>2, <1>7, FS_AddElement
<1>9. IsFiniteSet(v \union {f}) BY <1>0, FS_AddElement
<1>10. ASSUME NEW h \in v \union {f}
       PROVE  /\ h.at \in Nat /\ h.at <= clock
              /\ h.at = clock => h.nth \in Nat /\ h.nth < Cardinality(more)
  <2>1. CASE h = f BY <1>0, <1>2, <1>3, <1>8, <2>1
  <2>2. CASE h \in v BY <1>0, <1>2, <1>8, <2>2 DEF GoodHits, same
  <2> QED BY <2>1, <2>2
<1>11. GoodHits(v \union {f}, clock) BY <1>9, <1>10 DEF GoodHits, more
<1> QED BY <1>3, <1>4, <1>6, <1>11 DEF v, f

LEMMA CountEmpty == ASSUME NEW t PROVE Count({}, t) = 0
<1>1. After({}, t) = {} BY DEF After
<1> QED BY <1>1, FS_EmptySet DEF Count

LEMMA CountLater ==
  ASSUME NEW S, IsFiniteSet(S), \A h \in S : h.at \in Nat, NEW t \in Int
  PROVE  Count(S, t + 1) <= Count(S, t)
<1>1. After(S, t + 1) \in SUBSET After(S, t) BY DEF After
<1>2. IsFiniteSet(After(S, t)) BY AfterFinite
<1> QED BY <1>1, <1>2, FS_Subset DEF Count

(* A limiter whose entries are within the limit keeps them so. *)
LEMMA ConsumedWithin ==
  ASSUME clock \in Nat, NEW map, NEW K \in SUBSET Keys, IsFiniteSet(K),
         GoodMap(map, K, clock), NEW k \in K, NEW max \in Nat \ {0},
         \A j : Count(Get(map, j), clock - Window) <= max
  PROVE  \A j : Count(Get(TryConsume(map, k, max).map, j), clock - Window) <= max
<1> DEFINE r == TryConsume(map, k, max)
           from == clock - Window
<1>1. from \in Int /\ from >= from /\ clock > from BY Limits
<1>2. /\ r.ok <=> Count(Get(map, k), from) < max
      /\ Count(Get(r.map, k), from) =
           IF r.ok /\ clock > from THEN Count(Get(map, k), from) + 1 ELSE Count(Get(map, k), from)
      /\ \A j : j # k => Get(r.map, j) \in {Get(map, j), {}}
  BY <1>1, Consumed
<1>3. Count(Get(map, k), from) \in Nat BY GetGood, AfterFinite DEF GoodHits
<1>4. Count({}, from) = 0 BY CountEmpty
<1> HIDE DEF r, from
<1>5. Count(Get(r.map, k), from) <= max BY <1>2, <1>3 DEF from
<1>6. ASSUME NEW j, j # k PROVE Count(Get(r.map, j), from) <= max
  <2>1. Get(r.map, j) = Get(map, j) \/ Get(r.map, j) = {} BY <1>2, <1>6
  <2> QED BY <1>4, <2>1 DEF from
<1> QED BY <1>5, <1>6 DEF r, from

(* The invariant bounds the frames of a window. *)
LEMMA InvBounds == ASSUME RateInv PROVE RatesExact
<1> USE DEF RateInv
<1>1. clock - Window \in Int BY Limits DEF FramesOK
<1>2. \A k : Count(Get(connHits, k), clock - Window) \in Nat /\ Count(Get(addrHits, k), clock - Window) \in Nat
  BY GetGood, AfterFinite DEF FramesOK, GoodHits
<1>3. \A a : Count(FramesFrom(a), clock - Window) \in Nat /\ Count(FramesOf(a), clock - Window) \in Nat
  BY FramesFinite, AfterFinite
<1>4. ASSUME Cardinality(SenderAddresses) <= MaxTracked, NEW a \in Addresses
      PROVE  Cardinality(FramesFrom(a)) <= AddrMax
  <2>1. Count(FramesFrom(a), clock - Window) <= Count(Get(addrHits, a), clock - Window)
    BY <1>1, <1>4 DEF Charged, NoMore
  <2>2. Count(Get(addrHits, a), clock - Window) <= AddrMax BY DEF WithinLimits
  <2> QED BY <1>2, <1>3, <2>1, <2>2, FramesFinite, Limits
<1>5. ASSUME Cardinality(senders) <= MaxTracked, NEW c \in Conns
      PROVE  Cardinality(FramesOf(c)) <= ConnMax
  <2>1. Count(FramesOf(c), clock - Window) <= Count(Get(connHits, c), clock - Window)
    BY <1>1, <1>5 DEF Charged, NoMore
  <2>2. Count(Get(connHits, c), clock - Window) <= ConnMax BY DEF WithinLimits
  <2> QED BY <1>2, <1>3, <2>1, <2>2, FramesFinite, Limits
<1> QED BY <1>4, <1>5 DEF RatesExact, RatesBounded, SenderAddresses

(* A frame is charged to its connection and then to its address. *)
LEMMA MessageKeeps == ASSUME RateInv, NEW c \in Conns, Message(c) PROVE RateInv'
<1> DEFINE a == AddressOf[c]
           conn == TryConsume(connHits, c, ConnMax)
           addr == TryConsume(addrHits, a, AddrMax)
           K == senders \union {c}
           A == SenderAddresses \union {a}
           from == clock - Window
           x == Frame(c)
           ok == conn.ok /\ addr.ok
<1> USE DEF RateInv
<1>0. clock \in Nat /\ a \in Addresses /\ from \in Int /\ clock > from /\ from >= from
  BY ConnectionsAssumption, Limits DEF FramesOK
<1>1. /\ clock' = clock /\ senders' = K /\ connHits' = conn.map
      /\ addrHits' = IF conn.ok THEN addr.map ELSE addrHits
      /\ accepted' = IF ok THEN accepted \union {x} ELSE accepted
      /\ last'.kind = "throttled" /\ last'.dimension = "address" =>
           conn.ok /\ ~addr.ok /\ last'.address = a
  <2>1. conn.ok \in BOOLEAN /\ addr.ok \in BOOLEAN BY DEF TryConsume
  <2>2. /\ clock' = clock /\ senders' = K
        /\ connHits' = Check(c, a).conns /\ addrHits' = Check(c, a).addrs
        /\ accepted' = IF Check(c, a).allowed THEN accepted \union {x} ELSE accepted
        /\ last' = IF Check(c, a).allowed THEN Quiet
                   ELSE [kind |-> "throttled", dimension |-> Check(c, a).dimension, address |-> a]
    BY DEF Message
  <2>3. /\ Check(c, a).conns = conn.map
        /\ Check(c, a).addrs = IF conn.ok THEN addr.map ELSE addrHits
        /\ Check(c, a).allowed <=> ok
        /\ Check(c, a).dimension = IF conn.ok THEN "address" ELSE "connection"
    <3> HIDE DEF conn, addr
    <3>1. Check(c, a) = IF ~conn.ok
            THEN [allowed |-> FALSE, dimension |-> "connection", conns |-> conn.map, addrs |-> addrHits]
            ELSE [allowed |-> addr.ok, dimension |-> "address", conns |-> conn.map, addrs |-> addr.map]
      BY DEF Check, conn, addr
    <3>2. CASE conn.ok BY <2>1, <3>1, <3>2
    <3>3. CASE ~conn.ok BY <2>1, <3>1, <3>3
    <3> QED BY <3>2, <3>3
  <2> HIDE DEF conn, addr, ok, K, x
  <2>4. last'.kind = "throttled" /\ last'.dimension = "address" =>
           conn.ok /\ ~addr.ok /\ last'.address = a
    BY <2>1, <2>2, <2>3 DEF ok, Quiet
  <2> QED BY <2>2, <2>3, <2>4
<1>2. /\ K \in SUBSET Conns /\ IsFiniteSet(K) /\ Cardinality(senders) <= Cardinality(K)
      /\ Cardinality(senders) \in Nat /\ Cardinality(K) \in Nat /\ c \in K
  <2>1. K \in SUBSET Conns /\ senders \in SUBSET K BY DEF FramesOK
  <2>2. IsFiniteSet(senders) BY DEF FramesOK
  <2>3. IsFiniteSet(K) BY <2>2, FS_AddElement
  <2> HIDE DEF K
  <2> QED BY <2>1, <2>2, <2>3, FS_Subset, FS_CardinalityType DEF K
<1>3. /\ A \in SUBSET Addresses /\ IsFiniteSet(A) /\ Cardinality(SenderAddresses) <= Cardinality(A)
      /\ Cardinality(SenderAddresses) \in Nat /\ Cardinality(A) \in Nat /\ a \in A
  <2>1. A \in SUBSET Addresses /\ SenderAddresses \in SUBSET A
    BY ConnectionsAssumption DEF FramesOK, SenderAddresses
  <2>2. IsFiniteSet(SenderAddresses) BY DEF FramesOK
  <2>3. IsFiniteSet(A) BY <2>2, FS_AddElement
  <2> HIDE DEF A
  <2> QED BY <2>1, <2>2, <2>3, FS_Subset, FS_CardinalityType DEF A
<1>4. SenderAddresses' = A BY <1>1 DEF SenderAddresses
<1>5. GoodMap(connHits, K, clock) /\ GoodMap(addrHits, A, clock)
  BY LargerMap DEF FramesOK
<1>6. /\ GoodMap(conn.map, K, clock)
      /\ \A t \in Int : t >= from => Count(Get(conn.map, c), t) =
           IF conn.ok /\ clock > t THEN Count(Get(connHits, c), t) + 1 ELSE Count(Get(connHits, c), t)
      /\ Cardinality(K) <= MaxTracked => \A j : j # c => Get(conn.map, j) = Get(connHits, j)
      /\ \A j : Count(Get(conn.map, j), from) <= ConnMax
  <2>1. K \in SUBSET Keys BY <1>2 DEF Keys
  <2>2. \A j : Count(Get(connHits, j), from) <= ConnMax BY DEF WithinLimits
  <2> HIDE DEF K
  <2>3. /\ GoodMap(conn.map, K, clock)
        /\ \A t \in Int : t >= from => Count(Get(conn.map, c), t) =
             IF conn.ok /\ clock > t THEN Count(Get(connHits, c), t) + 1 ELSE Count(Get(connHits, c), t)
        /\ Cardinality(K) <= MaxTracked => \A j : j # c => Get(conn.map, j) = Get(connHits, j)
    BY <1>0, <1>2, <1>5, <2>1, Limits, Consumed
  <2>4. \A j : Count(Get(conn.map, j), from) <= ConnMax
    BY <1>0, <1>2, <1>5, <2>1, <2>2, Limits, ConsumedWithin
  <2> QED BY <2>3, <2>4
<1>7. /\ GoodMap(addr.map, A, clock)
      /\ addr.ok <=> Count(Get(addrHits, a), from) < AddrMax
      /\ \A t \in Int : t >= from => Count(Get(addr.map, a), t) =
           IF addr.ok /\ clock > t THEN Count(Get(addrHits, a), t) + 1 ELSE Count(Get(addrHits, a), t)
      /\ \A j : j # a => Get(addr.map, j) \in {Get(addrHits, j), {}}
      /\ Cardinality(A) <= MaxTracked => \A j : j # a => Get(addr.map, j) = Get(addrHits, j)
      /\ \A j : Count(Get(addr.map, j), from) <= AddrMax
  <2>1. A \in SUBSET Keys BY <1>3 DEF Keys
  <2>2. \A j : Count(Get(addrHits, j), from) <= AddrMax BY DEF WithinLimits
  <2> HIDE DEF A, a
  <2>3. /\ GoodMap(addr.map, A, clock)
        /\ addr.ok <=> Count(Get(addrHits, a), from) < AddrMax
        /\ \A t \in Int : t >= from => Count(Get(addr.map, a), t) =
             IF addr.ok /\ clock > t THEN Count(Get(addrHits, a), t) + 1 ELSE Count(Get(addrHits, a), t)
        /\ \A j : j # a => Get(addr.map, j) \in {Get(addrHits, j), {}}
        /\ Cardinality(A) <= MaxTracked => \A j : j # a => Get(addr.map, j) = Get(addrHits, j)
    <3>1. AddrMax \in Nat \ {0} BY Limits
    <3>2. /\ GoodMap(addr.map, A, clock)
          /\ addr.ok <=> Count(Get(addrHits, a), from) < AddrMax
      BY <1>0, <1>3, <1>5, <2>1, <3>1, Consumed
    <3>3. \A t \in Int : t >= from => Count(Get(addr.map, a), t) =
             IF addr.ok /\ clock > t THEN Count(Get(addrHits, a), t) + 1 ELSE Count(Get(addrHits, a), t)
      BY <1>0, <1>3, <1>5, <2>1, <3>1, Consumed
    <3>4. \A j : j # a => Get(addr.map, j) \in {Get(addrHits, j), {}}
      BY <1>0, <1>3, <1>5, <2>1, <3>1, Consumed
    <3>5. Cardinality(A) <= MaxTracked => \A j : j # a => Get(addr.map, j) = Get(addrHits, j)
      BY <1>0, <1>3, <1>5, <2>1, <3>1, Consumed
    <3> QED BY <3>2, <3>3, <3>4, <3>5
  <2>4. \A j : Count(Get(addr.map, j), from) <= AddrMax
    BY <1>0, <1>3, <1>5, <2>1, <2>2, Limits, ConsumedWithin
  <2> QED BY <2>3, <2>4
<1>8. /\ x \in [conn : Conns, at : Nat, nth : Nat] /\ x \notin accepted
      /\ x.conn = c /\ x.at = clock /\ GoodHits(FramesOf(c) \union {x}, clock)
  BY FrameIsNew
<1>9. \A b : FramesFrom(b)' = IF ok /\ b = a THEN FramesFrom(b) \union {x} ELSE FramesFrom(b)
  <2> HIDE DEF x, ok
  <2> QED BY <1>1, <1>8 DEF FramesFrom
<1>10. \A d : FramesOf(d)' = IF ok /\ d = c THEN FramesOf(d) \union {x} ELSE FramesOf(d)
  <2> HIDE DEF x, ok
  <2> QED BY <1>1, <1>8 DEF FramesOf
<1> HIDE DEF conn, addr, K, A, x
<1>11. FramesOK'
  <2>1. GoodMap(connHits', K, clock') BY <1>1, <1>6
  <2>2. GoodMap(addrHits', A, clock') BY <1>1, <1>5, <1>7
  <2>3. accepted' \in SUBSET [conn : Conns, at : Nat, nth : Nat] /\ IsFiniteSet(accepted')
    BY <1>1, <1>8, FS_AddElement DEF FramesOK
  <2>4. \A f \in accepted' : f.at > clock' - Window BY <1>0, <1>1, <1>8 DEF FramesOK
  <2>5. ASSUME NEW d \in Conns PROVE GoodHits(FramesOf(d)', clock')
    BY <1>1, <1>8, <1>10 DEF FramesOK
  <2> QED BY <1>0, <1>1, <1>2, <1>3, <1>4, <2>1, <2>2, <2>3, <2>4, <2>5 DEF FramesOK
<1>12. ASSUME NEW b, NEW t \in Int, t >= from
       PROVE  /\ Count(FramesFrom(b), t) \in Nat /\ Count(Get(addrHits, b), t) \in Nat
              /\ Count(FramesFrom(b)', t) = IF ok /\ b = a /\ clock > t THEN Count(FramesFrom(b), t) + 1
                                            ELSE Count(FramesFrom(b), t)
  <2>1. IsFiniteSet(FramesFrom(b)) /\ x \notin FramesFrom(b) BY <1>8, FramesFinite DEF FramesFrom
  <2>2. Count(FramesFrom(b) \union {x}, t) =
          IF x.at > t THEN Count(FramesFrom(b), t) + 1 ELSE Count(FramesFrom(b), t)
    BY <1>0, <1>8, <2>1, CountMore
  <2>3. Count(FramesFrom(b), t) \in Nat BY <2>1, AfterFinite
  <2>4. IsFiniteSet(Get(addrHits, b)) BY <1>5, GetGood DEF GoodHits
  <2>5. Count(Get(addrHits, b), t) \in Nat BY <2>4, AfterFinite
  <2> HIDE DEF ok, a
  <2> QED BY <1>8, <1>9, <2>2, <2>3, <2>5
<1>13. ASSUME NEW d, NEW t \in Int, t >= from
       PROVE  /\ Count(FramesOf(d), t) \in Nat /\ Count(Get(connHits, d), t) \in Nat
              /\ Count(FramesOf(d)', t) = IF ok /\ d = c /\ clock > t THEN Count(FramesOf(d), t) + 1
                                          ELSE Count(FramesOf(d), t)
  <2>1. IsFiniteSet(FramesOf(d)) /\ x \notin FramesOf(d) BY <1>8, FramesFinite DEF FramesOf
  <2>2. Count(FramesOf(d) \union {x}, t) =
          IF x.at > t THEN Count(FramesOf(d), t) + 1 ELSE Count(FramesOf(d), t)
    BY <1>0, <1>8, <2>1, CountMore
  <2>3. Count(FramesOf(d), t) \in Nat BY <2>1, AfterFinite
  <2>4. IsFiniteSet(Get(connHits, d)) BY <1>5, GetGood DEF GoodHits
  <2>5. Count(Get(connHits, d), t) \in Nat BY <2>4, AfterFinite
  <2> HIDE DEF ok
  <2> QED BY <1>8, <1>10, <2>2, <2>3, <2>5
<1>14. ASSUME NEW b \in Addresses, NEW t \in Int, t >= from
       PROVE  /\ Count(Get(addrHits', b), t) <= Count(FramesFrom(b)', t)
              /\ Cardinality(A) <= MaxTracked => Count(FramesFrom(b)', t) <= Count(Get(addrHits', b), t)
  <2>1. Count(Get(addrHits, b), t) <= Count(FramesFrom(b), t) BY <1>14 DEF Charged, NoMore
  <2>2. Cardinality(A) <= MaxTracked => Count(FramesFrom(b), t) <= Count(Get(addrHits, b), t)
    BY <1>3, <1>14, Limits DEF Charged, NoMore
  <2>3. CASE ~conn.ok BY <1>1, <1>12, <1>14, <2>1, <2>2, <2>3
  <2>4. CASE conn.ok /\ b = a
    <3>1. addrHits' = addr.map BY <1>1, <2>4
    <3>2. Count(Get(addr.map, b), t) = IF ok /\ clock > t THEN Count(Get(addrHits, b), t) + 1
                                       ELSE Count(Get(addrHits, b), t)
      BY <1>7, <1>14, <2>4
    <3> HIDE DEF ok
    <3>3. Count(FramesFrom(b)', t) = IF ok /\ clock > t THEN Count(FramesFrom(b), t) + 1
                                     ELSE Count(FramesFrom(b), t)
      BY <1>12, <1>14, <2>4
    <3> QED BY <1>12, <1>14, <2>1, <2>2, <3>1, <3>2, <3>3
  <2>5. CASE conn.ok /\ b # a
    <3>1. addrHits' = addr.map BY <1>1, <2>5
    <3>2. Count(FramesFrom(b)', t) = Count(FramesFrom(b), t) BY <1>12, <1>14, <2>5
    <3>3. Get(addr.map, b) = Get(addrHits, b) \/ Get(addr.map, b) = {} BY <1>7, <2>5
    <3>4. Cardinality(A) <= MaxTracked => Get(addr.map, b) = Get(addrHits, b) BY <1>7, <2>5
    <3>5. Count({}, t) = 0 BY CountEmpty
    <3>6. Count(FramesFrom(b), t) \in Nat BY <1>12, <1>14
    <3> QED BY <2>1, <2>2, <3>1, <3>2, <3>3, <3>4, <3>5, <3>6
  <2> QED BY <2>3, <2>4, <2>5
<1>15. ASSUME NEW d \in Conns, NEW t \in Int, t >= from, Cardinality(K) <= MaxTracked
       PROVE  Count(FramesOf(d)', t) <= Count(Get(connHits', d), t)
  <2>1. Count(FramesOf(d), t) <= Count(Get(connHits, d), t)
    BY <1>2, <1>15, Limits DEF Charged, NoMore
  <2>2. CASE d = c
    <3>1. Count(Get(conn.map, d), t) = IF conn.ok /\ clock > t THEN Count(Get(connHits, d), t) + 1
                                       ELSE Count(Get(connHits, d), t)
      BY <1>6, <1>15, <2>2
    <3>2. Count(FramesOf(d)', t) = IF ok /\ clock > t THEN Count(FramesOf(d), t) + 1
                                     ELSE Count(FramesOf(d), t)
      BY <1>13, <1>15, <2>2
    <3>3. ok => conn.ok OBVIOUS
    <3>4. Count(FramesOf(d), t) \in Nat /\ Count(Get(connHits, d), t) \in Nat BY <1>13, <1>15
    <3> HIDE DEF ok
    <3> QED BY <1>1, <2>1, <3>1, <3>2, <3>3, <3>4
  <2>3. CASE d # c
    <3>1. Get(conn.map, d) = Get(connHits, d) BY <1>6, <1>15, <2>3
    <3>2. Count(FramesOf(d)', t) = Count(FramesOf(d), t) BY <1>13, <1>15, <2>3
    <3> QED BY <1>1, <2>1, <3>1, <3>2
  <2> QED BY <2>2, <2>3
<1>16. Charged'
  <2>1. clock' - Window = from BY <1>1
  <2> QED BY <1>1, <1>4, <1>14, <1>15, <2>1 DEF Charged, NoMore
<1>17. WithinLimits'
  <2>1. \A k : Count(Get(connHits', k), from) <= ConnMax BY <1>1, <1>6
  <2>2. \A k : Count(Get(addrHits', k), from) <= AddrMax BY <1>1, <1>7 DEF WithinLimits
  <2> QED BY <1>1, <2>1, <2>2 DEF WithinLimits
<1>18. RefusalEarned'
  <2> SUFFICES ASSUME last'.kind = "throttled", last'.dimension = "address"
               PROVE  Cardinality(FramesFrom(last.address)') >= AddrMax
    BY DEF RefusalEarned
  <2>1. ~addr.ok /\ ~ok /\ last'.address = a BY <1>1
  <2>2. FramesFrom(a)' = FramesFrom(a) BY <1>9, <2>1
  <2>3. Count(Get(addrHits, a), from) >= AddrMax BY <1>0, <1>7, <1>12, <2>1, Limits
  <2>4. Count(FramesFrom(a), from) >= AddrMax
    <3>1. Count(Get(addrHits, a), from) <= Count(FramesFrom(a), from) BY <1>0 DEF Charged, NoMore
    <3> QED BY <1>0, <1>12, <2>3, <3>1, Limits
  <2>5. Cardinality(FramesFrom(a)) >= AddrMax BY <2>4, FramesFinite
  <2>6. FramesFrom(last.address)' = FramesFrom(a)'  BY <2>1 DEF FramesFrom
  <2> QED BY <2>2, <2>5, <2>6
<1> QED BY <1>11, <1>16, <1>17, <1>18

(* Frames leave the window; the limiters look back no further. *)
LEMMA TickRates == ASSUME RateInv, Tick PROVE RateInv'
<1> USE DEF RateInv
<1> DEFINE from == clock + 1 - Window
<1>0. clock \in Nat /\ Window \in Nat \ {0} /\ from \in Int /\ clock - Window \in Int
      /\ from = (clock - Window) + 1
  BY Limits DEF FramesOK
<1>1. /\ clock' = clock + 1 /\ accepted' = {f \in accepted : f.at > from}
      /\ senders' = senders /\ connHits' = connHits /\ addrHits' = addrHits
      /\ last' = Quiet
  BY DEF Tick, limits
<1>2. SenderAddresses' = SenderAddresses /\ clock' - Window = from BY <1>0, <1>1 DEF SenderAddresses
<1>3. \A b : FramesFrom(b)' = After(FramesFrom(b), from) BY <1>1 DEF FramesFrom, After
<1>4. \A d : FramesOf(d)' = After(FramesOf(d), from) BY <1>1 DEF FramesOf, After
<1>5. ASSUME NEW S \in SUBSET accepted, NEW t \in Int, t >= from
      PROVE  Count(After(S, from), t) = Count(S, t)
  <2>1. \A f \in S : f.at \in Nat BY DEF FramesOK
  <2>2. After(After(S, from), t) = After(S, t) BY <1>0, <1>5, <2>1 DEF After
  <2> QED BY <2>2 DEF Count
<1> HIDE DEF from
<1>6. FramesOK'
  <2>1. clock' \in Nat BY <1>0, <1>1
  <2>2. GoodMap(connHits, senders, clock + 1) /\ GoodMap(addrHits, SenderAddresses, clock + 1)
    BY <1>0, LaterMap DEF FramesOK
  <2>3. accepted' \in SUBSET accepted BY <1>1
  <2>4. IsFiniteSet(accepted') BY <2>3, FS_Subset DEF FramesOK
  <2>5. accepted' \in SUBSET [conn : Conns, at : Nat, nth : Nat] BY <2>3 DEF FramesOK
  <2>6. \A f \in accepted' : f.at > clock' - Window BY <1>1, <1>2
  <2>7. ASSUME NEW d \in Conns PROVE GoodHits(FramesOf(d)', clock')
    <3>1. GoodHits(FramesOf(d), clock + 1) BY <1>0, LaterHits DEF FramesOK
    <3>2. FramesOf(d)' \in SUBSET FramesOf(d) BY <1>4 DEF After
    <3>3. IsFiniteSet(FramesOf(d)') BY <3>1, <3>2, FS_Subset DEF GoodHits
    <3>4. \A h \in FramesOf(d) : h.at \in Nat /\ h.at <= clock BY DEF FramesOK, GoodHits
    <3>5. \A n \in Nat : n <= clock => n <= clock + 1 /\ n # clock + 1 BY <1>0
    <3>6. \A h \in FramesOf(d)' : h.at \in Nat /\ h.at <= clock' /\ h.at # clock'
      BY <1>1, <3>2, <3>4, <3>5
    <3> QED BY <3>3, <3>6 DEF GoodHits
  <2> QED BY <1>1, <1>2, <2>1, <2>2, <2>4, <2>5, <2>6, <2>7 DEF FramesOK
<1>7. Charged'
  <2>1. clock' - Window = from BY <1>2
  <2>2. ASSUME NEW t \in Int, t >= from PROVE t >= clock - Window BY <1>0, <2>2
  <2>3. ASSUME NEW b, NEW t \in Int, t >= from
        PROVE  /\ Count(FramesFrom(b)', t) = Count(FramesFrom(b), t)
               /\ Count(FramesOf(b)', t) = Count(FramesOf(b), t)
    <3>1. FramesFrom(b) \in SUBSET accepted /\ FramesOf(b) \in SUBSET accepted BY FramesFinite
    <3> QED BY <1>3, <1>4, <1>5, <2>3, <3>1
  <2>4. ASSUME NEW b \in Addresses, NEW t \in Int, t >= from
        PROVE  /\ Count(Get(addrHits, b), t) <= Count(FramesFrom(b)', t)
               /\ Cardinality(SenderAddresses) <= MaxTracked =>
                    Count(FramesFrom(b)', t) <= Count(Get(addrHits, b), t)
    BY <2>2, <2>3, <2>4 DEF Charged, NoMore
  <2>5. ASSUME NEW d \in Conns, NEW t \in Int, t >= from, Cardinality(senders) <= MaxTracked
        PROVE  Count(FramesOf(d)', t) <= Count(Get(connHits, d), t)
    BY <2>2, <2>3, <2>5 DEF Charged, NoMore
  <2> QED BY <1>1, <1>2, <2>1, <2>4, <2>5 DEF Charged, NoMore
<1>8. WithinLimits'
  <2> SUFFICES ASSUME NEW k
               PROVE  /\ Count(Get(connHits, k), from) <= ConnMax
                      /\ Count(Get(addrHits, k), from) <= AddrMax
    BY <1>1, <1>2 DEF WithinLimits
  <2>1. /\ IsFiniteSet(Get(connHits, k)) /\ \A h \in Get(connHits, k) : h.at \in Nat
        /\ IsFiniteSet(Get(addrHits, k)) /\ \A h \in Get(addrHits, k) : h.at \in Nat
    BY GetGood DEF FramesOK, GoodHits
  <2>2. /\ Count(Get(connHits, k), (clock - Window) + 1) <= Count(Get(connHits, k), clock - Window)
        /\ Count(Get(addrHits, k), (clock - Window) + 1) <= Count(Get(addrHits, k), clock - Window)
    BY <1>0, <2>1, CountLater
  <2>3. /\ Count(Get(connHits, k), from) \in Nat /\ Count(Get(connHits, k), clock - Window) \in Nat
        /\ Count(Get(addrHits, k), from) \in Nat /\ Count(Get(addrHits, k), clock - Window) \in Nat
    BY <2>1, AfterFinite
  <2>4. /\ Count(Get(connHits, k), clock - Window) <= ConnMax
        /\ Count(Get(addrHits, k), clock - Window) <= AddrMax
    BY DEF WithinLimits
  <2> QED BY <1>0, <2>2, <2>3, <2>4, Limits DEF from
<1>9. RefusalEarned' BY <1>1 DEF RefusalEarned, Quiet
<1> QED BY <1>6, <1>7, <1>8, <1>9

LEMMA RateInit == ConnectionsInit => RateInv
<1> SUFFICES ASSUME ConnectionsInit PROVE RateInv OBVIOUS
<1>1. /\ clock = 0 /\ connHits = <<>> /\ addrHits = <<>> /\ last = Quiet
      /\ accepted = {} /\ senders = {} /\ SenderAddresses = {}
  BY DEF ConnectionsInit, SenderAddresses
<1>2. \A K : GoodMap(<<>>, K, clock) BY DEF GoodMap
<1>3. \A k : Get(connHits, k) = {} /\ Get(addrHits, k) = {} BY <1>1 DEF Get, Has
<1>4. \A k : FramesOf(k) = {} /\ FramesFrom(k) = {} BY <1>1 DEF FramesOf, FramesFrom
<1>5. FramesOK
  <2>1. GoodHits({}, clock) BY FS_EmptySet DEF GoodHits
  <2> QED BY <1>1, <1>2, <1>4, <2>1, FS_EmptySet DEF FramesOK
<1>6. \A t : Count({}, t) = 0 BY CountEmpty
<1>7. Charged
  <2>1. \A t : NoMore({}, {}, t) BY <1>6 DEF NoMore
  <2> QED BY <1>3, <1>4, <2>1 DEF Charged
<1>8. WithinLimits BY <1>3, <1>6, Limits DEF WithinLimits
<1>9. RefusalEarned BY <1>1 DEF RefusalEarned, Quiet
<1> QED BY <1>5, <1>7, <1>8, <1>9 DEF RateInv

LEMMA RateStep == ASSUME RateInv, [ConnectionsNext]_cvars PROVE RateInv'
<1> USE DEF RateInv
<1>1. ASSUME UNCHANGED <<clock, limits, accepted, senders>>, RefusalEarned' PROVE RateInv'
  <2>1. UNCHANGED <<clock, connHits, addrHits, accepted, senders, SenderAddresses>>
    BY <1>1 DEF limits, SenderAddresses
  <2>2. \A k : FramesOf(k)' = FramesOf(k) /\ FramesFrom(k)' = FramesFrom(k)
    BY <2>1 DEF FramesOf, FramesFrom
  <2>3. FramesOK' BY <2>1, <2>2 DEF FramesOK
  <2>4. Charged' BY <2>1, <2>2 DEF Charged
  <2>5. WithinLimits' BY <2>1 DEF WithinLimits
  <2> QED BY <1>1, <2>3, <2>4, <2>5
<1>2. ASSUME UNCHANGED <<clock, limits, accepted, senders>>, last'.kind # "throttled" PROVE RateInv'
  BY <1>1, <1>2 DEF RefusalEarned
<1>3. ASSUME NEW c \in Conns, NEW right \in BOOLEAN, Upgrade(c, right) PROVE RateInv'
  BY <1>2, <1>3 DEF Upgrade, Quiet
<1>4. ASSUME NEW c \in Conns, Message(c) PROVE RateInv' BY <1>4, MessageKeeps
<1>5. ASSUME NEW c \in Conns, Pong(c) PROVE RateInv' BY <1>2, <1>5 DEF Pong, Quiet
<1>6. ASSUME NEW c \in Conns, Vanish(c) PROVE RateInv' BY <1>2, <1>6 DEF Vanish, Quiet
<1>7. ASSUME NEW c \in Conns, Close(c) PROVE RateInv' BY <1>2, <1>7 DEF Close, Quiet
<1>8. CASE Heartbeat BY <1>2, <1>8 DEF Heartbeat, Quiet
<1>9. CASE Tick BY <1>9, TickRates
<1>10. CASE UNCHANGED cvars
  <2>1. UNCHANGED <<clock, limits, accepted, senders, last>> BY <1>10 DEF cvars
  <2>2. RefusalEarned' BY <2>1 DEF RefusalEarned, FramesFrom
  <2> QED BY <1>1, <2>1, <2>2
<1> QED BY <1>3, <1>4, <1>5, <1>6, <1>7, <1>8, <1>9, <1>10 DEF ConnectionsNext

(* MessageRateLimiter: a window lets through no more frames than the limits *)
(* of an address and of a connection while the maps can hold all that send, *)
(* and an address is refused only once its limit is used up, whatever its   *)
(* connections lost to their own limits and whichever entries were evicted. *)
THEOREM RatesTheorem == ConnectionsSpec => []RatesExact
<1>1. RateInv /\ [ConnectionsNext]_cvars => RateInv' BY RateStep
<1>2. RateInv => RatesExact BY InvBounds
<1> QED BY <1>1, <1>2, RateInit, PTL DEF ConnectionsSpec

-----------------------------------------------------------------------------
(* Wrong secrets.                                                          *)

FailuresOK ==
  /\ clock \in Nat
  /\ sources \in SUBSET Addresses /\ IsFiniteSet(sources)
  /\ GoodMap(failures, sources, clock)
  /\ wrong \in [Addresses -> SUBSET Hits]
  /\ \A a \in Addresses : /\ GoodHits(wrong[a], clock)
                          /\ \A h \in wrong[a] : h.at > clock - FailureWindow

(* The limiter has counted only failures since the last right secret, and   *)
(* all of them while it could keep every source; without a secret there is  *)
(* nothing to count.                                                        *)
Counted ==
  /\ \A a \in Addresses :
       /\ NoMore(Get(failures, a), wrong[a], clock - FailureWindow)
       /\ Cardinality(sources) <= MaxTracked => NoMore(wrong[a], Get(failures, a), clock - FailureWindow)
  /\ ~secret => failures = <<>> /\ wrong = [a \in Addresses |-> {}]

FailureInv == FailuresOK /\ Counted /\ ThrottleExact

LEMMA WrongCount ==
  ASSUME FailuresOK, NEW a \in Addresses
  PROVE  /\ Cardinality(wrong[a]) = Count(wrong[a], clock - FailureWindow)
         /\ \A t : Count(wrong[a], t) \in Nat /\ Count(Get(failures, a), t) \in Nat
<1>1. After(wrong[a], clock - FailureWindow) = wrong[a] BY DEF FailuresOK, After
<1>2. IsFiniteSet(wrong[a]) BY DEF FailuresOK, GoodHits
<1>3. IsFiniteSet(Get(failures, a)) BY GetGood DEF FailuresOK, GoodHits
<1> QED BY <1>1, <1>2, <1>3, AfterFinite DEF Count

(* recordFailure adds one time to what is left of its address. *)
LEMMA FailureRecorded ==
  ASSUME FailuresOK, NEW a \in Addresses
  PROVE  LET K == sources \union {a} IN
         /\ GoodMap(RecordFailure(a), K, clock)
         /\ \A t \in Int : t >= clock - FailureWindow =>
              Count(Get(RecordFailure(a), a), t) =
                IF clock > t THEN Count(Get(failures, a), t) + 1 ELSE Count(Get(failures, a), t)
         /\ \A b : b # a => Get(RecordFailure(a), b) \in {Get(failures, b), {}}
         /\ Cardinality(K) <= MaxTracked => \A b : b # a => Get(RecordFailure(a), b) = Get(failures, b)
<1> DEFINE K == sources \union {a}
           old == Get(failures, a)
           kept == Within(old, FailureWindow)
           room == Room(failures, a)
           base == IF kept = {} THEN Drop(room, a) ELSE room
           new == RecordFailure(a)
           x == Hit(kept)
           v == Recorded(kept)
<1>0. clock \in Nat /\ K \in SUBSET Keys /\ IsFiniteSet(K) /\ a \in K
  <2>1. IsFiniteSet(K) BY FS_AddElement DEF FailuresOK
  <2> QED BY <2>1 DEF FailuresOK, Keys
<1>1. GoodMap(failures, K, clock) BY LargerMap DEF FailuresOK
<1>2. old \in SUBSET Hits /\ GoodHits(old, clock) BY <1>1, GetGood
<1>3. /\ kept \in SUBSET Hits /\ GoodHits(kept, clock)
      /\ \A t \in Int : t >= clock - FailureWindow => Count(kept, t) = Count(old, t)
  <2> HIDE DEF old
  <2> QED BY <1>0, <1>2, WithinGood, Limits
<1>4. new = Put(base, a, v) BY DEF RecordFailure
<1> HIDE DEF old, kept, new, K
<1>5. x \in Hits /\ x \notin kept /\ x.at = clock /\ GoodHits(v, clock) BY <1>0, <1>3, HitIsNew
<1>6. v \in SUBSET Hits /\ v = kept \union {x} BY <1>3, <1>5 DEF Recorded
<1>7. /\ GoodMap(room, K, clock) /\ \A b : Get(room, b) \in {Get(failures, b), {}}
      /\ Cardinality(K) <= MaxTracked => room = failures
  BY <1>0, <1>1, RoomGood
<1> HIDE DEF room, v, x
<1>8. GoodMap(base, K, clock) /\ \A b : b # a => Get(base, b) = Get(room, b)
  BY <1>7, DropGood
<1> HIDE DEF base
<1>9. /\ GoodMap(new, K, clock) /\ Get(new, a) = v
      /\ \A b : b # a => Get(new, b) = Get(base, b)
  BY <1>0, <1>4, <1>5, <1>6, <1>8, PutGood
<1>10. ASSUME NEW t \in Int, t >= clock - FailureWindow
       PROVE  Count(Get(new, a), t) = IF clock > t THEN Count(old, t) + 1 ELSE Count(old, t)
  <2>1. IsFiniteSet(kept) BY <1>3 DEF GoodHits
  <2>2. Count(kept \union {x}, t) = IF x.at > t THEN Count(kept, t) + 1 ELSE Count(kept, t)
    BY <1>0, <1>5, <1>10, <2>1, CountMore
  <2>3. Count(kept, t) = Count(old, t) BY <1>3, <1>10
  <2> QED BY <1>5, <1>6, <1>9, <2>2, <2>3
<1>11. \A b : b # a => Get(new, b) \in {Get(failures, b), {}} BY <1>7, <1>8, <1>9
<1>12. Cardinality(K) <= MaxTracked => \A b : b # a => Get(new, b) = Get(failures, b)
  BY <1>7, <1>8, <1>9
<1> QED BY <1>9, <1>10, <1>11, <1>12 DEF K, new, old

(* A right secret clears its address, however many wrong ones it followed. *)
LEMMA RightKeeps ==
  ASSUME FailureInv, NEW c \in Conns, Upgrade(c, TRUE) PROVE FailureInv'
<1> USE DEF FailureInv
<1> DEFINE a == AddressOf[c]
           from == clock - FailureWindow
<1>0. a \in Addresses /\ clock \in Nat BY ConnectionsAssumption DEF FailuresOK
<1>1. /\ failures' = IF secret THEN Drop(failures, a) ELSE failures
      /\ wrong' = [wrong EXCEPT ![a] = {}]
      /\ last' = Quiet /\ UNCHANGED <<clock, sources, secret>>
  BY DEF Upgrade, RecordSuccess, settings
<1> HIDE DEF a
<1>2. \A b \in Addresses : wrong'[b] = IF b = a THEN {} ELSE wrong[b] BY <1>0, <1>1 DEF FailuresOK
<1>3. /\ GoodMap(failures', sources, clock)
      /\ Get(failures', a) = {} /\ \A b : b # a => Get(failures', b) = Get(failures, b)
  <2>1. GoodMap(failures, sources, clock) BY DEF FailuresOK
  <2>2. CASE secret
    <3>1. failures' = Drop(failures, a) BY <1>1, <2>2
    <3> QED BY <2>1, <3>1, DropGood
  <2>3. CASE ~secret
    <3>1. failures' = failures /\ failures = <<>> BY <1>1, <2>3 DEF Counted
    <3>2. Get(failures, a) = {} BY <3>1 DEF Get, Has
    <3> QED BY <2>1, <3>1, <3>2
  <2> QED BY <2>2, <2>3
<1>4. GoodHits({}, clock) BY FS_EmptySet DEF GoodHits
<1>5. FailuresOK'
  <2>1. wrong' \in [Addresses -> SUBSET Hits] BY <1>1 DEF FailuresOK
  <2>2. \A b \in Addresses : GoodHits(wrong'[b], clock) /\ \A h \in wrong'[b] : h.at > from
    BY <1>2, <1>4 DEF FailuresOK
  <2> QED BY <1>1, <1>3, <2>1, <2>2 DEF FailuresOK
<1>6. Counted'
  <2>1. NoMore({}, {}, from) BY CountEmpty DEF NoMore
  <2>2. ASSUME NEW b \in Addresses
        PROVE  /\ NoMore(Get(failures', b), wrong'[b], from)
               /\ Cardinality(sources) <= MaxTracked => NoMore(wrong'[b], Get(failures', b), from)
    <3>1. CASE b = a BY <1>2, <1>3, <2>1, <3>1
    <3>2. CASE b # a
      <4>1. Get(failures', b) = Get(failures, b) /\ wrong'[b] = wrong[b] BY <1>2, <1>3, <3>2
      <4> QED BY <4>1 DEF Counted
    <3> QED BY <3>1, <3>2
  <2>3. ~secret => failures' = <<>> /\ wrong' = [b \in Addresses |-> {}]
    BY <1>0, <1>1 DEF Counted
  <2> QED BY <1>1, <2>2, <2>3 DEF Counted
<1>7. ThrottleExact' BY <1>1 DEF ThrottleExact, Quiet
<1> QED BY <1>5, <1>6, <1>7

(* A wrong one is recorded, and then judged. *)
LEMMA WrongKeeps ==
  ASSUME FailureInv, NEW c \in Conns, Upgrade(c, FALSE) PROVE FailureInv'
<1> USE DEF FailureInv
<1> DEFINE a == AddressOf[c]
           from == clock - FailureWindow
           K == sources \union {a}
           new == RecordFailure(a)
           x == Hit(wrong[a])
<1>0. a \in Addresses /\ clock \in Nat /\ FailureWindow \in Nat \ {0} /\ from \in Int /\ from >= from
      /\ clock > from
  BY ConnectionsAssumption, Limits DEF FailuresOK
<1>1. /\ secret /\ failures' = new
      /\ wrong' = [wrong EXCEPT ![a] = Recorded(wrong[a])]
      /\ last' = [kind |-> "refused", address |-> a, status |-> IF IsBlocked(new, a) THEN 429 ELSE 401]
      /\ sources' = K /\ UNCHANGED <<clock, secret>>
  BY DEF Upgrade, settings
<1>2. /\ GoodMap(new, K, clock)
      /\ \A t \in Int : t >= from =>
           Count(Get(new, a), t) =
             IF clock > t THEN Count(Get(failures, a), t) + 1 ELSE Count(Get(failures, a), t)
      /\ \A b : b # a => Get(new, b) \in {Get(failures, b), {}}
      /\ Cardinality(K) <= MaxTracked => \A b : b # a => Get(new, b) = Get(failures, b)
  BY <1>0, FailureRecorded
<1>3. /\ x \in Hits /\ x \notin wrong[a] /\ x.at = clock
      /\ GoodHits(Recorded(wrong[a]), clock) /\ Recorded(wrong[a]) = wrong[a] \union {x}
  <2>1. GoodHits(wrong[a], clock) BY <1>0 DEF FailuresOK
  <2> QED BY <1>0, <2>1, HitIsNew DEF Recorded
<1> HIDE DEF a, new, x
<1>4. /\ K \in SUBSET Addresses /\ IsFiniteSet(K)
      /\ Cardinality(sources) \in Nat /\ Cardinality(K) \in Nat /\ Cardinality(sources) <= Cardinality(K)
  <2>1. IsFiniteSet(sources) /\ sources \in SUBSET K BY DEF FailuresOK
  <2>2. IsFiniteSet(K) BY <2>1, FS_AddElement
  <2>3. K \in SUBSET Addresses BY <1>0 DEF FailuresOK
  <2> HIDE DEF K
  <2> QED BY <2>1, <2>2, <2>3, FS_Subset, FS_CardinalityType
<1> HIDE DEF K
<1>5. \A b \in Addresses : wrong'[b] = IF b = a THEN wrong[a] \union {x} ELSE wrong[b]
  BY <1>0, <1>1, <1>3 DEF FailuresOK
<1>6. FailuresOK'
  <2>1. wrong' \in [Addresses -> SUBSET Hits] BY <1>0, <1>1, <1>3 DEF FailuresOK
  <2>2. \A b \in Addresses : GoodHits(wrong'[b], clock) /\ \A h \in wrong'[b] : h.at > from
    BY <1>0, <1>3, <1>5 DEF FailuresOK
  <2> QED BY <1>1, <1>2, <1>4, <2>1, <2>2 DEF FailuresOK
<1>7. ASSUME NEW t \in Int, t >= from
      PROVE  Count(wrong'[a], t) = IF clock > t THEN Count(wrong[a], t) + 1 ELSE Count(wrong[a], t)
  <2>1. IsFiniteSet(wrong[a]) BY <1>0 DEF FailuresOK, GoodHits
  <2>2. Count(wrong[a] \union {x}, t) = IF x.at > t THEN Count(wrong[a], t) + 1 ELSE Count(wrong[a], t)
    BY <1>0, <1>3, <2>1, CountMore
  <2> QED BY <1>0, <1>3, <1>5, <2>2
<1>8. ASSUME NEW b \in Addresses, NEW t \in Int, t >= from
      PROVE  /\ Count(Get(new, b), t) <= Count(wrong'[b], t)
             /\ Cardinality(K) <= MaxTracked => Count(wrong'[b], t) <= Count(Get(new, b), t)
  <2>1. Count(Get(failures, b), t) <= Count(wrong[b], t) BY <1>8 DEF Counted, NoMore
  <2>2. Cardinality(K) <= MaxTracked => Count(wrong[b], t) <= Count(Get(failures, b), t)
    BY <1>4, <1>8, Limits DEF Counted, NoMore
  <2>3. Count(wrong[b], t) \in Nat /\ Count(Get(failures, b), t) \in Nat BY WrongCount
  <2>4. CASE b = a BY <1>2, <1>7, <1>8, <2>1, <2>2, <2>3, <2>4
  <2>5. CASE b # a
    <3>1. Get(new, b) = Get(failures, b) \/ Get(new, b) = {} BY <1>2, <2>5
    <3>2. Cardinality(K) <= MaxTracked => Get(new, b) = Get(failures, b) BY <1>2, <2>5
    <3>3. Count({}, t) = 0 BY CountEmpty
    <3>4. wrong'[b] = wrong[b] BY <1>5, <2>5
    <3> QED BY <2>1, <2>2, <2>3, <3>1, <3>2, <3>3, <3>4
  <2> QED BY <2>4, <2>5
<1>9. Counted' BY <1>1, <1>8 DEF Counted, NoMore
<1>10. ThrottleExact'
  <2>1. IsBlocked(new, a) <=> Count(Get(new, a), from) >= MaxFailures
    <3>1. Get(new, a) \in SUBSET Hits /\ GoodHits(Get(new, a), clock) BY <1>2, GetGood
    <3>2. Cardinality(Within(Get(new, a), FailureWindow)) = Count(Get(new, a), from)
      BY <1>0, <3>1, WithinGood
    <3> QED BY <3>2 DEF IsBlocked
  <2>2. Cardinality(wrong'[a]) = Count(wrong'[a], from)
    <3>1. After(wrong'[a], from) = wrong'[a] BY <1>0, <1>1, <1>6 DEF FailuresOK, After
    <3> QED BY <3>1 DEF Count
  <2>3. /\ Count(Get(new, a), from) <= Count(wrong'[a], from)
        /\ Cardinality(K) <= MaxTracked => Count(wrong'[a], from) <= Count(Get(new, a), from)
    BY <1>0, <1>8
  <2>4. Count(Get(new, a), from) \in Nat /\ Count(wrong'[a], from) \in Nat
    BY <1>0, <1>2, <1>7, WrongCount
  <2>5. last'.address = a /\ (last'.status = 429 <=> IsBlocked(new, a)) BY <1>1
  <2>6. last'.status = 429 => Cardinality(wrong'[a]) >= MaxFailures
    BY <2>1, <2>2, <2>3, <2>4, <2>5, Limits
  <2>7. Cardinality(K) <= MaxTracked /\ Cardinality(wrong'[a]) >= MaxFailures => last'.status = 429
    BY <2>1, <2>2, <2>3, <2>4, <2>5, Limits
  <2> QED BY <1>1, <2>5, <2>6, <2>7 DEF ThrottleExact
<1> QED BY <1>6, <1>9, <1>10

LEMMA TickFailures == ASSUME FailureInv, Tick PROVE FailureInv'
<1> USE DEF FailureInv
<1> DEFINE from == clock + 1 - FailureWindow
<1>0. clock \in Nat /\ FailureWindow \in Nat \ {0} /\ from \in Int /\ from >= clock - FailureWindow
  BY Limits DEF FailuresOK
<1>1. /\ clock' = clock + 1 /\ wrong' = [a \in Addresses |-> After(wrong[a], from)]
      /\ failures' = failures /\ sources' = sources /\ secret' = secret /\ last' = Quiet
      /\ clock' - FailureWindow = from
  BY <1>0 DEF Tick, settings, After
<1> HIDE DEF from
<1>2. \A a \in Addresses : wrong'[a] = After(wrong[a], from) BY <1>1
<1>3. FailuresOK'
  <2>1. GoodMap(failures, sources, clock + 1) BY <1>0, LaterMap DEF FailuresOK
  <2>2. wrong' \in [Addresses -> SUBSET Hits] BY <1>1 DEF FailuresOK, After
  <2>3. ASSUME NEW a \in Addresses
        PROVE  GoodHits(wrong'[a], clock + 1) /\ \A h \in wrong'[a] : h.at > from
    <3>1. wrong'[a] \in SUBSET wrong[a] BY <1>2 DEF After
    <3>2. IsFiniteSet(wrong'[a]) BY <3>1, FS_Subset DEF FailuresOK, GoodHits
    <3>3. \A h \in wrong[a] : h.at \in Nat /\ h.at <= clock BY DEF FailuresOK, GoodHits
    <3>4. \A n \in Nat : n <= clock => n <= clock + 1 /\ n # clock + 1 BY <1>0
    <3>5. \A h \in wrong'[a] : h.at \in Nat /\ h.at <= clock + 1 /\ h.at # clock + 1
      BY <3>1, <3>3, <3>4
    <3> QED BY <1>2, <3>2, <3>5 DEF GoodHits, After
  <2>4. clock' \in Nat BY <1>0, <1>1
  <2> QED BY <1>1, <2>1, <2>2, <2>3, <2>4 DEF FailuresOK
<1>4. ASSUME NEW a \in Addresses, NEW t \in Int, t >= from
      PROVE  Count(wrong'[a], t) = Count(wrong[a], t) /\ t >= clock - FailureWindow
  <2>1. \A h \in wrong[a] : h.at \in Nat BY DEF FailuresOK, GoodHits
  <2>2. After(After(wrong[a], from), t) = After(wrong[a], t) BY <1>0, <1>4, <2>1 DEF After
  <2> QED BY <1>0, <1>2, <1>4, <2>2 DEF Count
<1>5. Counted'
  <2>1. ASSUME NEW a \in Addresses, NEW t \in Int, t >= from
        PROVE  /\ Count(Get(failures, a), t) <= Count(wrong'[a], t)
               /\ Cardinality(sources) <= MaxTracked => Count(wrong'[a], t) <= Count(Get(failures, a), t)
    BY <1>4, <2>1 DEF Counted, NoMore
  <2>2. ~secret => failures = <<>> /\ wrong' = [a \in Addresses |-> {}]
    <3>1. After({}, from) = {} BY DEF After
    <3>2. ~secret => \A a \in Addresses : wrong[a] = {} BY DEF Counted
    <3>3. ~secret => \A a \in Addresses : wrong'[a] = {} BY <1>2, <3>1, <3>2
    <3> QED BY <1>1, <3>1, <3>2, <3>3 DEF Counted
  <2> QED BY <1>1, <2>1, <2>2 DEF Counted, NoMore
<1>6. ThrottleExact' BY <1>1 DEF ThrottleExact, Quiet
<1> QED BY <1>3, <1>5, <1>6

LEMMA FailureInit == ConnectionsInit => FailureInv
<1> SUFFICES ASSUME ConnectionsInit PROVE FailureInv OBVIOUS
<1>1. /\ clock = 0 /\ failures = <<>> /\ last = Quiet /\ sources = {}
      /\ wrong = [a \in Addresses |-> {}]
  BY DEF ConnectionsInit
<1>2. GoodMap(failures, sources, clock) BY <1>1 DEF GoodMap
<1>3. \A k : Get(failures, k) = {} BY <1>1 DEF Get, Has
<1>4. GoodHits({}, clock) BY FS_EmptySet DEF GoodHits
<1>5. FailuresOK BY <1>1, <1>2, <1>4, FS_EmptySet DEF FailuresOK
<1>6. \A t : NoMore({}, {}, t) BY CountEmpty DEF NoMore
<1>7. Counted BY <1>1, <1>3, <1>6 DEF Counted
<1>8. ThrottleExact BY <1>1 DEF ThrottleExact, Quiet
<1> QED BY <1>5, <1>7, <1>8 DEF FailureInv

LEMMA FailureStep == ASSUME FailureInv, [ConnectionsNext]_cvars PROVE FailureInv'
<1> USE DEF FailureInv
<1>1. ASSUME UNCHANGED <<clock, secret, failed>>, ThrottleExact' PROVE FailureInv'
  <2>1. UNCHANGED <<clock, secret, failures, wrong, sources>> BY <1>1 DEF failed
  <2> QED BY <1>1, <2>1 DEF FailuresOK, Counted
<1>2. ASSUME UNCHANGED <<clock, secret, failed>>, last'.kind # "refused" PROVE FailureInv'
  BY <1>1, <1>2 DEF ThrottleExact
<1>3. ASSUME NEW c \in Conns, NEW right \in BOOLEAN, Upgrade(c, right) PROVE FailureInv'
  BY <1>3, RightKeeps, WrongKeeps
<1>4. ASSUME NEW c \in Conns, Message(c) PROVE FailureInv' BY <1>2, <1>4 DEF Message, settings, Quiet
<1>5. ASSUME NEW c \in Conns, Pong(c) PROVE FailureInv' BY <1>2, <1>5 DEF Pong, settings, Quiet
<1>6. ASSUME NEW c \in Conns, Vanish(c) PROVE FailureInv' BY <1>2, <1>6 DEF Vanish, settings, Quiet
<1>7. ASSUME NEW c \in Conns, Close(c) PROVE FailureInv' BY <1>2, <1>7 DEF Close, settings, Quiet
<1>8. CASE Heartbeat BY <1>2, <1>8 DEF Heartbeat, settings, Quiet
<1>9. CASE Tick BY <1>9, TickFailures
<1>10. CASE UNCHANGED cvars
  <2>1. UNCHANGED <<clock, secret, failed, last>> BY <1>10 DEF cvars, settings
  <2>2. ThrottleExact' BY <2>1 DEF ThrottleExact, failed
  <2> QED BY <1>1, <2>1, <2>2
<1> QED BY <1>3, <1>4, <1>5, <1>6, <1>7, <1>8, <1>9, <1>10 DEF ConnectionsNext

(* FailedAuthLimiter: a 429 means MaxFailures wrong secrets of the address  *)
(* in the window since its last right one, and that many always mean a 429  *)
(* while the map can hold every address that failed.                        *)
THEOREM ThrottleTheorem == ConnectionsSpec => []ThrottleExact
<1>1. FailureInv /\ [ConnectionsNext]_cvars => FailureInv' BY FailureStep
<1>2. FailureInv => ThrottleExact BY DEF FailureInv
<1> QED BY <1>1, <1>2, FailureInit, PTL DEF ConnectionsSpec

=============================================================================
