---------------------------- MODULE Connections ----------------------------
(***************************************************************************)
(* The limits a connection meets besides capacity (wsproxy.ts): wrong      *)
(* secrets are counted by address (FailedAuthLimiter), frames by           *)
(* connection and by address (MessageRateLimiter over two                  *)
(* SlidingWindowLimiters), and a peer that stops answering pings is        *)
(* terminated (HeartbeatMonitor).  Time is a clock of ticks; timers fire   *)
(* on time, and several things may happen within a tick.                   *)
(***************************************************************************)
EXTENDS Integers, Sequences, FiniteSets, SequencesExt, FiniteSetsExt

CONSTANTS
  Conns,          \* sockets; a socket id is never used again
  Addresses,
  AddressOf,      \* the resolved address of each socket
  ConnMax, AddrMax, Window,        \* frames in a window of ticks
  MaxFailures, FailureWindow,
  MaxTracked,     \* entries a limiter may keep
  Interval, Timeout,               \* of the heartbeat
  PongDelay,      \* a peer that is there answers a ping within as many ticks
  MaxClock,       \* bound of the model
  None

ASSUME ConnectionsAssumption ==
  /\ AddressOf \in [Conns -> Addresses]
  /\ {Interval, Timeout, PongDelay} \subseteq Nat /\ None \notin Nat
  /\ Interval > 0 /\ Interval + PongDelay <= Timeout
  /\ {Window, FailureWindow, ConnMax, AddrMax, MaxFailures, MaxTracked} \subseteq Nat \ {0}
  /\ AddrMax >= ConnMax

VARIABLES
  beating,      \* WS_HEARTBEAT_ENABLED
  secret,       \* AUTH_MODE=shared-secret
  clock,
  state,        \* of a socket: "new", "open", "gone" (half-open), "dead" (terminated), "closed"
  seen,         \* HeartbeatMonitor.lastSeen; None: not tracked
  pings,        \* times of the pings a peer has yet to answer
  swept,        \* the heartbeat timer has fired in this tick
  connHits, addrHits, failures,    \* the limiters' maps
  last,         \* the last decision
  accepted,     \* history: the frames let through in this window, by socket
  senders,      \* history: the sockets that sent a frame
  wrong,        \* history: wrong secrets by address in this window, since the last right one
  sources       \* history: the addresses that gave a wrong secret

beat == <<state, seen, pings, swept>>
limits == <<connHits, addrHits>>
settings == <<beating, secret>>
failed == <<failures, wrong, sources>>
cvars == <<settings, clock, beat, limits, last, accepted, senders, failed>>

Keys == Conns \union Addresses
Quiet == [kind |-> "quiet"]

ConnectionsInit ==
  /\ beating \in BOOLEAN /\ secret \in BOOLEAN
  /\ clock = 0 /\ swept = TRUE
  /\ state = [c \in Conns |-> "new"] /\ seen = [c \in Conns |-> None]
  /\ pings = [c \in Conns |-> {}]
  /\ connHits = <<>> /\ addrHits = <<>> /\ failures = <<>>
  /\ last = Quiet
  /\ accepted = {} /\ senders = {}
  /\ wrong = [a \in Addresses |-> {}] /\ sources = {}

-----------------------------------------------------------------------------
(* The times a limiter keeps for a key are a set of hits; nth tells apart   *)
(* the ones of the same tick.                                               *)
Hit(hits) == [at |-> clock, nth |-> Cardinality({h \in hits : h.at = clock})]
Recorded(hits) == hits \union {Hit(hits)}
Within(hits, width) == {h \in hits : h.at > clock - width}

(* A JavaScript Map keeps its entries in the order their keys were added. *)
Has(map, k) == \E i \in DOMAIN map : map[i].key = k
Index(map, k) == CHOOSE i \in DOMAIN map : map[i].key = k
Get(map, k) == IF Has(map, k) THEN map[Index(map, k)].value ELSE {}
Drop(map, k) ==
  IF Has(map, k)
  THEN [i \in 1 .. Len(map) - 1 |-> map[IF i < Index(map, k) THEN i ELSE i + 1]]
  ELSE map
Put(map, k, v) ==
  IF Has(map, k)
  THEN [map EXCEPT ![Index(map, k)] = [key |-> k, value |-> v]]
  ELSE Append(map, [key |-> k, value |-> v])

(* The oldest key makes room for a new one. *)
Room(map, k) == IF ~Has(map, k) /\ Len(map) >= MaxTracked THEN Tail(map) ELSE map

(* Mutant of TryConsume: a request at the limit is let through. *)
TryConsumeOneMore(map, k, max) ==
  LET kept == Within(Get(map, k), Window)
  IN  IF Cardinality(kept) > max THEN [ok |-> FALSE, map |-> Put(map, k, kept)]
      ELSE [ok |-> TRUE, map |-> Put(Room(map, k), k, Recorded(kept))]

(* SlidingWindowLimiter.tryConsume: a refused request is not recorded. *)
TryConsume(map, k, max) ==
  LET kept == Within(Get(map, k), Window)
  IN  IF Cardinality(kept) >= max THEN [ok |-> FALSE, map |-> Put(map, k, kept)]
      ELSE [ok |-> TRUE, map |-> Put(Room(map, k), k, Recorded(kept))]

(* MessageRateLimiter.check: the connection first, and the address only if  *)
(* the connection had room.  Whether a refusal is told to the client        *)
(* (shouldNotify) changes nothing here.                                     *)
Check(c, a) ==
  LET conn == TryConsume(connHits, c, ConnMax)
      addr == TryConsume(addrHits, a, AddrMax)
  IN  IF ~conn.ok
      THEN [allowed |-> FALSE, dimension |-> "connection", conns |-> conn.map, addrs |-> addrHits]
      ELSE [allowed |-> addr.ok, dimension |-> "address", conns |-> conn.map, addrs |-> addr.map]

-----------------------------------------------------------------------------
(* markAlive: only a tracked peer. *)
MarkAlive(c) == IF seen[c] = None THEN seen ELSE [seen EXCEPT ![c] = clock]

(* FailedAuthLimiter: recordFailure, where a source without recent failures *)
(* moves to the end, and isBlocked.                                         *)
RecordFailure(a) ==
  LET kept == Within(Get(failures, a), FailureWindow)
      room == Room(failures, a)
  IN  Put(IF kept = {} THEN Drop(room, a) ELSE room, a, Recorded(kept))

IsBlocked(map, a) == Cardinality(Within(Get(map, a), FailureWindow)) >= MaxFailures

(* Mutant of RecordSuccess: earlier failures stay. *)
RecordSuccessKeeps(a) == failures

RecordSuccess(a) == Drop(failures, a)

(* An upgrade.  A secret is looked at before the limiter; a right one       *)
(* clears the address and opens the socket.                                 *)
Upgrade(c, right) ==
  LET a == AddressOf[c]
      recorded == RecordFailure(a)
  IN  /\ state[c] = "new" /\ (right \/ secret)
      /\ Cardinality(wrong[a]) <= MaxFailures    \* bound of the model
      /\ IF right
         THEN /\ failures' = IF secret THEN RecordSuccess(a) ELSE failures
              /\ wrong' = [wrong EXCEPT ![a] = {}]
              /\ last' = Quiet
              /\ state' = [state EXCEPT ![c] = "open"]
              /\ seen' = IF beating THEN [seen EXCEPT ![c] = clock] ELSE seen
              /\ UNCHANGED sources
         ELSE /\ failures' = recorded
              /\ wrong' = [wrong EXCEPT ![a] = Recorded(@)]
              /\ last' = [kind |-> "refused", address |-> a,
                          status |-> IF IsBlocked(recorded, a) THEN 429 ELSE 401]
              /\ sources' = sources \union {a}
              /\ UNCHANGED <<state, seen>>
      /\ UNCHANGED <<settings, clock, pings, swept, limits, accepted, senders>>

(* A frame of c in the history, told apart like a hit. *)
FramesOf(c) == {f \in accepted : f.conn = c}
Frame(c) == [conn |-> c, at |-> clock, nth |-> Hit(FramesOf(c)).nth]

(* A frame: proof of life, then the limits, then parse and forward. *)
Message(c) ==
  LET decision == Check(c, AddressOf[c])
  IN  /\ state[c] = "open"
      /\ seen' = MarkAlive(c)
      /\ connHits' = decision.conns /\ addrHits' = decision.addrs
      /\ senders' = senders \union {c}
      /\ IF decision.allowed
         THEN /\ accepted' = accepted \union {Frame(c)}
              /\ last' = Quiet
         ELSE /\ last' = [kind |-> "throttled", dimension |-> decision.dimension, address |-> AddressOf[c]]
              /\ UNCHANGED accepted
      /\ UNCHANGED <<settings, clock, state, pings, swept, failed>>

(* A pong, perhaps of a socket that was just terminated. *)
Pong(c) ==
  /\ pings[c] # {} /\ state[c] \in {"open", "dead"}
  /\ pings' = [pings EXCEPT ![c] = @ \ {Min(@)}]
  /\ seen' = MarkAlive(c)
  /\ last' = Quiet
  /\ UNCHANGED <<settings, clock, state, swept, limits, accepted, senders, failed>>

(* The peer loses its network; nothing tells the proxy. *)
Vanish(c) ==
  /\ state[c] = "open"
  /\ state' = [state EXCEPT ![c] = "gone"] /\ last' = Quiet
  /\ UNCHANGED <<settings, clock, seen, pings, swept, limits, accepted, senders, failed>>

(* The close event, of the peer's doing or after a termination. *)
Close(c) ==
  /\ state[c] \in {"open", "dead"}
  /\ state' = [state EXCEPT ![c] = "closed"]
  /\ seen' = [seen EXCEPT ![c] = None] /\ pings' = [pings EXCEPT ![c] = {}]
  /\ last' = Quiet
  /\ UNCHANGED <<settings, clock, swept, limits, accepted, senders, failed>>

(* Mutant of Expired: a peer exactly at the timeout is silent too. *)
ExpiredAt(c) == seen[c] # None /\ seen[c] <= clock - Timeout

(* Mutant of Expired: only what was never pinged counts. *)
ExpiredUnpinged(c) == seen[c] # None /\ seen[c] < clock - Timeout /\ pings[c] = {}

Expired(c) == seen[c] # None /\ seen[c] < clock - Timeout

(* The heartbeat timer: terminate the silent, then ping who is left in      *)
(* server.sockets (a terminated socket stays there until its close event).  *)
Heartbeat ==
  /\ beating /\ ~swept /\ clock % Interval = 0
  /\ swept' = TRUE /\ last' = Quiet
  /\ state' = [c \in Conns |-> IF Expired(c) THEN "dead" ELSE state[c]]
  /\ seen' = [c \in Conns |-> IF Expired(c) THEN None ELSE seen[c]]
  /\ pings' = [c \in Conns |-> IF state[c] \in {"open", "gone"} THEN pings[c] \union {clock}
                               ELSE pings[c]]
  /\ UNCHANGED <<settings, clock, limits, accepted, senders, failed>>

(* Time passes once the timer has fired, terminated sockets have closed and *)
(* the pongs of live peers are in.                                          *)
Tick ==
  /\ clock < MaxClock
  /\ swept \/ ~beating \/ clock % Interval # 0
  /\ \A c \in Conns : /\ state[c] # "dead"
                      /\ state[c] = "open" => \A t \in pings[c] : clock < t + PongDelay
  /\ clock' = clock + 1 /\ swept' = FALSE /\ last' = Quiet
  /\ accepted' = {f \in accepted : f.at > clock + 1 - Window}
  /\ wrong' = [a \in Addresses |-> {h \in wrong[a] : h.at > clock + 1 - FailureWindow}]
  /\ UNCHANGED <<settings, state, seen, pings, limits, failures, senders, sources>>

ConnectionsNext ==
  \/ \E c \in Conns, right \in BOOLEAN : Upgrade(c, right)
  \/ \E c \in Conns : Message(c) \/ Pong(c) \/ Vanish(c) \/ Close(c)
  \/ Heartbeat
  \/ Tick

ConnectionsSpec == ConnectionsInit /\ [][ConnectionsNext]_cvars

-----------------------------------------------------------------------------
(* Types: the maps hold known keys once each and never more than they may. *)
CTypeOK ==
  /\ clock \in 0..MaxClock /\ swept \in BOOLEAN
  /\ state \in [Conns -> {"new", "open", "gone", "dead", "closed"}]
  /\ seen \in [Conns -> (0..MaxClock) \union {None}]
  /\ \A map \in {connHits, addrHits, failures} :
       /\ Len(map) <= MaxTracked
       /\ \A i, j \in DOMAIN map : map[i].key \in Keys /\ (i # j => map[i].key # map[j].key)

FramesFrom(a) == {f \in accepted : AddressOf[f.conn] = a}

(* The frames a window lets through: never more than AddrMax for an         *)
(* address, however many connections it spreads them over and whichever of  *)
(* their entries are evicted, and never more than ConnMax for a connection, *)
(* each while the limiter can remember all that send                        *)
(* (MessageRateLimiter.check).                                              *)
RatesBounded ==
  /\ Cardinality({AddressOf[c] : c \in senders}) <= MaxTracked =>
       \A a \in Addresses : Cardinality(FramesFrom(a)) <= AddrMax
  /\ Cardinality(senders) <= MaxTracked =>
       \A c \in Conns : Cardinality(FramesOf(c)) <= ConnMax

(* An address is refused only when AddrMax of its frames were let through:  *)
(* frames a connection lost to its own limit cost its siblings nothing      *)
(* (check charges the connection first).                                    *)
RefusalEarned ==
  last.kind = "throttled" /\ last.dimension = "address" =>
    Cardinality(FramesFrom(last.address)) >= AddrMax

(* The frame limits neither let through more than they should nor refuse    *)
(* an address what it is due.                                               *)
RatesExact == RatesBounded /\ RefusalEarned

(* A wrong secret is answered 429 only when MaxFailures of its address     *)
(* fall in the window, counted from the last right one, which no number of  *)
(* wrong ones blocks; and always then, while the limiter can remember every *)
(* address that failed (the upgrade handler, FailedAuthLimiter).            *)
ThrottleExact ==
  last.kind = "refused" =>
    /\ last.status = 429 => Cardinality(wrong[last.address]) >= MaxFailures
    /\ Cardinality(sources) <= MaxTracked /\ Cardinality(wrong[last.address]) >= MaxFailures =>
         last.status = 429

(* A peer that answers its pings is never terminated, not even one that     *)
(* connected just after a ping and whose first pong is in flight when the   *)
(* timeout is exactly reached (HeartbeatMonitor.sweep).                     *)
AnsweringPeersKept ==
  [][\A c \in Conns : state[c] = "open" => state'[c] # "dead"]_cvars

(* With a heartbeat, a half-open peer is found out within a timeout and an  *)
(* interval of its last sign of life, and its entry is not lost before.     *)
HalfOpenReclaimed ==
  \A c \in Conns : beating /\ state[c] = "gone" => seen[c] # None /\ clock <= seen[c] + Timeout + Interval

(* The monitor watches sockets that can still close, so that no peer is     *)
(* terminated twice and no entry outlives its socket (a late pong does not  *)
(* bring one back).                                                         *)
TrackedCanClose == \A c \in Conns : seen[c] # None => state[c] \in {"open", "gone"}

(* The heartbeat reclaims half-open peers in time, and only those: each is  *)
(* tracked until it is terminated and never afterwards.                     *)
PeersReclaimed == HalfOpenReclaimed /\ TrackedCanClose
=============================================================================
