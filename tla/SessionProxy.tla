---------------------------- MODULE SessionProxy ----------------------------
(***************************************************************************)
(* The typed protocol's session core: SessionManager (session-manager.ts), *)
(* Session (session.ts) and the handlers of SessionIntegration             *)
(* (session-integration.ts) that create, attach, detach, resume and remove *)
(* sessions, with the capacity they reserve and count.                     *)
(*                                                                         *)
(* Node runs one macrotask at a time, so a handler up to its first await   *)
(* that leaves the microtask queue is one action.  The microtasks a        *)
(* handler queues (the catch of an aborted dial, the continuation of a     *)
(* connected one) run before the next macrotask and belong to its action.  *)
(*                                                                         *)
(* Wall-clock time is abstracted to what the code compares it with: the    *)
(* resume grace (since) and the session timeout (idle).                    *)
(***************************************************************************)
EXTENDS Naturals, FiniteSets

CONSTANTS
  Socket,         \* WebSocket connections accepted by the proxy
  Conn,           \* connect frames; each becomes at most one Session
  IP,             \* client addresses
  UnknownIP,      \* the address of a socket without a remoteAddress
  Device,         \* device tokens
  None,           \* no device token / no session
  SocketOf,       \* the socket a connect frame arrives on
  AddressOf,      \* the client address of a socket
  MaxPerIP, MaxGlobal, MaxPerDevice,
  ConnectTokens,  \* the deviceToken fields a connect frame may carry
  ResumeTokens    \* the deviceToken fields a resume frame may carry

ASSUME ConstantsAssumption ==
  /\ IsFiniteSet(Conn)
  /\ SocketOf \in [Conn -> Socket]
  /\ AddressOf \in [Socket -> IP]
  /\ MaxPerIP \in Nat /\ MaxGlobal \in Nat /\ MaxPerDevice \in Nat
  /\ None \notin Conn /\ None \notin Device
  /\ ConnectTokens \subseteq Device \cup {None}
  /\ ResumeTokens \subseteq Device \cup {None}

VARIABLES
  arbitrary,   \* targetMode = 'arbitrary': DNS runs between policy and dial
  open,        \* the WebSocket's 'close' event has not fired yet
  phase,       \* where a connect frame's Session is in its life
  tel,         \* session.telnet: "open" is telnetConnected, "dying" awaits 'close'
  born,        \* session.createdAt, as a rank; 0 before creation
  dev,         \* session.deviceToken
  clients,     \* session.clients
  since,       \* session.clientlessSince against resumeGraceMs
  idle,        \* lastClientConnection is older than timeoutHours
  sockSess,    \* SessionManager.socketToSession
  devSess,     \* SessionManager.deviceSessions
  est, pend,   \* ipConnections, pendingDialCounts
  globalEst, globalPend,  \* globalEstablished, globalPendingCount
  term,        \* terminatingSessions, each with its 150 ms cleanup timer
  rmTimer,     \* sessions with a 200 ms CLIENT_CLOSE_CLEANUP_DELAY_MS timer
  tracked,     \* BackgroundPushScheduler.tracked
  left         \* history: the tokens a resume frame has taken a session away from

capVars  == <<est, pend, globalEst, globalPend>>
sessVars == <<phase, tel, born, dev, clients, since, idle>>
mapVars  == <<sockSess, devSess>>
endVars  == <<term, rmTimer>>
vars == <<open, sessVars, mapVars, capVars, endVars, tracked>>    \* all that changes

Phase == {"none", "dns", "dialing", "live", "gone"}

(* The client address dialSession captured when the frame arrived. *)
IPOf(c) == AddressOf[SocketOf[c]]

(* The entries of SessionManager.sessions. *)
InMap(c) == phase[c] \in {"dialing", "live"}
Sessions == {c \in Conn : InMap(c)}

(* A connect that holds a pending-dial reservation. *)
InFlight(c) == phase[c] \in {"dns", "dialing"}

(* session.clientIp is set: the session is counted as established. *)
Counted(c) == phase[c] = "live" /\ IPOf(c) # UnknownIP

TelnetConnected(c) == InMap(c) /\ tel[c] = "open"

Init ==
  /\ arbitrary \in BOOLEAN
  /\ open = [s \in Socket |-> TRUE]
  /\ phase = [c \in Conn |-> "none"]
  /\ tel = [c \in Conn |-> "none"]
  /\ born = [c \in Conn |-> 0]
  /\ dev = [c \in Conn |-> None]
  /\ clients = [c \in Conn |-> {}]
  /\ since = [c \in Conn |-> "null"]
  /\ idle = [c \in Conn |-> FALSE]
  /\ sockSess = [s \in Socket |-> None]
  /\ devSess = [d \in Device |-> {}]
  /\ est = [i \in IP |-> 0]
  /\ pend = [i \in IP |-> 0]
  /\ globalEst = 0
  /\ globalPend = 0
  /\ term = {}
  /\ rmTimer = {}
  /\ tracked = {}
  /\ left = [c \in Conn |-> {}]

-----------------------------------------------------------------------------
(* Capacity counters.  R is the set of connections (at most one) whose     *)
(* count or reservation a step gives back.                                 *)

Monus1(n) == IF n > 0 THEN n - 1 ELSE 0

(* incrementIPCount, skipped for an address nobody knows. *)
EstWith(c) ==
  [i \in IP |-> IF i = IPOf(c) /\ i # UnknownIP THEN est[i] + 1 ELSE est[i]]

GlobalEstWith(c) == IF IPOf(c) # UnknownIP THEN globalEst + 1 ELSE globalEst

(* Mutants of EstWithout: a removal that gives nothing back, and one that  *)
(* decrements for a session never counted, without a floor.                *)
EstWithoutLeak(R) == est
EstWithoutFloorless(R) ==
  [i \in IP |-> IF \E x \in R : IPOf(x) = i THEN est[i] - 1 ELSE est[i]]

(* decrementIPCount: the address's count, and the global total only when   *)
(* the address had something to give back.                                 *)
EstWithout(R) ==
  [i \in IP |-> IF \E x \in R : Counted(x) /\ IPOf(x) = i
                THEN Monus1(est[i]) ELSE est[i]]

GlobalEstWithout(R) ==
  IF \E x \in R : Counted(x) /\ est[IPOf(x)] > 0
  THEN Monus1(globalEst) ELSE globalEst

(* Mutant of PendWithout: only a dial releases, a refused name does not. *)
PendWithoutDns(R) ==
  [i \in IP |-> IF \E x \in R : phase[x] = "dialing" /\ IPOf(x) = i
                THEN Monus1(pend[i]) ELSE pend[i]]

(* releasePendingDial: a no-op when nothing is reserved for the address. *)
PendWithout(R) ==
  [i \in IP |-> IF \E x \in R : InFlight(x) /\ IPOf(x) = i
                THEN Monus1(pend[i]) ELSE pend[i]]

GlobalPendWithout(R) ==
  IF \E x \in R : InFlight(x) /\ pend[IPOf(x)] > 0
  THEN Monus1(globalPend) ELSE globalPend

ReleaseCapacity(R) ==
  /\ est' = EstWithout(R)
  /\ globalEst' = GlobalEstWithout(R)
  /\ pend' = PendWithout(R)
  /\ globalPend' = GlobalPendWithout(R)

(* Mutant of ReserveRefused: dials in progress are not counted. *)
ReserveRefusedEstablishedOnly(c, R) ==
  \/ EstWithout(R)[IPOf(c)] >= MaxPerIP
  \/ GlobalEstWithout(R) >= MaxGlobal

(* reservePendingDial refuses.  The reservation of an evicted dial is only *)
(* released by the microtask that follows, so pend still contains it.      *)
ReserveRefused(c, R) ==
  \/ EstWithout(R)[IPOf(c)] + pend[IPOf(c)] >= MaxPerIP
  \/ GlobalEstWithout(R) + globalPend >= MaxGlobal

Reserve(c, R) ==
  /\ ~ReserveRefused(c, R)
  /\ est' = EstWithout(R)
  /\ globalEst' = GlobalEstWithout(R)
  /\ pend' = [PendWithout(R) EXCEPT ![IPOf(c)] = @ + 1]
  /\ globalPend' = GlobalPendWithout(R) + 1

-----------------------------------------------------------------------------
(* Removing sessions.  The fields of a removed Session are never read      *)
(* again; they take one canonical value.                                   *)

Cleared(f, R, v) == [x \in Conn |-> IF x \in R THEN v ELSE f[x]]

(* Mutant of TelWithout: close() leaves the telnet socket open. *)
TelWithoutDestroy(R) == tel

(* Session.close: clients dropped, telnet ended and destroyed, its 'close' *)
(* event still to come.                                                    *)
TelWithout(R) ==
  [x \in Conn |-> IF x \in R /\ tel[x] = "open" THEN "dying" ELSE tel[x]]

(* The device index is cleaned under the token the session has now. *)
DevSessWithout(R) ==
  [d \in Device |-> {x \in devSess[d] : ~(x \in R /\ dev[x] = d)}]

SockSessWithout(R) ==
  [s \in Socket |-> IF \E x \in R : s \in clients[x] THEN None ELSE sockSess[s]]

(* removeSession without its effects on the socket index, which            *)
(* handleDisconnect bypasses, and on the telnet socket.                    *)
Drop(R) ==
  /\ phase' = Cleared(phase, R, "gone")
  /\ dev' = Cleared(dev, R, None)
  /\ clients' = Cleared(clients, R, {})
  /\ since' = Cleared(since, R, "null")
  /\ idle' = Cleared(idle, R, FALSE)
  /\ devSess' = DevSessWithout(R)
  /\ UNCHANGED born
  /\ ReleaseCapacity(R)

RemoveSession(R) ==
  /\ Drop(R)
  /\ tel' = TelWithout(R)
  /\ sockSess' = SockSessWithout(R)

-----------------------------------------------------------------------------
(* Opening a session.                                                      *)

Oldest(d) ==
  {x \in devSess[d] : \A y \in devSess[d] : born[x] <= born[y]}

(* enforceConnectionLimits: what a connect for d evicts.  The oldest entry *)
(* of a full device is removed, which does nothing if it is already gone.  *)
Evictions(d) ==
  IF d # None /\ Cardinality(devSess[d]) >= MaxPerDevice
  THEN {{x} \cap Sessions : x \in Oldest(d)}
  ELSE {{}}

(* Mutants of DetachedClients and DetachedSince: the socket stays a client *)
(* of the session it leaves; clientlessSince is never stamped.             *)
DetachedClientsKept(s) == clients
DetachedSinceUnstamped(s) == since

(* detachClient on the session socketToSession holds for s: clientlessSince *)
(* is stamped on the transition to zero clients.                           *)
DetachedClients(s) ==
  [x \in Conn |-> IF x = sockSess[s] THEN clients[x] \ {s} ELSE clients[x]]

DetachedSince(s) ==
  [x \in Conn |-> IF x = sockSess[s] /\ InMap(x)
                  THEN IF clients[x] \subseteq {s} THEN "fresh" ELSE "null"
                  ELSE since[x]]

(* SessionManager.create and attachWebSocket for frame c with token d,     *)
(* after R was removed.  The socket leaves the session it is attached to.  *)
AttachNew(c, d, R) ==
  LET s == SocketOf[c] IN
  /\ phase' = [Cleared(phase, R, "gone") EXCEPT ![c] = "dialing"]
  /\ tel' = TelWithout(R)
  /\ born' = [born EXCEPT ![c] = 1 + Cardinality({x \in Conn : born[x] > 0})]
  /\ dev' = [Cleared(dev, R, None) EXCEPT ![c] = d]
  /\ clients' = [Cleared(DetachedClients(s), R, {}) EXCEPT ![c] = {s}]
  /\ since' = [Cleared(DetachedSince(s), R, "null") EXCEPT ![c] = "null"]
  /\ idle' = Cleared(idle, R, FALSE)
  /\ sockSess' = [SockSessWithout(R) EXCEPT ![s] = c]
  /\ devSess' = [x \in Device |->
       IF x = d THEN DevSessWithout(R)[x] \cup {c} ELSE DevSessWithout(R)[x]]

(* openTelnetSession's own check, then the frame is looked at. *)
MayConnect(c) ==
  /\ phase[c] = "none"
  /\ open[SocketOf[c]]
  /\ sockSess[SocketOf[c]] = None

(* A connect refused by the limits; an eviction made on the way stands. *)
ConnectRefused(c, d) ==
  /\ MayConnect(c)
  /\ \E R \in Evictions(d) :
       /\ ReserveRefused(c, R)
       /\ RemoveSession(R)
  /\ UNCHANGED <<open, endVars, tracked>>

(* fixed and allowlist mode: policy, reservation, session and the start of *)
(* the dial in one macrotask.                                              *)
ConnectDial(c, d) ==
  /\ ~arbitrary
  /\ MayConnect(c)
  /\ \E R \in Evictions(d) : Reserve(c, R) /\ AttachNew(c, d, R)
  /\ tracked' = tracked \ {c}
  /\ UNCHANGED <<open, endVars>>

(* arbitrary mode: the reservation is taken and the name is being resolved. *)
ConnectResolve(c, d) ==
  /\ arbitrary
  /\ MayConnect(c)
  /\ \E R \in Evictions(d) :
       /\ Reserve(c, R)
       /\ phase' = [Cleared(phase, R, "gone") EXCEPT ![c] = "dns"]
       /\ dev' = [Cleared(dev, R, None) EXCEPT ![c] = d]
       /\ tel' = TelWithout(R)
       /\ clients' = Cleared(clients, R, {})
       /\ since' = Cleared(since, R, "null")
       /\ idle' = Cleared(idle, R, FALSE)
       /\ devSess' = DevSessWithout(R)
       /\ sockSess' = SockSessWithout(R)
  /\ UNCHANGED <<open, born, endVars, tracked>>

(* The resolver answered with a public address: dialSession creates the    *)
(* session and attaches the socket, without looking at either again.       *)
ResolveAllowed(c) ==
  /\ phase[c] = "dns"
  /\ AttachNew(c, dev[c], {})
  /\ tracked' = tracked \ {c}
  /\ UNCHANGED <<open, capVars, endVars>>

(* The resolver refused the address, found none, or rejected. *)
ResolveDenied(c) ==
  /\ phase[c] = "dns"
  /\ RemoveSession({c})
  /\ UNCHANGED <<open, endVars, tracked>>

(* session.connect() resolved: count first, then release. *)
DialSucceeds(c) ==
  /\ phase[c] = "dialing"
  /\ phase' = [phase EXCEPT ![c] = "live"]
  /\ tel' = [tel EXCEPT ![c] = "open"]
  /\ est' = EstWith(c)
  /\ globalEst' = GlobalEstWith(c)
  /\ pend' = PendWithout({c})
  /\ globalPend' = GlobalPendWithout({c})
  /\ UNCHANGED <<open, born, dev, clients, since, idle, mapVars, endVars, tracked>>

(* session.connect() rejected by the transport. *)
DialFails(c) ==
  /\ phase[c] = "dialing"
  /\ RemoveSession({c})
  /\ tracked' = tracked \ {c}
  /\ UNCHANGED <<open, endVars>>

-----------------------------------------------------------------------------
(* The end of the MUD connection.                                          *)

(* telnet 'close' event.  SessionManager's observer runs first, then       *)
(* SessionIntegration's handleMudTermination, which broadcasts             *)
(* 'disconnected'; both defer the removal while clients are attached.      *)
TelnetClosed(c) ==
  /\ tel[c] \in {"open", "dying"}
  /\ \/ /\ clients[c] # {}
        /\ tel' = [tel EXCEPT ![c] = "closed"]
        /\ rmTimer' = rmTimer \cup {c}
        /\ term' = term \cup {c}
        /\ UNCHANGED <<phase, born, dev, clients, since, idle, mapVars, capVars,
                       tracked>>
     \/ /\ clients[c] = {}
        /\ Drop({c} \cap Sessions)
        /\ tel' = [tel EXCEPT ![c] = "closed"]
        /\ tracked' = IF c \in term THEN tracked ELSE tracked \ {c}
        /\ UNCHANGED <<sockSess, endVars>>
  /\ UNCHANGED open

(* telnet 'error' event of an established connection; 'close' follows. *)
TelnetError(c) ==
  /\ TelnetConnected(c)
  /\ \/ /\ clients[c] # {}
        /\ tel' = [tel EXCEPT ![c] = "dying"]
        /\ term' = term \cup {c}
        /\ UNCHANGED <<phase, born, dev, clients, since, idle, mapVars, capVars,
                       tracked>>
     \/ /\ clients[c] = {}
        /\ RemoveSession({c})
        /\ tracked' = tracked \ {c}
        /\ UNCHANGED term
  /\ UNCHANGED <<open, rmTimer>>

(* The 150 ms timer of handleMudTermination. *)
TerminationTimer(c) ==
  /\ c \in term
  /\ RemoveSession({c} \cap Sessions)
  /\ term' = term \ {c}
  /\ tracked' = tracked \ {c}
  /\ UNCHANGED <<open, rmTimer>>

(* The 200 ms timer of SessionManager.create, armed no earlier than the    *)
(* 150 ms one of the same session.                                         *)
RemovalTimer(c) ==
  /\ c \in rmTimer /\ c \notin term
  /\ RemoveSession({c} \cap Sessions)
  /\ rmTimer' = rmTimer \ {c}
  /\ UNCHANGED <<open, term, tracked>>

-----------------------------------------------------------------------------
(* Client frames and WebSocket events.                                     *)

(* handleResume with a valid token.  The new token is stored on the        *)
(* session; the device index is not touched.                               *)
Resume(s, c, d) ==
  /\ open[s] /\ InMap(c)
  /\ \/ /\ idle[c]
        /\ RemoveSession({c})
     \/ /\ ~idle[c]
        /\ clients' = [DetachedClients(s) EXCEPT ![c] = @ \cup {s}]
        /\ since' = [DetachedSince(s) EXCEPT ![c] = "null"]
        /\ sockSess' = [sockSess EXCEPT ![s] = c]
        /\ dev' = IF d = None THEN dev ELSE [dev EXCEPT ![c] = d]
        /\ UNCHANGED <<phase, tel, born, idle, devSess, capVars>>
  /\ tracked' = tracked \ {c}
  /\ UNCHANGED <<open, endVars>>

(* handleDisconnect: session.close() has emptied session.clients before    *)
(* removeSession looks, so the socket index keeps its entries until the    *)
(* sockets close.  On such a left-over entry the frame changes nothing.    *)
Disconnect(s) ==
  /\ open[s] /\ sockSess[s] # None
  /\ LET c == sockSess[s] IN
       /\ InMap(c)
       /\ Drop({c})
       /\ tel' = TelWithout({c})
       /\ tracked' = tracked \ {c}
  /\ UNCHANGED <<open, sockSess, endVars>>

(* Mutant of DetachSocket: push starts although other clients remain. *)
DetachSocketTracksAlways(s) ==
  /\ clients' = DetachedClients(s)
  /\ since' = DetachedSince(s)
  /\ sockSess' = [sockSess EXCEPT ![s] = None]
  /\ tracked' = tracked \cup {x \in Conn : x = sockSess[s] /\ TelnetConnected(x)}
  /\ UNCHANGED <<phase, tel, born, dev, idle, devSess, capVars, endVars>>

(* detachWebSocket, then handleSocketClose's hand-over to background push. *)
DetachSocket(s) ==
  /\ clients' = DetachedClients(s)
  /\ since' = DetachedSince(s)
  /\ sockSess' = [sockSess EXCEPT ![s] = None]
  /\ tracked' = tracked \cup {x \in Conn : /\ x = sockSess[s]
                                          /\ DetachedClients(s)[x] = {}
                                          /\ TelnetConnected(x)}
  /\ UNCHANGED <<phase, tel, born, dev, idle, devSess, capVars, endVars>>

(* The WebSocket's 'close' event: closeSocket. *)
SocketClosed(s) ==
  /\ open[s]
  /\ open' = [open EXCEPT ![s] = FALSE]
  /\ DetachSocket(s)

-----------------------------------------------------------------------------
(* The five-minute cleanup interval.  It removes every candidate in one    *)
(* macrotask; since candidates age independently, one at a time reaches    *)
(* the same states.                                                        *)

GraceElapses(c) ==
  /\ since[c] = "fresh"
  /\ since' = [since EXCEPT ![c] = "expired"]
  /\ UNCHANGED <<open, phase, tel, born, dev, clients, idle, mapVars, capVars,
                 endVars, tracked>>

TimeoutElapses(c) ==
  /\ InMap(c) /\ ~idle[c]
  /\ idle' = [idle EXCEPT ![c] = TRUE]
  /\ UNCHANGED <<open, phase, tel, born, dev, clients, since, mapVars, capVars,
                 endVars, tracked>>

(* reapClientlessSessions *)
ReapClientless(c) ==
  /\ InMap(c) /\ clients[c] = {} /\ since[c] = "expired"
  /\ RemoveSession({c})
  /\ UNCHANGED <<open, endVars, tracked>>

(* cleanupInactiveSessions *)
CleanupInactive(c) ==
  /\ InMap(c) /\ idle[c]
  /\ RemoveSession({c})
  /\ UNCHANGED <<open, endVars, tracked>>

-----------------------------------------------------------------------------
Client ==
  \/ \E c \in Conn, d \in ConnectTokens :
       ConnectRefused(c, d) \/ ConnectDial(c, d) \/ ConnectResolve(c, d)
  \/ \E s \in Socket, c \in Conn, d \in ResumeTokens : Resume(s, c, d)
  \/ \E s \in Socket : Disconnect(s) \/ SocketClosed(s)

Upstream ==
  \E c \in Conn :
    \/ ResolveAllowed(c) \/ ResolveDenied(c)
    \/ DialSucceeds(c) \/ DialFails(c)
    \/ TelnetClosed(c) \/ TelnetError(c)

Timers ==
  \E c \in Conn :
    \/ TerminationTimer(c) \/ RemovalTimer(c)
    \/ GraceElapses(c) \/ TimeoutElapses(c)
    \/ ReapClientless(c) \/ CleanupInactive(c)

Next == Client \/ Upstream \/ Timers

(* A session that stays gets another token. *)
RecordLeft ==
  left' = [c \in Conn |-> IF InMap(c) /\ InMap(c)' /\ dev'[c] # dev[c]
                          THEN left[c] \cup {dev[c]} ELSE left[c]]

(* The target mode is configuration: no step changes it. *)
Step == Next /\ UNCHANGED arbitrary /\ RecordLeft

Spec == Init /\ [][Step]_<<vars, arbitrary, left>>

(***************************************************************************)
(* Fairness.  Timers fire, a resolver answers, and a dial ends: mud-       *)
(* transport.ts bounds every dial by a timer.  Node emits 'close' for a    *)
(* destroyed socket.  Nothing is assumed of clients, of a healthy MUD      *)
(* connection, or of the 24-hour timeout.                                  *)
(***************************************************************************)
Fairness ==
  \A c \in Conn :
    /\ WF_vars(ResolveAllowed(c) \/ ResolveDenied(c))
    /\ WF_vars(DialSucceeds(c) \/ DialFails(c))
    /\ WF_vars(tel[c] = "dying" /\ TelnetClosed(c))
    /\ WF_vars(TerminationTimer(c))
    /\ WF_vars(RemovalTimer(c))
    /\ WF_vars(GraceElapses(c))
    /\ WF_vars(ReapClientless(c))

FairSpec == Spec /\ Fairness

-----------------------------------------------------------------------------
(* Properties.                                                             *)

(* The state of the session core is well typed.  The counters of           *)
(* SessionManager are natural numbers: no order of releases and removals   *)
(* takes one below zero, although decrementIPCount and releasePendingDial  *)
(* are reached from many places.                                           *)
TypeOK ==
  /\ open \in [Socket -> BOOLEAN]
  /\ phase \in [Conn -> Phase]
  /\ tel \in [Conn -> {"none", "open", "dying", "closed"}]
  /\ born \in [Conn -> Nat]
  /\ dev \in [Conn -> Device \cup {None}]
  /\ clients \in [Conn -> SUBSET Socket]
  /\ since \in [Conn -> {"null", "fresh", "expired"}]
  /\ idle \in [Conn -> BOOLEAN]
  /\ sockSess \in [Socket -> Conn \cup {None}]
  /\ devSess \in [Device -> SUBSET Conn]
  /\ est \in [IP -> Nat]
  /\ pend \in [IP -> Nat]
  /\ globalEst \in Nat
  /\ globalPend \in Nat
  /\ term \subseteq Conn
  /\ rmTimer \subseteq Conn
  /\ tracked \subseteq Conn

InFlightSet == {c \in Conn : InFlight(c)}
CountedSet == {c \in Conn : Counted(c)}
FromIP(S, i) == {c \in S : IPOf(c) = i}

(* The counters of SessionManager are exact: every reservation and every   *)
(* established count belongs to one connection that still exists, on each  *)
(* way out of authorizeConnect and dialSession and for each way a session  *)
(* is removed (timers, eviction, disconnect, MUD end, abort of a dial).    *)
(* A leaked one would be capacity that never returns until a restart.      *)
CountersExact ==
  /\ \A i \in IP : /\ pend[i] = Cardinality(FromIP(InFlightSet, i))
                   /\ est[i] = Cardinality(FromIP(CountedSet, i))
  /\ globalPend = Cardinality(InFlightSet)
  /\ globalEst = Cardinality(CountedSet)

(* The connections the limits are about. *)
Held == InFlightSet \cup CountedSet

(* maxPerIP and maxGlobal bound what is really open upstream: dials in     *)
(* progress and established sessions together, at every instant, however   *)
(* connects, handoffs from pending to established and removals interleave. *)
CapacityBounded ==
  /\ \A i \in IP : Cardinality(FromIP(Held, i)) <= MaxPerIP
  /\ Cardinality(Held) <= MaxGlobal

(* socketToSession and session.clients describe the same attachment, so    *)
(* input, NAWS and socket close reach the session that broadcasts to the   *)
(* socket; a socket is never a client of two sessions or of a removed one. *)
IndexesAgree ==
  \A s \in Socket, c \in Conn :
    /\ s \in clients[c] => sockSess[s] = c /\ InMap(c)
    /\ sockSess[s] = c /\ InMap(c) => s \in clients[c]

(* clientlessSince is set exactly on the sessions without clients, whatever *)
(* order attaches, moves between sessions and closes happen in: a missing  *)
(* stamp hides a dead session from reapClientlessSessions, a stale one     *)
(* exposes an attached session's successor to an old window.               *)
ClientlessIsStamped ==
  \A c \in Conn : InMap(c) => (clients[c] = {} <=> since[c] # "null")

(* The device index holds the live sessions of each token and nothing      *)
(* else, up to the sessions whose token a resume frame replaced:           *)
(* handleResume stores the new token and leaves the index as it is, so     *)
(* such a session is found under its first token, even when it is gone.    *)
(* MAX_SESSIONS_PER_DEVICE bounds the entries of a token no session was    *)
(* taken away from (fixed or allowlist mode: in arbitrary mode the lookup  *)
(* runs between the eviction and the entry).                               *)
DeviceIndexExact ==
  \A d \in Device :
    /\ {c \in devSess[d] : d \notin left[c]}
         = {c \in Sessions : dev[c] = d /\ left[c] = {}}
    /\ ~arbitrary /\ (\A c \in Conn : d \notin left[c])
         => Cardinality(devSess[d]) <= MaxPerDevice

(* Background push never covers a session a client is looking at.          *)
PushOnlyWhenAway == \A c \in tracked : clients[c] = {}

(* Both indexes of SessionManager describe the sessions as they are. *)
IndexesExact == IndexesAgree /\ DeviceIndexExact

Lease == INSTANCE CapacityLease WITH held <- Held, Address <- IPOf

(* The limits are implemented: connections are granted and give back the   *)
(* leases of CapacityLease; the handoff from pending to established is     *)
(* invisible.                                                              *)
ImplementsLease == Lease!Spec

(* Every socket still attached to the session has closed. *)
Abandoned(c) == InMap(c) /\ \A s \in clients[c] : ~open[s]

(* A session that nobody is attached to gives its slot back once the       *)
(* resume grace has passed, unless somebody resumes it (fixed and          *)
(* allowlist mode; see GraceIsRunning for the other).                      *)
AbandonedIsReclaimed ==
  \A c \in Conn : (~arbitrary /\ Abandoned(c)) ~> ~Abandoned(c)

(* A session whose MUD connection ended is removed, and its background     *)
(* push state goes with it even when SessionManager removed it alone.      *)
EndedIsForgotten ==
  \A c \in Conn :
    (phase[c] = "gone" \/ (InMap(c) /\ tel[c] \in {"dying", "closed"}))
      ~> (phase[c] = "gone" /\ c \notin tracked)

-----------------------------------------------------------------------------
(* What the documentation says, where the code does otherwise.             *)

(* One connect per socket (session-integration.ts:517): a socket never has *)
(* two dials of its own in progress.                                       *)
OneConnectPerSocket ==
  \A s \in Socket :
    Cardinality({c \in Conn : SocketOf[c] = s /\ InFlight(c)}) <= 1

(* RESUME_GRACE_MINUTES is how long a session with no attached client      *)
(* keeps its slot (docs/configuration.md:148): once every socket of a      *)
(* session has closed, its grace window is running.                        *)
GraceIsRunning == \A c \in Conn : Abandoned(c) => since[c] # "null"

=============================================================================
